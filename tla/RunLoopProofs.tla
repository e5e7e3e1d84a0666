---------------------------- MODULE RunLoopProofs ----------------------------
(***************************************************************************)
(* What a run leaves behind, for every queue, every attempt's ending and   *)
(* every number of failed writes, wherever it is interrupted or dies: the  *)
(* queue accounted for in order, events that tell of just what was done, a *)
(* file of them without a hole, and a history that misses no more attempts *)
(* than writes failed.                                                     *)
(***************************************************************************)
EXTENDS RunLoop, TLAPS, FiniteSetTheorems, WellFoundedInduction

AtAttempt == {"record", "tell", "close", "next"}
AtEnd == {"finish", "finishRow", "end", "done"}

(* Position is the next candidate, or the one just attempted.              *)
Counted ==
  /\ \A k \in DOMAIN attempts : attempts[k].number = k
  /\ pc # "dead" =>
       Len(attempts) = IF pc \in AtAttempt \/ halted THEN position ELSE position - 1
  /\ pc \in AtAttempt \/ halted => position \in Numbers
  /\ pc \in {"start", "discover"} => attempts = <<>> /\ position = 1
  /\ halted => pc \in AtEnd \cup {"dead"}
  /\ \A k \in DOMAIN attempts : attempts[k].ending.halted =>
       k = Len(attempts) /\ (halted \/ pc \in {"record", "next", "dead"})
  /\ pc \in AtEnd /\ ~halted /\ ~cancelled =>
       attempts = <<>> \/ position = Len(queue) + 1

(* An attempt set aside is a skip, and only a superseded one of a run that *)
(* is not dry comes to be closed.                                          *)
SetAside ==
  /\ pc \in {"record", "tell", "close"} /\ Aside => attempts[position].ending = Skipped
  /\ pc \in {"tell", "close"} => Aside
  /\ pc = "close" => Closes

(* What became of a pull request is what its attempt says, but for a merge *)
(* the attempt left underway, which may be carried out or not.             *)
StatusIsTheEnding ==
  /\ pc # "dead" =>
       \A i \in Numbers :
         /\ status[i] = "merged" =>
              i \in DOMAIN attempts /\ attempts[i].ending.request # "open"
         /\ status[i] = "closed" => i \in DOMAIN attempts
  /\ dryRun =>
       /\ \A i \in Numbers : status[i] = "open"
       /\ \A k \in DOMAIN attempts : attempts[k].ending.request = "open"

(* The halt, if any, has been told of.                                     *)
Closing == {"finishRow", "end", "done", "dead"}

(* Events tell of what was done, and miss a merge of no attempt that ended *)
(* without a halt.                                                         *)
Tells ==
  /\ Telling(stream, "closed") \subseteq On("closed")
  /\ Telling(stream, "merged") \subseteq On("merged")
  /\ \A i \in DOMAIN attempts :
       ~attempts[i].ending.halted /\ attempts[i].ending.request = "merged" =>
         i \in Telling(stream, "merged")
  /\ pc = "start" => stream = <<>>
  /\ pc \notin {"start", "dead"} => stream # <<>>
  /\ pc \notin Closing \/ ~halted => Telling(stream, "halted") = {}
  /\ pc \in {"finishRow", "end"} /\ halted => stream[Len(stream)].kind = "halted"

(* The history misses as many attempts as writes failed, at most.          *)
MissesFaults ==
  row # "none" /\ pc # "dead" =>
    /\ pc # "record" => Len(attempts) <= Cardinality(recorded) + faults
    /\ pc = "record" => Len(attempts) <= Cardinality(recorded) + faults + 1

(* It knows no attempt that was not made, and how the run went on.         *)
Remembered ==
  /\ MissesFaults
  /\ recorded \subseteq DOMAIN attempts
  /\ pc = "record" => position \notin recorded
  /\ pc = "start" => row = "none"
  /\ row = "none" => recorded = {}
  /\ row = "none" /\ pc \notin {"start", "dead"} /\ faults = 0 => attempts = <<>> /\ cancelled
  /\ row \in {"finished", "halted"} => pc \in {"end", "done", "dead"}
  /\ pc \in {"end", "done"} /\ row = "started" => faults # 0
  /\ row = "halted" => halted
  /\ row = "finished" => ~halted

(* Nothing is closed but what the discovery found superseded.              *)
ClosesTheSuperseded ==
  /\ superseded = Superseded(queue)
  /\ \A i \in Numbers : status[i] = "closed" => i \in superseded

IInv == TypeOK /\ Counted /\ SetAside /\ StatusIsTheEnding /\ ClosesTheSuperseded
          /\ FileHasNoHole /\ Tells /\ StreamIsTheRecord /\ Remembered

USE LoopAssumption

-----------------------------------------------------------------------------
(* The order of versions, and the newest offer of a line.                  *)

(* The least of a set of naturals.                                         *)
LEMMA LeastNatural ==
  ASSUME NEW T, T \subseteq Nat, T # {}
  PROVE  \E m \in T : \A n \in T : m <= n
<1> DEFINE R == OpToRel(<, Nat)
<1>1. IsWellFoundedOn(R, Nat)
  BY NatLessThanWellFounded
<1>2. \A i, j \in Nat : i < j => <<i, j>> \in R
  BY DEF OpToRel
<1> HIDE DEF R
<1>3. PICK m \in T : \A n \in T : ~(<<n, m>> \in R)
  BY <1>1, WFMin
<1>4. ASSUME NEW n \in T, ~(m <= n) PROVE FALSE
  <2>1. m \in Nat /\ n \in Nat
    OBVIOUS
  <2>2. n < m
    BY <1>4, <2>1
  <2> QED BY <1>2, <1>3, <2>1, <2>2
<1> QED BY <1>4

(* Min finds it.                                                           *)
LEMMA LeastIsMin ==
  ASSUME NEW T, T \subseteq Nat, T # {}
  PROVE  Min(T) \in T /\ \A n \in T : Min(T) <= n
BY LeastNatural DEF Min

(* Three comparisons that follow from one order. *)
Chained(ab, bc, ac) ==
  ab <= 0 /\ bc <= 0 => ac <= 0 /\ (ab < 0 \/ bc < 0 => ac < 0)

(* Of two that compare the same pair, one each way. *)
Mirrored(ab, ba) ==
  /\ ab = 0 <=> ba = 0
  /\ ab = -1 <=> ba = 1
  /\ ab = 1 <=> ba = -1

Place == Nat \ {0}

(* The numbers of a version, and where they first differ.                  *)
LEMMA FirstDifference ==
  ASSUME NEW a \in Seq(Nat), NEW b \in Seq(Nat)
  PROVE  \/ CompareNumbers(a, b) = 0 /\ \A i \in Place : PartAt(a, i) = PartAt(b, i)
         \/ \E m \in Place :
              /\ \A i \in Place : i < m => PartAt(a, i) = PartAt(b, i)
              /\ \/ PartAt(a, m) < PartAt(b, m) /\ CompareNumbers(a, b) = -1
                 \/ PartAt(a, m) > PartAt(b, m) /\ CompareNumbers(a, b) = 1
<1> DEFINE differ == {i \in DOMAIN a \cup DOMAIN b : PartAt(a, i) # PartAt(b, i)}
<1>1. DOMAIN a \subseteq Place /\ DOMAIN b \subseteq Place
  BY DEF Place
<1>2. \A i \in Place : PartAt(a, i) \in Nat /\ PartAt(b, i) \in Nat
  BY DEF PartAt
<1>3. \A i \in Place : i \notin differ => PartAt(a, i) = PartAt(b, i)
  BY DEF PartAt
<1>4. Moved(a, b) = IF differ = {} THEN 0 ELSE Min(differ)
  BY DEF Moved
<1>5. CASE differ = {}
  <2>1. CompareNumbers(a, b) = 0
    BY <1>4, <1>5 DEF CompareNumbers
  <2> QED BY <1>3, <1>5, <2>1
<1>6. CASE differ # {}
  <2>1. PICK m \in differ : m = Moved(a, b) /\ \A i \in differ : m <= i
    <3>1. differ \subseteq Nat
      BY <1>1 DEF Place
    <3> HIDE DEF differ
    <3> QED BY <1>4, <1>6, <3>1, LeastIsMin
  <2>2. m \in Place /\ PartAt(a, m) # PartAt(b, m)
    BY <1>1, <2>1
  <2>3. CompareNumbers(a, b) = Sign(PartAt(a, m) - PartAt(b, m))
    BY <2>1, <2>2 DEF CompareNumbers, Place
  <2>4. ASSUME NEW i \in Place, i < m PROVE PartAt(a, i) = PartAt(b, i)
    <3>1. ~(m <= i)
      BY <2>2, <2>4 DEF Place
    <3> QED BY <1>3, <2>1, <3>1
  <2>5. PartAt(a, m) \in Nat /\ PartAt(b, m) \in Nat
    BY <1>2, <2>2
  <2>6. \/ PartAt(a, m) < PartAt(b, m) /\ CompareNumbers(a, b) = -1
        \/ PartAt(a, m) > PartAt(b, m) /\ CompareNumbers(a, b) = 1
    BY <2>2, <2>3, <2>5 DEF Sign
  <2> QED BY <2>2, <2>4, <2>6
<1> QED BY <1>5, <1>6

(* They are ordered by it.                                                 *)
LEMMA NumbersAreOrdered ==
  ASSUME NEW a \in Seq(Nat), NEW b \in Seq(Nat), NEW c \in Seq(Nat)
  PROVE  /\ CompareNumbers(a, b) \in {-1, 0, 1}
         /\ Mirrored(CompareNumbers(a, b), CompareNumbers(b, a))
         /\ Chained(CompareNumbers(a, b), CompareNumbers(b, c), CompareNumbers(a, c))
<1> DEFINE same(x, y, m) == \A i \in Place : i < m => PartAt(x, i) = PartAt(y, i)
           alike(x, y) == \A i \in Place : PartAt(x, i) = PartAt(y, i)
           below(x, y) == \E m \in Place : same(x, y, m) /\ PartAt(x, m) < PartAt(y, m)
<1>1. \A x \in {a, b, c} : \A i \in Place : PartAt(x, i) \in Nat
  BY DEF PartAt
<1>2. ASSUME NEW x \in {a, b, c}, NEW y \in {a, b, c}
      PROVE  \/ CompareNumbers(x, y) = 0 /\ alike(x, y)
             \/ CompareNumbers(x, y) = -1 /\ below(x, y)
             \/ CompareNumbers(x, y) = 1 /\ below(y, x)
  <2>1. CASE CompareNumbers(x, y) = 0 /\ alike(x, y)
    BY <2>1
  <2>2. CASE \E m \in Place :
               /\ same(x, y, m)
               /\ \/ PartAt(x, m) < PartAt(y, m) /\ CompareNumbers(x, y) = -1
                  \/ PartAt(x, m) > PartAt(y, m) /\ CompareNumbers(x, y) = 1
    <3>1. PICK m \in Place :
               /\ same(x, y, m)
               /\ \/ PartAt(x, m) < PartAt(y, m) /\ CompareNumbers(x, y) = -1
                  \/ PartAt(x, m) > PartAt(y, m) /\ CompareNumbers(x, y) = 1
      BY <2>2
    <3>2. PartAt(x, m) > PartAt(y, m) => PartAt(y, m) < PartAt(x, m)
      BY <1>1
    <3>3. same(y, x, m)
      BY <3>1
    <3> QED BY <3>1, <3>2, <3>3
  <2> QED BY <2>1, <2>2, FirstDifference
<1>3. ASSUME NEW x \in {a, b, c}, NEW y \in {a, b, c}, NEW z \in {a, b, c}, below(x, y), below(y, z)
      PROVE  below(x, z)
  <2>1. PICK m \in Place : same(x, y, m) /\ PartAt(x, m) < PartAt(y, m)
    BY <1>3
  <2>2. PICK n \in Place : same(y, z, n) /\ PartAt(y, n) < PartAt(z, n)
    BY <1>3
  <2>3. /\ PartAt(x, m) \in Nat /\ PartAt(y, m) \in Nat /\ PartAt(z, m) \in Nat
        /\ PartAt(x, n) \in Nat /\ PartAt(y, n) \in Nat /\ PartAt(z, n) \in Nat
    BY <1>1
  <2>4. CASE m < n
    <3>1. PartAt(y, m) = PartAt(z, m)
      BY <2>2, <2>4
    <3>2. same(x, z, m)
      BY <2>1, <2>2, <2>4 DEF Place
    <3> QED BY <2>1, <3>1, <3>2
  <2>5. CASE m = n
    <3>1. PartAt(x, m) < PartAt(z, m)
      BY <2>1, <2>2, <2>3, <2>5
    <3>2. same(x, z, m)
      BY <2>1, <2>2, <2>5
    <3> QED BY <3>1, <3>2
  <2>6. CASE n < m
    <3>1. PartAt(x, n) = PartAt(y, n)
      BY <2>1, <2>6
    <3>2. same(x, z, n)
      BY <2>1, <2>2, <2>6 DEF Place
    <3> QED BY <2>2, <3>1, <3>2
  <2> QED BY <2>4, <2>5, <2>6 DEF Place
<1>4. ASSUME NEW x \in {a, b, c}, NEW y \in {a, b, c}, NEW z \in {a, b, c}, alike(x, y)
      PROVE  /\ below(x, z) <=> below(y, z)
             /\ below(z, x) <=> below(z, y)
             /\ alike(x, z) <=> alike(y, z)
             /\ alike(y, x)
  BY <1>4
<1>5. ASSUME NEW x \in {a, b, c}, NEW y \in {a, b, c}, below(x, y)
      PROVE  ~below(y, x) /\ ~alike(x, y)
  <2>1. ~below(x, x)
    BY <1>1
  <2>2. ~alike(x, y)
    BY <1>1, <1>5
  <2> QED BY <1>3, <1>5, <2>1, <2>2
<1> HIDE DEF same, alike, below
<1>6. CompareNumbers(a, b) \in {-1, 0, 1}
  BY <1>2
<1>7. Mirrored(CompareNumbers(a, b), CompareNumbers(b, a))
  BY <1>2, <1>4, <1>5 DEF Mirrored
<1>8. Chained(CompareNumbers(a, b), CompareNumbers(b, c), CompareNumbers(a, c))
  <2> SUFFICES ASSUME CompareNumbers(a, b) # 1, CompareNumbers(b, c) # 1
               PROVE  /\ CompareNumbers(a, c) # 1
                      /\ CompareNumbers(a, b) = -1 \/ CompareNumbers(b, c) = -1 =>
                           CompareNumbers(a, c) = -1
    <3>1. \A x, y \in {a, b, c} : CompareNumbers(x, y) \in {-1, 0, 1}
      BY <1>2
    <3> QED BY <3>1 DEF Chained
  <2>0. ASSUME NEW x \in {a, b, c}, NEW y \in {a, b, c}, CompareNumbers(x, y) # 1
        PROVE  \/ CompareNumbers(x, y) = 0 /\ alike(x, y)
               \/ CompareNumbers(x, y) = -1 /\ below(x, y)
    BY <1>2, <2>0
  <2>1. \/ CompareNumbers(a, b) = 0 /\ alike(a, b)
        \/ CompareNumbers(a, b) = -1 /\ below(a, b)
    BY <2>0
  <2>2. \/ CompareNumbers(b, c) = 0 /\ alike(b, c)
        \/ CompareNumbers(b, c) = -1 /\ below(b, c)
    BY <2>0
  <2>3. \/ below(a, c)
        \/ alike(a, c) /\ CompareNumbers(a, b) = 0 /\ CompareNumbers(b, c) = 0
    BY <1>3, <1>4, <2>1, <2>2
  <2>4. below(a, c) => CompareNumbers(a, c) = -1
    BY <1>2, <1>5
  <2>5. alike(a, c) => CompareNumbers(a, c) = 0
    BY <1>2, <1>4, <1>5
  <2> QED BY <2>3, <2>4, <2>5
<1> QED BY <1>6, <1>7, <1>8

(* Identifiers of a suffix whose numbers fit.                              *)
Short == [number : Nat \cup {Word}, text : Int]

(* They are ordered: numbers first, by their size, and words by their text.*)
LEMMA IdentifiersAreOrdered ==
  ASSUME NEW x \in Short, NEW y \in Short, NEW z \in Short
  PROVE  /\ CompareIdentifier(x, y) \in {-1, 0, 1}
         /\ Mirrored(CompareIdentifier(x, y), CompareIdentifier(y, x))
         /\ Chained(CompareIdentifier(x, y), CompareIdentifier(y, z), CompareIdentifier(x, z))
         /\ CompareIdentifier(x, y) = CompareRangeIdentifier(x, y)
<1>1. \A u \in Short : /\ u.number \in Nat \/ u.number = -1
                       /\ u.number # TooBig /\ u.text \in Int
  BY DEF Short, Word, TooBig
<1>2. \A u, v \in Short :
        CompareIdentifier(u, v) =
          IF u.number # -1 /\ v.number # -1 THEN Sign(u.number - v.number)
          ELSE IF u.number # -1 THEN -1
          ELSE IF v.number # -1 THEN 1
          ELSE Sign(u.text - v.text)
  BY <1>1 DEF CompareIdentifier, Word
<1>3. CompareIdentifier(x, y) = CompareRangeIdentifier(x, y)
  BY <1>1 DEF CompareIdentifier, CompareRangeIdentifier, Word
<1>4. \A u, v \in Short : CompareIdentifier(u, v) \in {-1, 0, 1}
  BY <1>1, <1>2 DEF Sign
<1>5. Mirrored(CompareIdentifier(x, y), CompareIdentifier(y, x))
  BY <1>1, <1>2 DEF Mirrored, Sign
<1>6. Chained(CompareIdentifier(x, y), CompareIdentifier(y, z), CompareIdentifier(x, z))
  BY <1>1, <1>2 DEF Chained, Sign
<1> QED BY <1>3, <1>4, <1>5, <1>6

(* The suffixes of two releases, as Newer compares them. *)
SuffixOrder(a, b) ==
  ComparePrerelease(a, b, [i \in DOMAIN a \cap DOMAIN b |-> CompareIdentifier(a[i], b[i])])

(* Two suffixes agree up to a place.                                       *)
Agree(a, b, m) ==
  \A i \in Place : i < m /\ i <= Len(a) /\ i <= Len(b) => CompareIdentifier(a[i], b[i]) = 0
(* One is the lower one, by an identifier or by its length.                *)
Lower(a, b) ==
  \E m \in Place :
    /\ m <= Len(b) /\ Agree(a, b, m)
    /\ m <= Len(a) => CompareIdentifier(a[m], b[m]) = -1

(* Where two suffixes first differ decides, and a release is above any.    *)
LEMMA SuffixesCompared ==
  ASSUME NEW a \in Seq(Short), NEW b \in Seq(Short)
  PROVE  /\ a = <<>> /\ b = <<>> => SuffixOrder(a, b) = 0
         /\ a = <<>> /\ b # <<>> => SuffixOrder(a, b) = 1
         /\ a # <<>> /\ b = <<>> => SuffixOrder(a, b) = -1
         /\ a # <<>> /\ b # <<>> =>
              \/ SuffixOrder(a, b) = -1 /\ Lower(a, b)
              \/ SuffixOrder(a, b) = 1 /\ Lower(b, a)
              \/ /\ SuffixOrder(a, b) = 0 /\ Len(a) = Len(b)
                 /\ \A m \in Place : Agree(a, b, m)
<1> DEFINE order == [i \in DOMAIN a \cap DOMAIN b |-> CompareIdentifier(a[i], b[i])]
           decided == {i \in DOMAIN order : order[i] # 0}
<1>1. /\ Len(a) \in Nat /\ Len(b) \in Nat
      /\ DOMAIN a = 1..Len(a) /\ DOMAIN b = 1..Len(b)
      /\ a = <<>> <=> Len(a) = 0
      /\ b = <<>> <=> Len(b) = 0
  OBVIOUS
<1>2. \A i \in Place : i <= Len(a) => a[i] \in Short
  BY <1>1 DEF Place
<1>3. \A i \in Place : i <= Len(b) => b[i] \in Short
  BY <1>1 DEF Place
<1>4. SuffixOrder(a, b) = IF a = <<>> \/ b = <<>> THEN Sign(Len(b) - Len(a))
                       ELSE IF decided = {} THEN Sign(Len(a) - Len(b))
                       ELSE order[Min(decided)]
  BY DEF SuffixOrder, ComparePrerelease
<1>a. ASSUME NEW i \in Place, i <= Len(a), i <= Len(b)
      PROVE  i \in DOMAIN order /\ order[i] = CompareIdentifier(a[i], b[i])
  <2>1. i \in 1..Len(a) /\ i \in 1..Len(b)
    BY <1>1, <1>a DEF Place
  <2> QED BY <1>1, <2>1
<1>5. CASE a = <<>> \/ b = <<>>
  <2>1. SuffixOrder(a, b) = Sign(Len(b) - Len(a))
    BY <1>4, <1>5
  <2>2. \/ Len(a) = 0 /\ Len(b) = 0 /\ SuffixOrder(a, b) = 0
        \/ Len(a) = 0 /\ Len(b) > 0 /\ SuffixOrder(a, b) = 1
        \/ Len(a) > 0 /\ Len(b) = 0 /\ SuffixOrder(a, b) = -1
    <3>1. Len(a) = 0 \/ Len(b) = 0
      BY <1>1, <1>5
    <3>2. Len(a) \in Nat /\ Len(b) \in Nat
      BY <1>1
    <3> QED BY <2>1, <3>1, <3>2 DEF Sign
  <2>3. (Len(a) > 0 => a # <<>>) /\ (Len(b) > 0 => b # <<>>)
    BY <1>1
  <2> QED BY <1>1, <1>5, <2>2, <2>3
<1>6. CASE a # <<>> /\ b # <<>> /\ decided = {}
  <2>1. SuffixOrder(a, b) = Sign(Len(a) - Len(b))
    BY <1>4, <1>6
  <2>2. \A i \in Place : i <= Len(a) /\ i <= Len(b) => CompareIdentifier(a[i], b[i]) = 0
    BY <1>a, <1>6
  <2>3. \A m \in Place : Agree(a, b, m)
    BY <2>2 DEF Agree
  <2>4. \A m \in Place : Agree(b, a, m)
    BY <1>2, <1>3, <2>2, IdentifiersAreOrdered DEF Agree, Mirrored
  <2>5. CASE Len(a) = Len(b)
    BY <1>1, <1>6, <2>1, <2>3, <2>5 DEF Sign
  <2>6. CASE Len(a) < Len(b)
    <3>1. SuffixOrder(a, b) = -1
      BY <1>1, <2>1, <2>6 DEF Sign
    <3>2. Len(a) + 1 \in Place /\ Len(a) + 1 <= Len(b) /\ ~(Len(a) + 1 <= Len(a))
      BY <1>1, <2>6 DEF Place
    <3>3. Lower(a, b)
      BY <2>3, <3>2 DEF Lower
    <3> QED BY <1>6, <3>1, <3>3
  <2>7. CASE Len(b) < Len(a)
    <3>1. SuffixOrder(a, b) = 1
      BY <1>1, <2>1, <2>7 DEF Sign
    <3>2. Len(b) + 1 \in Place /\ Len(b) + 1 <= Len(a) /\ ~(Len(b) + 1 <= Len(b))
      BY <1>1, <2>7 DEF Place
    <3>3. Lower(b, a)
      BY <2>4, <3>2 DEF Lower
    <3> QED BY <1>6, <3>1, <3>3
  <2>8. Len(a) = Len(b) \/ Len(a) < Len(b) \/ Len(b) < Len(a)
    <3>1. Len(a) \in Nat /\ Len(b) \in Nat
      BY <1>1
    <3> QED BY <3>1
  <2> QED BY <2>5, <2>6, <2>7, <2>8
<1>7. CASE a # <<>> /\ b # <<>> /\ decided # {}
  <2>1. PICK m \in decided : m = Min(decided) /\ \A i \in decided : m <= i
    <3>1. decided \subseteq DOMAIN a
      OBVIOUS
    <3>2. decided \subseteq Nat
      BY <1>1, <3>1
    <3> HIDE DEF decided
    <3> QED BY <1>7, <3>2, LeastIsMin
  <2>2. /\ SuffixOrder(a, b) = CompareIdentifier(a[m], b[m])
        /\ CompareIdentifier(a[m], b[m]) # 0
        /\ m \in Place /\ m <= Len(a) /\ m <= Len(b)
    <3>1. m \in 1..Len(a) /\ m \in 1..Len(b)
      BY <1>1, <2>1
    <3>2. m \in Place /\ m <= Len(a) /\ m <= Len(b)
      BY <1>1, <3>1 DEF Place
    <3>3. SuffixOrder(a, b) = order[m]
      BY <1>4, <1>7, <2>1
    <3>4. order[m] # 0
      BY <2>1
    <3> QED BY <1>a, <3>2, <3>3, <3>4
  <2>3. ASSUME NEW i \in Place, i < m, i <= Len(a), i <= Len(b)
        PROVE  CompareIdentifier(a[i], b[i]) = 0 /\ CompareIdentifier(b[i], a[i]) = 0
    <3>1. ~(m <= i)
      BY <2>2, <2>3 DEF Place
    <3>2. i \notin decided
      BY <2>1, <3>1
    <3>3. CompareIdentifier(a[i], b[i]) = 0
      BY <1>1, <2>3, <3>2 DEF Place
    <3>4. a[i] \in Short /\ b[i] \in Short
      BY <1>2, <1>3, <2>3
    <3> QED BY <3>3, <3>4, IdentifiersAreOrdered DEF Mirrored
  <2>4. Agree(a, b, m) /\ Agree(b, a, m)
    BY <2>3 DEF Agree
  <2>5. a[m] \in Short /\ b[m] \in Short
    BY <1>2, <1>3, <2>2
  <2>6. \/ CompareIdentifier(a[m], b[m]) = -1
        \/ CompareIdentifier(a[m], b[m]) = 1 /\ CompareIdentifier(b[m], a[m]) = -1
    BY <2>2, <2>5, IdentifiersAreOrdered DEF Mirrored
  <2>7. CASE CompareIdentifier(a[m], b[m]) = -1
    <3>1. Lower(a, b)
      BY <2>2, <2>4, <2>7 DEF Lower
    <3> QED BY <1>7, <2>2, <2>7, <3>1
  <2>8. CASE CompareIdentifier(a[m], b[m]) = 1 /\ CompareIdentifier(b[m], a[m]) = -1
    <3>1. Lower(b, a)
      BY <2>2, <2>4, <2>8 DEF Lower
    <3> QED BY <1>7, <2>2, <2>8, <3>1
  <2> QED BY <2>6, <2>7, <2>8
<1> QED BY <1>5, <1>6, <1>7

(* Suffixes are ordered by it.                                             *)
LEMMA SuffixesAreOrdered ==
  ASSUME NEW a \in Seq(Short), NEW b \in Seq(Short), NEW c \in Seq(Short)
  PROVE  /\ SuffixOrder(a, b) \in {-1, 0, 1}
         /\ Mirrored(SuffixOrder(a, b), SuffixOrder(b, a))
         /\ Chained(SuffixOrder(a, b), SuffixOrder(b, c), SuffixOrder(a, c))
<1> DEFINE alike(x, y) == Len(x) = Len(y) /\ \A m \in Place : Agree(x, y, m)
<1>1. \A x \in {a, b, c} : /\ Len(x) \in Nat
                           /\ \A i \in Place : i <= Len(x) => x[i] \in Short
  BY DEF Place
<1>2. ASSUME NEW x \in {a, b, c}, NEW y \in {a, b, c}
      PROVE  /\ x = <<>> /\ y = <<>> => SuffixOrder(x, y) = 0
             /\ x = <<>> /\ y # <<>> => SuffixOrder(x, y) = 1
             /\ x # <<>> /\ y = <<>> => SuffixOrder(x, y) = -1
             /\ x # <<>> /\ y # <<>> =>
                  \/ SuffixOrder(x, y) = -1 /\ Lower(x, y)
                  \/ SuffixOrder(x, y) = 1 /\ Lower(y, x)
                  \/ SuffixOrder(x, y) = 0 /\ alike(x, y)
  BY SuffixesCompared
(* Identifiers at one place. *)
<1>3. ASSUME NEW x \in {a, b, c}, NEW y \in {a, b, c}, NEW z \in {a, b, c}, NEW i \in Place,
             i <= Len(x), i <= Len(y), i <= Len(z)
      PROVE  Chained(CompareIdentifier(x[i], y[i]), CompareIdentifier(y[i], z[i]),
                     CompareIdentifier(x[i], z[i]))
  BY <1>1, <1>3, IdentifiersAreOrdered
<1>4. ASSUME NEW x \in {a, b, c}, NEW y \in {a, b, c}, NEW i \in Place, i <= Len(x), i <= Len(y)
      PROVE  /\ CompareIdentifier(x[i], y[i]) \in {-1, 0, 1}
             /\ Mirrored(CompareIdentifier(x[i], y[i]), CompareIdentifier(y[i], x[i]))
  BY <1>1, <1>4, IdentifiersAreOrdered
(* Equality of two identifiers is passed on. *)
<1>5. ASSUME NEW x \in {a, b, c}, NEW y \in {a, b, c}, NEW z \in {a, b, c}, NEW i \in Place,
             i <= Len(x), i <= Len(y), i <= Len(z)
      PROVE  /\ CompareIdentifier(x[i], y[i]) = 0 =>
                  CompareIdentifier(x[i], z[i]) = CompareIdentifier(y[i], z[i])
             /\ CompareIdentifier(y[i], z[i]) = 0 =>
                  CompareIdentifier(x[i], z[i]) = CompareIdentifier(x[i], y[i])
             /\ CompareIdentifier(x[i], y[i]) = -1 /\ CompareIdentifier(y[i], z[i]) = -1 =>
                  CompareIdentifier(x[i], z[i]) = -1
  <2>0. x[i] \in Short /\ y[i] \in Short /\ z[i] \in Short
    BY <1>1, <1>5
  <2>1. \A u, v \in {x[i], y[i], z[i]} :
          CompareIdentifier(u, v) \in {-1, 0, 1} /\ Mirrored(CompareIdentifier(u, v), CompareIdentifier(v, u))
    BY <2>0, IdentifiersAreOrdered
  <2>2. \A u, v, w \in {x[i], y[i], z[i]} :
          Chained(CompareIdentifier(u, v), CompareIdentifier(v, w), CompareIdentifier(u, w))
    BY <2>0, IdentifiersAreOrdered
  <2> QED BY <2>1, <2>2 DEF Mirrored, Chained
<1>6. ASSUME NEW x \in {a, b, c}, NEW y \in {a, b, c}, NEW z \in {a, b, c}, Lower(x, y), Lower(y, z)
      PROVE  Lower(x, z)
  <2>1. PICK m \in Place : /\ m <= Len(y) /\ Agree(x, y, m)
                           /\ m <= Len(x) => CompareIdentifier(x[m], y[m]) = -1
    BY <1>6 DEF Lower
  <2>2. PICK n \in Place : /\ n <= Len(z) /\ Agree(y, z, n)
                           /\ n <= Len(y) => CompareIdentifier(y[n], z[n]) = -1
    BY <1>6 DEF Lower
  <2>3. Len(x) \in Nat /\ Len(y) \in Nat /\ Len(z) \in Nat /\ m \in Nat /\ n \in Nat
    BY <1>1 DEF Place
  <2>4. CASE m <= n
    <3>1. m <= Len(z)
      BY <2>2, <2>3, <2>4
    <3>2. ASSUME NEW i \in Place, i < m, i <= Len(x), i <= Len(z)
          PROVE  CompareIdentifier(x[i], z[i]) = 0
      <4>1. i <= Len(y) /\ i < n
        BY <2>1, <2>3, <2>4, <3>2 DEF Place
      <4>2. CompareIdentifier(x[i], y[i]) = 0 /\ CompareIdentifier(y[i], z[i]) = 0
        BY <2>1, <2>2, <3>2, <4>1 DEF Agree
      <4> QED BY <1>5, <3>2, <4>1, <4>2
    <3>3. ASSUME m <= Len(x) PROVE CompareIdentifier(x[m], z[m]) = -1
      <4>1. CompareIdentifier(x[m], y[m]) = -1
        BY <2>1, <3>3
      <4>2. CASE m < n
        <5>1. CompareIdentifier(y[m], z[m]) = 0
          BY <2>1, <2>2, <3>1, <4>2 DEF Agree
        <5> QED BY <1>5, <2>1, <3>1, <3>3, <4>1, <5>1
      <4>3. CASE m = n
        <5>1. CompareIdentifier(y[m], z[m]) = -1
          BY <2>1, <2>2, <4>3
        <5> QED BY <1>5, <2>1, <3>1, <3>3, <4>1, <5>1
      <4>4. m < n \/ m = n
        BY <2>3, <2>4
      <4> QED BY <4>2, <4>3, <4>4
    <3> QED BY <3>1, <3>2, <3>3 DEF Lower, Agree
  <2>5. CASE n < m
    <3>1. n <= Len(y)
      BY <2>1, <2>3, <2>5
    <3>2. ASSUME NEW i \in Place, i < n, i <= Len(x), i <= Len(z)
          PROVE  CompareIdentifier(x[i], z[i]) = 0
      <4>1. i <= Len(y) /\ i < m
        BY <2>3, <2>5, <3>1, <3>2 DEF Place
      <4>2. CompareIdentifier(x[i], y[i]) = 0 /\ CompareIdentifier(y[i], z[i]) = 0
        BY <2>1, <2>2, <3>2, <4>1 DEF Agree
      <4> QED BY <1>5, <3>2, <4>1, <4>2
    <3>3. ASSUME n <= Len(x) PROVE CompareIdentifier(x[n], z[n]) = -1
      <4>1. CompareIdentifier(x[n], y[n]) = 0
        BY <2>1, <2>5, <3>1, <3>3 DEF Agree
      <4>2. CompareIdentifier(y[n], z[n]) = -1
        BY <2>2, <3>1
      <4> QED BY <1>5, <2>2, <3>1, <3>3, <4>1, <4>2
    <3> QED BY <2>2, <3>2, <3>3 DEF Lower, Agree
  <2> QED BY <2>3, <2>4, <2>5
<1>7. ASSUME NEW x \in {a, b, c}, NEW y \in {a, b, c}, NEW z \in {a, b, c}, alike(x, y)
      PROVE  /\ Lower(y, z) => Lower(x, z)
             /\ Lower(z, x) => Lower(z, y)
             /\ alike(y, z) => alike(x, z)
  <2>1. \A i \in Place : i <= Len(x) => i <= Len(y) /\ CompareIdentifier(x[i], y[i]) = 0
    <3> SUFFICES ASSUME NEW i \in Place, i <= Len(x)
                 PROVE  i <= Len(y) /\ CompareIdentifier(x[i], y[i]) = 0
      OBVIOUS
    <3>1. i + 1 \in Place /\ i < i + 1 /\ i <= Len(y)
      BY <1>7 DEF Place
    <3> QED BY <1>7, <3>1 DEF Agree
  <2>2. Len(x) = Len(y)
    BY <1>7
  <2>3. ASSUME NEW m \in Place, Agree(y, z, m) PROVE Agree(x, z, m)
    BY <1>5, <2>1, <2>2, <2>3 DEF Agree
  <2>4. ASSUME NEW m \in Place, Agree(z, x, m) PROVE Agree(z, y, m)
    <3> SUFFICES ASSUME NEW i \in Place, i < m, i <= Len(z), i <= Len(y)
                 PROVE  CompareIdentifier(z[i], y[i]) = 0
      BY DEF Agree
    <3>1. CompareIdentifier(z[i], x[i]) = 0
      BY <2>2, <2>4 DEF Agree
    <3> QED BY <1>5, <2>1, <2>2, <3>1
  <2>5. ASSUME Lower(y, z) PROVE Lower(x, z)
    <3>1. PICK m \in Place : /\ m <= Len(z) /\ Agree(y, z, m)
                             /\ m <= Len(y) => CompareIdentifier(y[m], z[m]) = -1
      BY <2>5 DEF Lower
    <3>2. m <= Len(x) => CompareIdentifier(x[m], z[m]) = -1
      BY <1>5, <2>1, <2>2, <3>1
    <3> QED BY <2>3, <3>1, <3>2 DEF Lower
  <2>6. ASSUME Lower(z, x) PROVE Lower(z, y)
    <3>1. PICK m \in Place : /\ m <= Len(x) /\ Agree(z, x, m)
                             /\ m <= Len(z) => CompareIdentifier(z[m], x[m]) = -1
      BY <2>6 DEF Lower
    <3>2. m <= Len(z) => CompareIdentifier(z[m], y[m]) = -1
      BY <1>5, <2>1, <2>2, <3>1
    <3> QED BY <2>2, <2>4, <3>1, <3>2 DEF Lower
  <2>7. ASSUME alike(y, z) PROVE alike(x, z)
    BY <2>2, <2>3, <2>7
  <2> QED BY <2>5, <2>6, <2>7
<1>8. ASSUME NEW x \in {a, b, c}, NEW y \in {a, b, c}, alike(x, y)
      PROVE  alike(y, x)
  BY <1>4, <1>8 DEF Agree, Mirrored
<1>9. ASSUME NEW x \in {a, b, c} PROVE ~Lower(x, x)
  <2> SUFFICES ASSUME NEW m \in Place, m <= Len(x), CompareIdentifier(x[m], x[m]) = -1
               PROVE  FALSE
    BY DEF Lower
  <2> QED BY <1>4 DEF Mirrored
<1>10. ASSUME NEW x \in {a, b, c}, NEW y \in {a, b, c}, Lower(x, y)
      PROVE  ~Lower(y, x) /\ ~alike(x, y) /\ ~alike(y, x)
  BY <1>6, <1>7, <1>8, <1>9, <1>10
<1> HIDE DEF alike
<1>11. SuffixOrder(a, b) \in {-1, 0, 1}
  BY <1>2
<1>12. Mirrored(SuffixOrder(a, b), SuffixOrder(b, a))
  BY <1>2, <1>8, <1>10 DEF Mirrored
<1>13. Chained(SuffixOrder(a, b), SuffixOrder(b, c), SuffixOrder(a, c))
  <2> SUFFICES ASSUME SuffixOrder(a, b) # 1, SuffixOrder(b, c) # 1
               PROVE  /\ SuffixOrder(a, c) # 1
                      /\ SuffixOrder(a, b) = -1 \/ SuffixOrder(b, c) = -1 => SuffixOrder(a, c) = -1
    <3>1. \A x, y \in {a, b, c} : SuffixOrder(x, y) \in {-1, 0, 1}
      BY <1>2
    <3> QED BY <3>1 DEF Chained
  <2>1. CASE c = <<>>
    BY <1>2, <2>1
  <2>2. CASE c # <<>>
    <3>1. b # <<>>
      BY <1>2, <2>2
    <3>2. a # <<>>
      BY <1>2, <3>1
    <3>3. \/ SuffixOrder(a, b) = -1 /\ Lower(a, b)
          \/ SuffixOrder(a, b) = 0 /\ alike(a, b)
      BY <1>2, <3>1, <3>2
    <3>4. \/ SuffixOrder(b, c) = -1 /\ Lower(b, c)
          \/ SuffixOrder(b, c) = 0 /\ alike(b, c)
      BY <1>2, <2>2, <3>1
    <3>5. \/ Lower(a, c)
          \/ alike(a, c) /\ SuffixOrder(a, b) = 0 /\ SuffixOrder(b, c) = 0
      BY <1>6, <1>7, <1>8, <3>3, <3>4
    <3>6. Lower(a, c) => SuffixOrder(a, c) = -1
      BY <1>2, <1>10, <2>2, <3>2
    <3>7. alike(a, c) => SuffixOrder(a, c) = 0
      BY <1>2, <1>8, <1>10, <2>2, <3>2
    <3> QED BY <3>5, <3>6, <3>7
  <2> QED BY <2>1, <2>2
<1> QED BY <1>11, <1>12, <1>13

(* A sequence is one over whatever set holds its elements. *)
LEMMA NarrowedSeq ==
  ASSUME NEW S, NEW T, NEW s \in Seq(S), \A i \in DOMAIN s : s[i] \in T
  PROVE  s \in Seq(T)
OBVIOUS

(* The versions of one line are ordered, by either comparison. *)
LEMMA VersionsAreOrdered ==
  ASSUME NEW a, NEW b, NEW c,
         \A v \in {a, b, c} : Readable(v) /\ Fits(v) /\ Parses(v)
  PROVE  /\ Newer(a, b) \in {-1, 0, 1}
         /\ Mirrored(Newer(a, b), Newer(b, a))
         /\ Chained(Newer(a, b), Newer(b, c), Newer(a, c))
         /\ Newer(a, b) = Compare(a, b)
<1>1. \A v \in {a, b, c} : v.core \in Seq(Nat) /\ v.pre \in Seq(Short)
  <2> SUFFICES ASSUME NEW v \in {a, b, c}
               PROVE  v.core \in Seq(Nat) /\ v.pre \in Seq(Short)
    OBVIOUS
  <2> DEFINE Read == [number : Nat \cup {Word, TooBig}, text : Int]
  <2>1. v.core \in Seq(Nat) /\ v.pre \in Seq(Read)
    BY DEF Readable, Identifier
  <2>2. \A id \in Read : id.number # TooBig => id \in Short
    BY DEF Short
  <2>3. \A i \in DOMAIN v.pre : v.pre[i].number # TooBig
    BY DEF Fits
  <2> HIDE DEF Read
  <2>4. \A i \in DOMAIN v.pre : v.pre[i] \in Read
    BY <2>1
  <2> QED BY <2>1, <2>2, <2>3, <2>4, NarrowedSeq
<1>2. \A u, v \in {a, b, c} :
        Newer(u, v) = IF CompareNumbers(u.core, v.core) # 0 THEN CompareNumbers(u.core, v.core)
                      ELSE SuffixOrder(u.pre, v.pre)
  BY DEF Newer, SuffixOrder
<1>3. \A u, v, w \in {a, b, c} :
        /\ CompareNumbers(u.core, v.core) \in {-1, 0, 1}
        /\ Mirrored(CompareNumbers(u.core, v.core), CompareNumbers(v.core, u.core))
        /\ Chained(CompareNumbers(u.core, v.core), CompareNumbers(v.core, w.core),
                   CompareNumbers(u.core, w.core))
  BY <1>1, NumbersAreOrdered
<1>4. \A u, v, w \in {a, b, c} :
        /\ SuffixOrder(u.pre, v.pre) \in {-1, 0, 1}
        /\ Mirrored(SuffixOrder(u.pre, v.pre), SuffixOrder(v.pre, u.pre))
        /\ Chained(SuffixOrder(u.pre, v.pre), SuffixOrder(v.pre, w.pre), SuffixOrder(u.pre, w.pre))
  BY <1>1, SuffixesAreOrdered
<1>5. Newer(a, b) \in {-1, 0, 1} /\ Mirrored(Newer(a, b), Newer(b, a))
  BY <1>2, <1>3, <1>4 DEF Mirrored
<1>6. Chained(Newer(a, b), Newer(b, c), Newer(a, c))
  <2> SUFFICES ASSUME Newer(a, b) # 1, Newer(b, c) # 1
               PROVE  /\ Newer(a, c) # 1
                      /\ Newer(a, b) = -1 \/ Newer(b, c) = -1 => Newer(a, c) = -1
    <3>1. \A x, y \in {a, b, c} : Newer(x, y) \in {-1, 0, 1}
      BY <1>2, <1>3, <1>4
    <3> QED BY <3>1 DEF Chained
  <2>1. CompareNumbers(a.core, b.core) # 1 /\ CompareNumbers(b.core, c.core) # 1
    BY <1>2
  <2>2. /\ CompareNumbers(a.core, c.core) # 1
        /\ CompareNumbers(a.core, b.core) = -1 \/ CompareNumbers(b.core, c.core) = -1 =>
             CompareNumbers(a.core, c.core) = -1
    BY <1>3, <2>1 DEF Chained
  <2>3. CASE CompareNumbers(a.core, c.core) = -1
    BY <1>2, <2>3
  <2>4. CASE CompareNumbers(a.core, c.core) = 0
    <3>1. CompareNumbers(a.core, b.core) = 0 /\ CompareNumbers(b.core, c.core) = 0
      BY <1>3, <2>1, <2>2, <2>4
    <3>2. /\ Newer(a, b) = SuffixOrder(a.pre, b.pre) /\ Newer(b, c) = SuffixOrder(b.pre, c.pre)
          /\ Newer(a, c) = SuffixOrder(a.pre, c.pre)
      BY <1>2, <2>4, <3>1
    <3>3. Chained(SuffixOrder(a.pre, b.pre), SuffixOrder(b.pre, c.pre), SuffixOrder(a.pre, c.pre))
      BY <1>4
    <3>4. /\ SuffixOrder(a.pre, b.pre) \in {-1, 0, 1} /\ SuffixOrder(b.pre, c.pre) \in {-1, 0, 1}
          /\ SuffixOrder(a.pre, c.pre) \in {-1, 0, 1}
      BY <1>4
    <3> QED BY <3>2, <3>3, <3>4 DEF Chained
  <2> QED BY <1>3, <2>2, <2>3, <2>4
<1>7. Newer(a, b) = Compare(a, b)
  <2> DEFINE places == DOMAIN a.pre \cap DOMAIN b.pre
  <2>1. \A i \in places : a.pre[i] \in Short /\ b.pre[i] \in Short
    BY <1>1
  <2>2. [i \in places |-> CompareIdentifier(a.pre[i], b.pre[i])]
        = [i \in places |-> CompareRangeIdentifier(a.pre[i], b.pre[i])]
    BY <2>1, IdentifiersAreOrdered
  <2> QED BY <2>2 DEF Newer, Compare
<1> QED BY <1>5, <1>6, <1>7

(* What the fold of Newest has found by a place. *)
Better(q, line, i, held) == i \in OnLine(q, line) /\ (held # 0 => Supersedes(q[i], q[held]))

Finds(best, q, line) ==
  /\ Newest(q, line) = best[Len(q)]
  /\ best[0] = 0
  /\ \A i \in 1..Len(q) :
       best[i] = IF Better(q, line, i, best[i - 1]) THEN i ELSE best[i - 1]

LEMMA NewestIsFound ==
  ASSUME NEW q, Len(q) \in Nat, NEW line
  PROVE  \E best : Finds(best, q, line)
<1> DEFINE N == Len(q)
           Step(i, held) == IF i = 0 THEN 0 ELSE IF Better(q, line, i, held) THEN i ELSE held
           Found(g, n) == g = [i \in 0..n |-> Step(i, g[i - 1])]
           unfound == {n \in 0..N : \A g : ~Found(g, n)}
<1>0. N \in Nat
  OBVIOUS
<1>1. \E g : Found(g, N)
  <2> SUFFICES ASSUME \A g : ~Found(g, N) PROVE FALSE
    OBVIOUS
  <2>1. unfound # {} /\ unfound \subseteq Nat
    BY <1>0
  <2> HIDE DEF Step
  <2>2. PICK n \in unfound : \A m \in unfound : n <= m
    <3> HIDE DEF unfound
    <3> QED BY <2>1, LeastNatural
  <2>3. n \in 0..N /\ \A g : ~Found(g, n)
    OBVIOUS
  <2>4. CASE n = 0
    <3> DEFINE g == [i \in 0..0 |-> 0]
    <3>1. Found(g, 0)
      BY DEF Step
    <3> QED BY <2>3, <2>4, <3>1
  <2>5. CASE n # 0
    <3>1. n - 1 \in 0..N /\ ~(n <= n - 1) /\ n \in Nat
      BY <1>0, <2>3, <2>5
    <3>2. n - 1 \notin unfound
      BY <2>2, <3>1
    <3>3. PICK g : Found(g, n - 1)
      BY <3>1, <3>2
    <3> DEFINE h == [i \in 0..n |-> IF i = n THEN Step(n, g[n - 1]) ELSE g[i]]
    <3>4. \A i \in 0..(n - 1) : h[i] = g[i] /\ g[i] = Step(i, g[i - 1])
      BY <3>1, <3>3
    <3>5. \A i \in 0..n : h[i] = Step(i, h[i - 1])
      <4> SUFFICES ASSUME NEW i \in 0..n PROVE h[i] = Step(i, h[i - 1])
        OBVIOUS
      <4>1. CASE i = n
        <5>1. h[n] = Step(n, g[n - 1]) /\ h[n - 1] = g[n - 1]
          BY <3>1, <3>4, <2>5
        <5> QED BY <4>1, <5>1
      <4>2. CASE i # n /\ i # 0
        <5>1. i \in 0..(n - 1) /\ i - 1 \in 0..(n - 1)
          BY <3>1, <4>2
        <5> QED BY <3>4, <5>1
      <4>3. CASE i # n /\ i = 0
        <5>1. 0 \in 0..(n - 1)
          BY <3>1, <4>3, <2>5
        <5> QED BY <3>4, <4>3, <5>1 DEF Step
      <4> QED BY <4>1, <4>2, <4>3
    <3>6. Found(h, n)
      BY <3>5
    <3> QED BY <2>3, <3>6
  <2> QED BY <2>4, <2>5
<1>2. DEFINE found == CHOOSE g : Found(g, N)
<1>3. Found(found, N)
  BY <1>1
<1>4. Newest(q, line) = found[N]
  BY DEF Newest, Better
<1> HIDE DEF found
<1>5. \A i \in 0..N : found[i] = Step(i, found[i - 1])
  BY <1>3
<1>6. found[0] = 0
  BY <1>0, <1>5
<1>7. \A i \in 1..N : found[i] = IF Better(q, line, i, found[i - 1]) THEN i ELSE found[i - 1]
  BY <1>0, <1>5
<1> QED BY <1>4, <1>6, <1>7 DEF Finds

(* Whatever is on a line, its newest is, and none of the line is newer     *)
(* where the line is ordered.                                              *)
LEMMA NewestIsNewest ==
  ASSUME NEW q, Len(q) \in Nat, DOMAIN q = 1..Len(q), NEW line, OnLine(q, line) # {}
  PROVE  /\ Newest(q, line) \in OnLine(q, line)
         /\ (\A k \in OnLine(q, line) :
               Readable(q[k].version) /\ Fits(q[k].version) /\ Parses(q[k].version)) =>
              \A k \in OnLine(q, line) : Newer(q[k].version, q[Newest(q, line)].version) \in {-1, 0}
<1>1. PICK best : Finds(best, q, line)
  BY NewestIsFound
<1> DEFINE N == Len(q)
           L == OnLine(q, line)
           ordered == \A k \in L :
             Readable(q[k].version) /\ Fits(q[k].version) /\ Parses(q[k].version)
           order(i, j) == Newer(q[i].version, q[j].version)
<1>2. L \subseteq 1..N /\ N \in Nat
  BY DEF OnLine
<1>3. ordered => \A i, j, k \in L : /\ order(i, j) \in {-1, 0, 1}
                                    /\ Mirrored(order(i, j), order(j, i))
                                    /\ Chained(order(i, j), order(j, k), order(i, k))
  BY VersionsAreOrdered
<1>4. \A i, j \in L : Supersedes(q[i], q[j]) <=> order(i, j) > 0
  BY DEF Supersedes
<1>a. /\ Newest(q, line) = best[N] /\ best[0] = 0
      /\ \A i \in 1..N :
           best[i] = IF Better(q, line, i, best[i - 1]) THEN i ELSE best[i - 1]
  BY <1>1 DEF Finds
<1> DEFINE fine(i) ==
      /\ best[i] = 0 => \A k \in L : ~(k <= i)
      /\ best[i] # 0 => /\ best[i] \in L
                        /\ ordered => \A k \in L : k <= i => order(k, best[i]) \in {-1, 0}
           wrong == {i \in 0..N : ~fine(i)}
<1> HIDE DEF L, ordered, order
<1>5. \A i \in 1..N : Better(q, line, i, best[i - 1]) <=>
                        i \in L /\ (best[i - 1] # 0 => Supersedes(q[i], q[best[i - 1]]))
  BY DEF Better, L
<1>6. \A i \in 0..N : fine(i)
  <2> SUFFICES ASSUME wrong # {} PROVE FALSE
    OBVIOUS
  <2>1. PICK n \in wrong : \A m \in wrong : n <= m
    <3>1. wrong \subseteq Nat
      BY <1>2
    <3> HIDE DEF wrong
    <3> QED BY <3>1, LeastNatural
  <2>2. n \in 0..N /\ ~fine(n)
    OBVIOUS
  <2>3. n # 0
    <3>1. best[0] = 0 /\ \A k \in L : ~(k <= 0)
      BY <1>a, <1>2
    <3> QED BY <2>2, <3>1
  <2>4. n \in 1..N /\ n - 1 \in 0..N /\ ~(n <= n - 1) /\ n \in Nat
    BY <1>2, <2>2, <2>3
  <2>5. fine(n - 1)
    BY <2>1, <2>4
  <2>6. \A k \in L : k <= n => k <= n - 1 \/ k = n
    BY <1>2, <2>4
  <2>7. CASE ~Better(q, line, n, best[n - 1])
    <3>1. best[n] = best[n - 1]
      BY <1>a, <2>4, <2>7
    <3>2. n \in L => best[n - 1] # 0 /\ ~Supersedes(q[n], q[best[n - 1]])
      BY <1>5, <2>4, <2>7
    <3>3. ASSUME n \in L, ordered, best[n] # 0 PROVE order(n, best[n]) \in {-1, 0}
      <4>1. best[n] \in L /\ ~(order(n, best[n]) > 0)
        BY <1>4, <2>5, <3>1, <3>2, <3>3
      <4>2. order(n, best[n]) \in {-1, 0, 1}
        BY <1>3, <3>3, <4>1
      <4> QED BY <4>1, <4>2
    <3>4. best[n] = 0 => \A k \in L : ~(k <= n)
      BY <2>5, <2>6, <3>1, <3>2
    <3>5. best[n] # 0 => best[n] \in L
      BY <2>5, <3>1
    <3>6. ASSUME best[n] # 0, ordered, NEW k \in L, k <= n PROVE order(k, best[n]) \in {-1, 0}
      BY <2>5, <2>6, <3>1, <3>3, <3>6
    <3> QED BY <2>2, <3>4, <3>5, <3>6
  <2>8. CASE Better(q, line, n, best[n - 1])
    <3>1. best[n] = n /\ n \in L /\ n # 0
      BY <1>a, <1>5, <2>3, <2>4, <2>8
    <3>2. ASSUME ordered, NEW k \in L, k <= n PROVE order(k, n) \in {-1, 0}
      <4>1. CASE k = n
        <5>1. Mirrored(order(n, n), order(n, n)) /\ order(n, n) \in {-1, 0, 1}
          BY <1>3, <3>1, <3>2
        <5> QED BY <4>1, <5>1 DEF Mirrored
      <4>2. CASE k # n
        <5>1. k <= n - 1
          BY <2>6, <3>2, <4>2
        <5>2. best[n - 1] # 0 /\ best[n - 1] \in L /\ order(k, best[n - 1]) \in {-1, 0}
          BY <2>5, <3>2, <5>1
        <5>3. order(n, best[n - 1]) > 0
          BY <1>4, <1>5, <2>4, <2>8, <3>1, <5>2
        <5>4. /\ order(n, best[n - 1]) \in {-1, 0, 1}
              /\ Mirrored(order(n, best[n - 1]), order(best[n - 1], n))
              /\ Chained(order(k, best[n - 1]), order(best[n - 1], n), order(k, n))
              /\ order(k, n) \in {-1, 0, 1}
          BY <1>3, <3>1, <3>2, <5>2
        <5>5. order(n, best[n - 1]) = 1
          BY <5>3, <5>4
        <5>6. order(best[n - 1], n) = -1
          BY <5>4, <5>5 DEF Mirrored
        <5> QED BY <5>2, <5>4, <5>6 DEF Chained
      <4> QED BY <4>1, <4>2
    <3> QED BY <2>2, <3>1, <3>2
  <2> QED BY <2>7, <2>8
<1>7. fine(N) /\ best[N] # 0
  <2>1. fine(N) /\ \A k \in L : k <= N
    BY <1>2, <1>6
  <2>2. L # {}
    BY DEF L
  <2> QED BY <2>1, <2>2
<1>8. /\ best[N] \in L
      /\ ordered => \A k \in L : order(k, best[N]) \in {-1, 0}
  BY <1>2, <1>7
<1> QED BY <1>a, <1>8 DEF L, ordered, order

(* Why a superseded pull request may go: a rival stays that no other       *)
(* displaces, the newer one where the versions are ordered.                *)
LEMMA SupersededHasARival ==
  ASSUME NEW q, Len(q) \in Nat, DOMAIN q = 1..Len(q),
         \A k \in DOMAIN q : Readable(q[k].version),
         NEW i \in Superseded(q)
  PROVE  \E j \in DOMAIN q \ Superseded(q) :
           /\ Rivals(q[i], q[j])
           /\ (\A k \in DOMAIN q : Fits(q[k].version)) => ReplacedBy(q[i], q[j])
<1> DEFINE line == Line(q[i])
           j == Newest(q, line)
<1>1. /\ i \in DOMAIN q /\ ~q[i].aside /\ i # j
      /\ ~Unorderable(q, line) /\ Nests(q[i], q[j])
  BY DEF Superseded
<1>2. i \in OnLine(q, line)
  BY <1>1 DEF OnLine
<1>3. /\ j \in OnLine(q, line)
      /\ (\A k \in OnLine(q, line) :
            Readable(q[k].version) /\ Fits(q[k].version) /\ Parses(q[k].version)) =>
           \A k \in OnLine(q, line) : Newer(q[k].version, q[j].version) \in {-1, 0}
  BY <1>2, NewestIsNewest
<1>4. j \in DOMAIN q /\ ~q[j].aside /\ Line(q[j]) = line
  BY <1>3 DEF OnLine
<1>5. j \notin Superseded(q)
  BY <1>4 DEF Superseded
<1>6. Comparable(q[i], q[j])
  BY <1>1, <1>2 DEF Unorderable
<1>7. Parses(q[i].version) /\ Parses(q[j].version)
  BY <1>6 DEF Comparable, Newer
<1>8. q[i].name = q[j].name /\ MajorOf(q[i].version) = MajorOf(q[j].version)
  BY <1>4 DEF Line
<1>9. Rivals(q[i], q[j])
  BY <1>1, <1>4, <1>7, <1>8 DEF Rivals, Nests, MajorOf
<1>10. ASSUME \A k \in DOMAIN q : Fits(q[k].version)
       PROVE  Compare(q[j].version, q[i].version) > 0
  <2>1. ASSUME NEW k \in OnLine(q, line)
        PROVE  k \in DOMAIN q /\ Parses(q[k].version)
    <3>1. k \in DOMAIN q /\ MajorOf(q[k].version) = MajorOf(q[i].version)
      BY <2>1 DEF OnLine, Line
    <3>2. q[i].version.core \in Seq(Nat) /\ q[i].version.core # <<>>
      BY <1>1, <1>7 DEF Readable, Parses
    <3>3. q[i].version.core[1] \in Nat
      BY <3>2
    <3>4. MajorOf(q[i].version) # -1
      BY <1>7, <3>3 DEF MajorOf
    <3> QED BY <3>1, <3>4 DEF MajorOf
  <2>2. Newer(q[i].version, q[j].version) \in {-1, 0}
    BY <1>2, <1>3, <1>10, <2>1
  <2>3. /\ Mirrored(Newer(q[i].version, q[j].version), Newer(q[j].version, q[i].version))
        /\ Newer(q[j].version, q[i].version) = Compare(q[j].version, q[i].version)
    BY <1>1, <1>4, <1>7, <1>10, VersionsAreOrdered
  <2>4. Newer(q[i].version, q[j].version) # 0
    BY <1>6, <2>3 DEF Comparable, Mirrored
  <2>5. Newer(q[j].version, q[i].version) = 1
    BY <2>2, <2>3, <2>4 DEF Mirrored
  <2> QED BY <2>3, <2>5
<1> QED BY <1>4, <1>5, <1>9, <1>10 DEF ReplacedBy

-----------------------------------------------------------------------------
(* Events.                                                                 *)

(* An event of a known kind, about a listed pull request or about the run. *)
LEMMA EventIsTellable ==
  ASSUME NEW n \in Numbers \cup {0},
         NEW kind \in {"run_started", "skipped", "closed", "assessed", "merged",
                       "reverted", "halted", "run_finished"}
  PROVE  Event(kind, n) \in Tellable /\ <<Event(kind, n)>> \in Seq(Tellable)
BY DEF Event, Tellable

(* What two stretches of events tell, they tell together.                  *)
LEMMA TellingBoth ==
  ASSUME NEW S, NEW s \in Seq(S), NEW t \in Seq(S), NEW kind
  PROVE  Telling(s \o t, kind) = Telling(s, kind) \cup Telling(t, kind)
<1>1. /\ Len(s) \in Nat /\ Len(t) \in Nat
      /\ DOMAIN s = 1..Len(s) /\ DOMAIN t = 1..Len(t)
      /\ DOMAIN (s \o t) = 1..(Len(s) + Len(t))
      /\ \A k \in 1..Len(s) : (s \o t)[k] = s[k]
      /\ \A k \in 1..Len(t) : (s \o t)[Len(s) + k] = t[k]
  OBVIOUS
<1>2. ASSUME NEW n \in Telling(s \o t, kind)
      PROVE  n \in Telling(s, kind) \cup Telling(t, kind)
  <2>1. PICK k \in DOMAIN (s \o t) : (s \o t)[k].kind = kind /\ (s \o t)[k].number = n
    BY <1>2 DEF Telling
  <2>2. CASE k \in 1..Len(s)
    BY <1>1, <2>1, <2>2 DEF Telling
  <2>3. CASE k \notin 1..Len(s)
    <3>1. k - Len(s) \in 1..Len(t) /\ k = Len(s) + (k - Len(s))
      BY <1>1, <2>1, <2>3
    <3>2. (s \o t)[k] = t[k - Len(s)]
      BY <1>1, <3>1
    <3> QED BY <1>1, <2>1, <3>1, <3>2 DEF Telling
  <2> QED BY <2>2, <2>3
<1>3. ASSUME NEW n \in Telling(s, kind)
      PROVE  n \in Telling(s \o t, kind)
  <2>1. PICK k \in DOMAIN s : s[k].kind = kind /\ s[k].number = n
    BY <1>3 DEF Telling
  <2>2. k \in DOMAIN (s \o t) /\ (s \o t)[k] = s[k]
    BY <1>1
  <2> QED BY <2>1, <2>2 DEF Telling
<1>4. ASSUME NEW n \in Telling(t, kind)
      PROVE  n \in Telling(s \o t, kind)
  <2>1. PICK k \in DOMAIN t : t[k].kind = kind /\ t[k].number = n
    BY <1>4 DEF Telling
  <2>2. Len(s) + k \in DOMAIN (s \o t) /\ (s \o t)[Len(s) + k] = t[k]
    BY <1>1
  <2> QED BY <2>1, <2>2 DEF Telling
<1> QED BY <1>2, <1>3, <1>4

(* One event tells one thing.                                              *)
LEMMA TellingOne ==
  ASSUME NEW n, NEW of, NEW kind
  PROVE  Telling(<<Event(of, n)>>, kind) = IF of = kind THEN {n} ELSE {}
BY DEF Telling, Event

(* A prefix, place by place.                                               *)
LEMMA PrefixByPlace ==
  ASSUME NEW S, NEW s \in Seq(S), NEW t \in Seq(S)
  PROVE  IsPrefix(s, t) <=> Len(s) <= Len(t) /\ \A k \in 1..Len(s) : s[k] = t[k]
<1>1. Len(s) \in Nat /\ Len(t) \in Nat
  OBVIOUS
<1>2. SubSeq(s, 1, Len(s)) = s
  OBVIOUS
<1>3. CASE Len(s) <= Len(t)
  <2>1. /\ SubSeq(t, 1, Len(s)) \in Seq(S) /\ Len(SubSeq(t, 1, Len(s))) = Len(s)
        /\ \A k \in 1..Len(s) : SubSeq(t, 1, Len(s))[k] = t[k]
    BY <1>1, <1>3
  <2>2. ASSUME \A k \in 1..Len(s) : s[k] = t[k]
        PROVE  s = SubSeq(t, 1, Len(s))
    BY <2>1, <2>2
  <2>3. ASSUME s = SubSeq(t, 1, Len(s))
        PROVE  \A k \in 1..Len(s) : s[k] = t[k]
    BY <2>1, <2>3
  <2> QED BY <1>2, <1>3, <2>2, <2>3 DEF IsPrefix
<1> QED BY <1>3 DEF IsPrefix

(* What is a prefix remains one when more is told.                         *)
LEMMA PrefixRemains ==
  ASSUME NEW S, NEW s \in Seq(S), NEW t \in Seq(S), NEW e \in Seq(S), IsPrefix(s, t)
  PROVE  IsPrefix(s, t \o e)
<1>1. Len(s) <= Len(t) /\ \A k \in 1..Len(s) : s[k] = t[k]
  BY PrefixByPlace
<1>2. /\ t \o e \in Seq(S) /\ Len(t \o e) = Len(t) + Len(e)
      /\ \A k \in 1..Len(t) : (t \o e)[k] = t[k]
  OBVIOUS
<1>3. Len(s) \in Nat /\ Len(t) \in Nat /\ Len(e) \in Nat
  OBVIOUS
<1>4. Len(s) <= Len(t \o e)
  BY <1>1, <1>2, <1>3
<1>5. \A k \in 1..Len(s) : s[k] = (t \o e)[k]
  BY <1>1, <1>2, <1>3
<1> QED BY <1>2, <1>4, <1>5, PrefixByPlace

(* The first part of what is added makes a prefix, too.                    *)
LEMMA PrefixOfMore ==
  ASSUME NEW S, NEW s \in Seq(S), NEW e \in Seq(S), NEW n \in 0..Len(e)
  PROVE  /\ s \o SubSeq(e, 1, n) \in Seq(S)
         /\ IsPrefix(s \o SubSeq(e, 1, n), s \o e)
<1> DEFINE some == SubSeq(e, 1, n)
<1>1. /\ some \in Seq(S) /\ Len(some) = n
      /\ \A k \in 1..n : some[k] = e[k]
  OBVIOUS
<1>2. Len(s) \in Nat /\ Len(e) \in Nat /\ n \in Nat /\ n <= Len(e)
  OBVIOUS
<1> HIDE DEF some
<1>3. /\ s \o some \in Seq(S) /\ Len(s \o some) = Len(s) + n
      /\ \A k \in 1..(Len(s) + n) :
           (s \o some)[k] = IF k <= Len(s) THEN s[k] ELSE some[k - Len(s)]
  BY <1>1, <1>2
<1>4. /\ s \o e \in Seq(S) /\ Len(s \o e) = Len(s) + Len(e)
      /\ \A k \in 1..(Len(s) + Len(e)) :
           (s \o e)[k] = IF k <= Len(s) THEN s[k] ELSE e[k - Len(s)]
  BY <1>2
<1>5. ASSUME NEW k \in 1..(Len(s) + n)
      PROVE  (s \o some)[k] = (s \o e)[k]
  <2>1. k \in 1..(Len(s) + Len(e)) /\ (k > Len(s) => k - Len(s) \in 1..n)
    BY <1>2
  <2> QED BY <1>1, <1>3, <1>4, <2>1
<1>6. IsPrefix(s \o some, s \o e)
  <2>1. Len(s \o some) <= Len(s \o e)
    BY <1>2, <1>3, <1>4
  <2>2. \A k \in 1..Len(s \o some) : (s \o some)[k] = (s \o e)[k]
    BY <1>3, <1>5
  <2> QED BY <1>3, <1>4, <2>1, <2>2, PrefixByPlace
<1> QED BY <1>3, <1>6 DEF some

(* Adding to a sequence lengthens it.                                      *)
LEMMA BothInOne ==
  ASSUME NEW S, NEW s \in Seq(S), NEW t \in Seq(S)
  PROVE  /\ s \o t \in Seq(S) /\ Len(s \o t) = Len(s) + Len(t)
         /\ Len(s) \in Nat /\ Len(t) \in Nat
         /\ t # <<>> => s \o t # <<>>
<1>1. /\ s \o t \in Seq(S) /\ Len(s \o t) = Len(s) + Len(t)
      /\ Len(s) \in Nat /\ Len(t) \in Nat
  OBVIOUS
<1>2. ASSUME t # <<>> PROVE s \o t # <<>>
  <2>1. Len(t) > 0
    BY <1>2
  <2> QED BY <1>1, <2>1
<1> QED BY <1>1, <1>2

(* Emitting adds events to the stream and, until a write fails, to the     *)
(* file; the write that fails may leave a first part of them there.        *)
LEMMA EmitKeepsTheFile ==
  ASSUME stream \in Seq(Tellable), sink \in Seq(Tellable), FileHasNoHole,
         latched \in BOOLEAN, NEW events \in Seq(Tellable), Emit(events)
  PROVE  /\ stream' = stream \o events /\ stream' \in Seq(Tellable)
         /\ sink' \in Seq(Tellable) /\ latched' \in BOOLEAN
         /\ FileHasNoHole'
         /\ StoreWorks \/ StoreFails
<1>1. stream' = stream \o events /\ stream' \in Seq(Tellable)
  BY DEF Emit
<1>2. IsPrefix(sink, stream) /\ (~latched => sink = stream)
  BY DEF FileHasNoHole
<1>3. CASE StoreWorks /\ latched /\ sink' = sink \o <<>> /\ latched' = latched
  <2>1. sink' = sink
    BY <1>3
  <2> QED BY <1>1, <1>2, <1>3, <2>1, PrefixRemains DEF FileHasNoHole
<1>4. CASE StoreWorks /\ ~latched /\ sink' = sink \o events /\ latched' = latched
  <2>1. sink' = stream'
    BY <1>1, <1>2, <1>4
  <2>2. Len(stream') <= Len(stream')
    BY <1>1
  <2>3. IsPrefix(stream', stream')
    BY <1>1, <2>2, PrefixByPlace
  <2> QED BY <1>1, <1>4, <2>1, <2>3 DEF FileHasNoHole
<1>5. CASE /\ ~latched /\ StoreFails /\ latched' = TRUE
           /\ \E k \in 0..(Len(events) - 1) : sink' = sink \o SubSeq(events, 1, k)
  <2>1. PICK k \in 0..(Len(events) - 1) : sink' = stream \o SubSeq(events, 1, k)
    BY <1>2, <1>5
  <2>2. k \in 0..Len(events)
    OBVIOUS
  <2>3. sink' \in Seq(Tellable) /\ IsPrefix(sink', stream')
    BY <1>1, <2>1, <2>2, PrefixOfMore
  <2> QED BY <1>1, <1>5, <2>3 DEF FileHasNoHole
<1> QED BY <1>3, <1>4, <1>5 DEF Emit

(* The events of an attempt: a merge is told of unless its answer was lost *)
(* for good, and no other write is.                                        *)
LEMMA AttemptTells ==
  ASSUME position \in Numbers, NEW e, NEW events \in Told(e)
  PROVE  /\ events \in Seq(Tellable) /\ events # <<>>
         /\ Telling(events, "closed") = {} /\ Telling(events, "halted") = {}
         /\ Telling(events, "merged") \subseteq
              IF e.request # "merged" THEN {} ELSE {position}
         /\ e.request = "merged" /\ e.verdict # "error" =>
              position \in Telling(events, "merged")
<1> DEFINE assessed == <<Event("assessed", position)>>
           merge == <<Event("merged", position)>>
           skip == <<Event("skipped", position)>>
           revert == <<Event("reverted", position)>>
           merged == assessed \o merge
           aside == assessed \o skip
           reverted == merged \o revert
<1>1. /\ assessed \in Seq(Tellable) /\ assessed # <<>>
      /\ merge \in Seq(Tellable) /\ merge # <<>>
      /\ skip \in Seq(Tellable) /\ skip # <<>>
      /\ revert \in Seq(Tellable) /\ revert # <<>>
  BY EventIsTellable
<1>2. /\ Telling(assessed, "closed") = {} /\ Telling(assessed, "halted") = {}
      /\ Telling(assessed, "merged") = {}
      /\ Telling(merge, "closed") = {} /\ Telling(merge, "halted") = {}
      /\ Telling(merge, "merged") = {position}
      /\ Telling(skip, "closed") = {} /\ Telling(skip, "halted") = {}
      /\ Telling(skip, "merged") = {}
      /\ Telling(revert, "closed") = {} /\ Telling(revert, "halted") = {}
      /\ Telling(revert, "merged") = {}
  BY TellingOne
<1> HIDE DEF assessed, merge, skip, revert
<1>3. /\ merged \in Seq(Tellable) /\ merged # <<>>
      /\ Telling(merged, "closed") = {} /\ Telling(merged, "halted") = {}
      /\ Telling(merged, "merged") = {position}
  <2>1. merged \in Seq(Tellable) /\ merged # <<>>
    BY <1>1, <1>2, BothInOne
  <2>2. \A kind : Telling(merged, kind) = Telling(assessed, kind) \cup Telling(merge, kind)
    BY <1>1, <1>2, TellingBoth
  <2> QED BY <1>2, <2>1, <2>2
<1>4. /\ aside \in Seq(Tellable) /\ aside # <<>>
      /\ Telling(aside, "closed") = {} /\ Telling(aside, "halted") = {}
      /\ Telling(aside, "merged") = {}
  <2>1. aside \in Seq(Tellable) /\ aside # <<>>
    BY <1>1, <1>2, BothInOne
  <2>2. \A kind : Telling(aside, kind) = Telling(assessed, kind) \cup Telling(skip, kind)
    BY <1>1, <1>2, TellingBoth
  <2> QED BY <1>2, <2>1, <2>2
<1> HIDE DEF merged, aside
<1>5. /\ reverted \in Seq(Tellable) /\ reverted # <<>>
      /\ Telling(reverted, "closed") = {} /\ Telling(reverted, "halted") = {}
      /\ Telling(reverted, "merged") = {position}
  <2>1. reverted \in Seq(Tellable) /\ reverted # <<>>
    BY <1>1, <1>2, <1>3, BothInOne
  <2>2. \A kind : Telling(reverted, kind) = Telling(merged, kind) \cup Telling(revert, kind)
    BY <1>1, <1>2, <1>3, TellingBoth
  <2> QED BY <1>2, <1>3, <2>1, <2>2
<1> HIDE DEF reverted
<1>8. CASE e.request # "merged"
  <2>1. events \in {assessed, aside}
    BY <1>8 DEF Told, assessed, aside, skip
  <2>2. CASE events = assessed
    BY <1>1, <1>2, <1>8, <2>2
  <2>3. CASE events = aside
    BY <1>4, <1>8, <2>3
  <2> QED BY <2>1, <2>2, <2>3
<1>9. CASE e.request = "merged"
  <2>1. /\ events \in {assessed, merged, reverted}
        /\ e.verdict # "error" => events \in {merged, reverted}
    BY <1>9 DEF Told, assessed, merged, reverted, merge, revert
  <2>2. CASE events = assessed
    BY <1>1, <1>2, <1>9, <2>1, <2>2, <1>3, <1>5
  <2>3. CASE events \in {merged, reverted}
    BY <1>3, <1>5, <1>9, <2>3
  <2> QED BY <2>1, <2>2, <2>3
<1> QED BY <1>8, <1>9

(* The endings an attempt may have: a dry run merges nothing, and an       *)
(* attempt that lets the run go on is no error once it merged.             *)
LEMMA EndingIsKnown ==
  ASSUME NEW e \in IF dryRun THEN {WouldMerge, Skipped, Failed} ELSE Outcomes
  PROVE  /\ e \in Endings \cup {WouldMerge}
         /\ e.request \in {"open", "underway", "merged"}
         /\ dryRun => e.request = "open"
         /\ ~e.halted /\ e.request = "merged" => e.verdict # "error"
         /\ SoFar(e.request) \in {"open", "merged"}
         /\ SoFar(e.request) = "merged" => e.request = "merged"
<1>1. Skipped \in Endings /\ Failed \in Endings
  BY DEF Skipped, Failed, Ending, Endings, Accounted
<1>2. CASE dryRun
  <2>1. e \in {WouldMerge, Skipped, Failed}
    BY <1>2
  <2>2. /\ Skipped.request = "open" /\ Failed.request = "open"
        /\ WouldMerge.request = "open"
    BY DEF WouldMerge, Skipped, Failed, Ending
  <2>3. e.request = "open" /\ e \in Endings \cup {WouldMerge}
    BY <1>1, <2>1, <2>2
  <2> QED BY <2>3 DEF SoFar
<1>3. CASE ~dryRun
  <2>1. e \in Endings
    BY <1>3
  <2> QED BY <1>3, <2>1 DEF Endings, Accounted, SoFar
<1> QED BY <1>2, <1>3

(* A merge the client gave up on: an attempt of a run that is not dry.     *)
LEMMA LandsOnce ==
  ASSUME UnansweredLands
  PROVE  /\ \E k \in DOMAIN attempts :
              /\ attempts[k].ending.request = "underway" /\ status[k] = "open"
              /\ status' = [status EXCEPT ![k] = "merged"]
         /\ UNCHANGED <<queue, dryRun, superseded, cancelled, pc, position, attempts,
                        halted, stream, sink, latched, row, recorded, faults>>
BY DEF UnansweredLands, Unanswered, told, history

(* A failed write is counted within its bound.                             *)
LEMMA FaultsAreBounded ==
  ASSUME faults \in 0..StoreFaults, StoreWorks \/ StoreFails
  PROVE  faults' \in 0..StoreFaults /\ faults' \in {faults, faults + 1}
BY DEF StoreWorks, StoreFails

(* Emitting leaves no other trace than a stream, a file and a fault.       *)
LEMMA EmitType ==
  ASSUME TypeOK, FileHasNoHole, NEW events \in Seq(Tellable), Emit(events)
  PROVE  /\ stream' = stream \o events /\ stream' \in Seq(Tellable)
         /\ sink' \in Seq(Tellable) /\ latched' \in BOOLEAN
         /\ FileHasNoHole'
         /\ faults' \in 0..StoreFaults /\ faults' \in {faults, faults + 1}
BY EmitKeepsTheFile, FaultsAreBounded DEF TypeOK

(* A run begins with nothing told or recorded.                             *)
LEMMA InitType == Init => TypeOK /\ FileHasNoHole
<1> SUFFICES ASSUME Init PROVE TypeOK /\ FileHasNoHole
  OBVIOUS
<1>1. queue \in Seq(ToSet(queue)) /\ Numbers = 1..Len(queue) /\ Len(queue) \in Nat
  <2>1. queue \in Seq(ToSet(queue))
    BY DEF Init
  <2> QED BY <2>1 DEF Numbers
<1>2. superseded \in SUBSET DOMAIN queue
  BY DEF Init, Superseded
<1>3. position \in 1..(Len(queue) + 1)
  BY <1>1 DEF Init
<1>4. <<>> \in Seq(Tellable) /\ IsPrefix(<<>>, <<>>)
  <2>1. <<>> \in Seq(Tellable) /\ Len(<<>>) = 0
    OBVIOUS
  <2>2. Len(<<>>) <= Len(<<>>) /\ \A k \in 1..Len(<<>>) : <<>>[k] = <<>>[k]
    BY <2>1
  <2> QED BY <2>1, <2>2, PrefixByPlace
<1>5. <<>> \in Seq([number : Numbers, ending : Endings \cup {WouldMerge}])
  OBVIOUS
<1>6. status \in [DOMAIN queue -> {"open", "merged", "closed"}] /\ faults \in 0..StoreFaults
  BY DEF Init
<1>7. FileHasNoHole
  BY <1>4 DEF Init, FileHasNoHole
<1> QED BY <1>2, <1>3, <1>4, <1>5, <1>6, <1>7 DEF Init, TypeOK

(* What every step does to the stream and the file.                        *)
LEMMA NextTold ==
  ASSUME TypeOK, Counted, FileHasNoHole, [Next]_vars
  PROVE  /\ stream' \in Seq(Tellable) /\ sink' \in Seq(Tellable)
         /\ latched' \in BOOLEAN /\ FileHasNoHole'
         /\ faults' \in 0..StoreFaults /\ faults' \in {faults, faults + 1}
<1>0. /\ stream \in Seq(Tellable) /\ sink \in Seq(Tellable) /\ latched \in BOOLEAN
      /\ faults \in 0..StoreFaults
  BY DEF TypeOK
<1>a. position \in DOMAIN queue => position \in Numbers
  BY DEF Numbers
<1>1. CASE UNCHANGED <<told, faults>>
  BY <1>0, <1>1 DEF told, FileHasNoHole
<1>2. CASE StartRun
  <2>1. <<Event("run_started", 0)>> \in Seq(Tellable)
    BY EventIsTellable
  <2>2. CASE Emit(<<Event("run_started", 0)>>)
    BY <2>1, <2>2, EmitType
  <2>3. CASE /\ StoreFails /\ UNCHANGED latched
             /\ stream' = <<Event("run_started", 0)>> /\ sink' = stream'
    <3>1. Len(stream') <= Len(stream')
      BY <2>1, <2>3
    <3>2. IsPrefix(sink', stream')
      BY <2>1, <2>3, <3>1, PrefixByPlace
    <3> QED BY <1>0, <2>1, <2>3, <3>2, FaultsAreBounded DEF FileHasNoHole
  <2> QED BY <1>2, <2>2, <2>3 DEF StartRun
<1>3. CASE TellSkipped \/ CloseSuperseded
  <2>1. position \in Numbers
    BY <1>3 DEF Counted, AtAttempt, TellSkipped, CloseSuperseded
  <2>2. CASE TellSkipped
    <3>1. Emit(<<Event("skipped", position)>>)
      BY <2>2 DEF TellSkipped
    <3> QED BY <2>1, <3>1, EventIsTellable, EmitType
  <2>3. CASE CloseSuperseded
    <3>1. Emit(<<Event("closed", position)>>)
      BY <2>3 DEF CloseSuperseded
    <3> QED BY <2>1, <3>1, EventIsTellable, EmitType
  <2> QED BY <1>3, <2>2, <2>3
<1>4. CASE Process
  <2>1. PICK e : \E events \in Told(e) : Emit(events)
    BY <1>4 DEF Process
  <2>2. PICK events \in Told(e) : Emit(events)
    BY <2>1
  <2>3. events \in Seq(Tellable)
    BY <1>4, <1>a, AttemptTells DEF Process, AtCandidate
  <2> QED BY <2>2, <2>3, EmitType
<1>5. CASE Crash
  <2>1. CASE UNCHANGED <<told, faults>>
    BY <1>1, <2>1
  <2>2. CASE AtCandidate /\ ~UNCHANGED <<told, faults>>
    <3>1. position \in Numbers
      BY <1>a, <2>2 DEF AtCandidate
    <3>2. /\ <<Event("assessed", position)>> \in Seq(Tellable)
          /\ <<Event("assessed", position), Event("merged", position)>> \in Seq(Tellable)
      BY <3>1, EventIsTellable
    <3>3. \E events \in Seq(Tellable) : Emit(events)
      BY <1>5, <2>2, <3>2 DEF Crash
    <3> QED BY <3>3, EmitType
  <2> QED BY <1>5, <2>1, <2>2 DEF Crash
<1>6. CASE Finish \/ LastWord
  <2>1. CASE UNCHANGED <<told, faults>>
    BY <1>1, <2>1
  <2>2. CASE ~UNCHANGED <<told, faults>>
    <3>1. /\ <<Event("halted", 0)>> \in Seq(Tellable)
          /\ <<Event("run_finished", 0)>> \in Seq(Tellable)
      BY EventIsTellable
    <3>2. \E events \in Seq(Tellable) : Emit(events)
      BY <1>6, <2>2, <3>1 DEF Finish, LastWord
    <3> QED BY <3>2, EmitType
  <2> QED BY <2>1, <2>2
<1>7. CASE Record \/ FinishRun
  <2>1. UNCHANGED told /\ (StoreWorks \/ StoreFails)
    BY <1>7 DEF Record, FinishRun
  <2> QED BY <1>0, <2>1, FaultsAreBounded DEF told, FileHasNoHole
<1>8. CASE Discover \/ LeaveLoop \/ SkipCandidate \/ CloseFails \/ AfterAttempt \/ Interrupt
           \/ UNCHANGED vars
  <2>1. UNCHANGED <<told, faults>>
    BY <1>8 DEF Discover, LeaveLoop, SkipCandidate, CloseFails, AfterAttempt, Interrupt,
                vars
  <2> QED BY <1>1, <2>1
<1>9. CASE UnansweredLands
  <2>1. UNCHANGED <<told, faults>>
    BY <1>9 DEF UnansweredLands
  <2> QED BY <1>1, <2>1
<1> QED BY <1>2, <1>3, <1>4, <1>5, <1>6, <1>7, <1>8, <1>9 DEF Next, Program, Finished

-----------------------------------------------------------------------------
(* Types, and the count of the queue.                                      *)

Attempt == [number : Numbers, ending : Endings \cup {WouldMerge}]

(* The queue is numbered from one.                                         *)
LEMMA QueueIsNumbered ==
  ASSUME TypeOK
  PROVE  /\ Numbers = 1..Len(queue) /\ Len(queue) \in Nat /\ Numbers = DOMAIN queue
         /\ position \in Nat /\ position \in 1..(Len(queue) + 1)
<1>1. queue \in Seq(ToSet(queue)) /\ position \in 1..(Len(queue) + 1)
  BY DEF TypeOK
<1>2. Numbers = 1..Len(queue) /\ Len(queue) \in Nat
  BY <1>1 DEF Numbers
<1> QED BY <1>1, <1>2 DEF Numbers

(* An attempt is added at the end of those made.                           *)
LEMMA Adding ==
  ASSUME NEW S, NEW s \in Seq(S), NEW x \in S
  PROVE  /\ Append(s, x) \in Seq(S) /\ Len(Append(s, x)) = Len(s) + 1
         /\ Len(s) \in Nat /\ DOMAIN s = 1..Len(s)
         /\ DOMAIN Append(s, x) = 1..(Len(s) + 1)
         /\ \A k \in 1..Len(s) : Append(s, x)[k] = s[k]
         /\ Append(s, x)[Len(s) + 1] = x
         /\ Append(s, x) # <<>>
OBVIOUS

(* The two actions that attempt a candidate.                               *)
LEMMA AttemptIsMade ==
  ASSUME TypeOK, Counted, SkipCandidate \/ Process
  PROVE  /\ position \in Numbers /\ pc = "loop" /\ pc' = "record" /\ ~cancelled /\ ~halted
         /\ Len(attempts) = position - 1 /\ Len(attempts') = position
         /\ DOMAIN attempts = 1..(position - 1) /\ DOMAIN attempts' = 1..position
         /\ \A k \in 1..(position - 1) : attempts'[k] = attempts[k]
         /\ \E e \in Endings \cup {WouldMerge} :
              attempts'[position] = Attempted(position, e)
         /\ Aside => attempts'[position] = Attempted(position, Skipped)
         /\ attempts' \in Seq(Attempt)
         /\ UNCHANGED <<queue, dryRun, superseded, cancelled, position, halted, history>>
<1>1. /\ position \in Numbers /\ pc = "loop" /\ pc' = "record" /\ ~cancelled
      /\ UNCHANGED <<queue, dryRun, superseded, cancelled, position, halted, history>>
  BY DEF SkipCandidate, Process, AtCandidate, Numbers
<1>2. ~halted /\ Len(attempts) = position - 1 /\ position \in Nat
  BY <1>1, QueueIsNumbered DEF Counted, AtAttempt, AtEnd
<1>3. attempts \in Seq(Attempt)
  BY DEF TypeOK, Attempt
<1>4. PICK e \in Endings \cup {WouldMerge} :
        /\ attempts' = Append(attempts, Attempted(position, e))
        /\ Aside => e = Skipped
  <2>1. CASE SkipCandidate
    <3>1. Skipped \in Endings
      BY DEF Skipped, Ending, Endings, Accounted
    <3> QED BY <2>1, <3>1 DEF SkipCandidate
  <2>2. CASE Process
    <3>1. PICK e \in IF dryRun THEN {WouldMerge, Skipped, Failed} ELSE Outcomes :
            attempts' = Append(attempts, Attempted(position, e))
      BY <2>2 DEF Process
    <3> QED BY <2>2, <3>1, EndingIsKnown DEF Process
  <2> QED BY <2>1, <2>2
<1>5. Attempted(position, e) \in Attempt
  BY <1>1 DEF Attempted, Attempt
<1>6. /\ attempts' \in Seq(Attempt) /\ Len(attempts') = Len(attempts) + 1
      /\ DOMAIN attempts = 1..Len(attempts) /\ DOMAIN attempts' = 1..(Len(attempts) + 1)
      /\ \A k \in 1..Len(attempts) : attempts'[k] = attempts[k]
      /\ attempts'[Len(attempts) + 1] = Attempted(position, e)
  BY <1>3, <1>4, <1>5, Adding
<1>7. Len(attempts) + 1 = position
  BY <1>2
<1> QED BY <1>1, <1>2, <1>4, <1>6, <1>7

(* Every step keeps every variable in its type.                            *)
LEMMA NextType ==
  ASSUME TypeOK, Counted, FileHasNoHole, [Next]_vars
  PROVE  TypeOK'
<1>1. /\ stream' \in Seq(Tellable) /\ sink' \in Seq(Tellable) /\ latched' \in BOOLEAN
      /\ faults' \in 0..StoreFaults
  BY NextTold
<1>2. UNCHANGED <<queue, dryRun, superseded>>
  BY DEF Next, Program, StartRun, Discover, LeaveLoop, SkipCandidate, TellSkipped,
         CloseSuperseded, CloseFails, Process, Record, AfterAttempt, Finish, FinishRun,
         LastWord, Interrupt, Crash, UnansweredLands, Finished, vars
<1>3. Tellable' = Tellable /\ Numbers' = Numbers
  BY <1>2 DEF Tellable, Numbers
<1>4. queue \in Listings /\ dryRun \in BOOLEAN /\ superseded \in SUBSET DOMAIN queue
  BY DEF TypeOK
<1>5. cancelled' \in BOOLEAN /\ halted' \in BOOLEAN
      /\ row' \in {"none", "started", "finished", "halted"}
  <2>1. /\ cancelled' \in {cancelled, TRUE} /\ halted' \in {halted, TRUE}
        /\ row' \in {row, "started", "finished", "halted"}
    BY DEF Next, Program, StartRun, Discover, LeaveLoop, SkipCandidate, TellSkipped,
         CloseSuperseded, CloseFails, Process, Record, AfterAttempt, Finish, FinishRun,
         LastWord, Interrupt, Crash, UnansweredLands, Finished, vars, history
  <2> QED BY <2>1 DEF TypeOK
<1>6. pc' \in {"start", "discover", "loop", "record", "tell", "close", "next",
               "finish", "finishRow", "end", "done", "dead"}
  BY DEF Next, Program, StartRun, Discover, LeaveLoop, SkipCandidate, TellSkipped,
         CloseSuperseded, CloseFails, Process, Record, AfterAttempt, Finish, FinishRun,
         LastWord, Interrupt, Crash, UnansweredLands, Finished, vars, GoOn, TypeOK
<1>7. status' \in [DOMAIN queue -> {"open", "merged", "closed"}]
  <2>0. status \in [DOMAIN queue -> {"open", "merged", "closed"}]
    BY DEF TypeOK
  <2>1. CASE Process
    <3>1. PICK e \in IF dryRun THEN {WouldMerge, Skipped, Failed} ELSE Outcomes :
            status' = [status EXCEPT ![position] = SoFar(e.request)]
      BY <2>1 DEF Process
    <3>2. SoFar(e.request) \in {"open", "merged"}
      BY EndingIsKnown
    <3> QED BY <2>0, <3>1, <3>2
  <2>2. CASE UnansweredLands
    <3>1. PICK k \in DOMAIN attempts : status' = [status EXCEPT ![k] = "merged"]
      BY <2>2, LandsOnce
    <3> QED BY <2>0, <3>1
  <2>3. CASE ~(Process \/ UnansweredLands)
    <3>1. \/ status' = status
          \/ status' = [status EXCEPT ![position] = "closed"]
          \/ status' = [status EXCEPT ![position] = "merged"]
      BY <2>3 DEF Next, Program, StartRun, Discover, LeaveLoop, SkipCandidate, TellSkipped,
           CloseSuperseded, CloseFails, Record, AfterAttempt, Finish, FinishRun,
           LastWord, Interrupt, Crash, Finished, vars, ForgeCloses
    <3> QED BY <2>0, <3>1
  <2> QED BY <2>1, <2>2, <2>3
<1>8. position' \in 1..(Len(queue) + 1)
  <2>1. \/ position' = position
        \/ position' = position + 1 /\ pc \in AtAttempt
    BY DEF Next, Program, StartRun, Discover, LeaveLoop, SkipCandidate, TellSkipped,
         CloseSuperseded, CloseFails, Process, Record, AfterAttempt, Finish, FinishRun,
         LastWord, Interrupt, Crash, UnansweredLands, Finished, vars, GoOn, AtAttempt
  <2>2. pc \in AtAttempt => position \in 1..Len(queue)
    BY QueueIsNumbered DEF Counted
  <2> QED BY <2>1, <2>2, QueueIsNumbered
<1>9. attempts' \in Seq(Attempt)
  <2>1. CASE SkipCandidate \/ Process
    BY <2>1, AttemptIsMade
  <2>2. CASE ~(SkipCandidate \/ Process)
    <3>1. attempts' = attempts
      BY <2>2 DEF Next, Program, StartRun, Discover, LeaveLoop, TellSkipped,
           CloseSuperseded, CloseFails, Record, AfterAttempt, Finish, FinishRun,
           LastWord, Interrupt, Crash, UnansweredLands, Finished, vars
    <3> QED BY <3>1 DEF TypeOK, Attempt
  <2> QED BY <2>1, <2>2
<1>10. recorded' \in SUBSET Numbers
  <2>1. recorded \in SUBSET Numbers
    BY DEF TypeOK
  <2>2. CASE Record
    <3>1. position \in Numbers
      BY <2>2 DEF Record, Counted, AtAttempt
    <3> QED BY <2>1, <2>2, <3>1 DEF Record
  <2>3. CASE ~Record
    BY <2>1, <2>3 DEF Next, Program, StartRun, Discover, LeaveLoop, SkipCandidate,
         TellSkipped, CloseSuperseded, CloseFails, Process, AfterAttempt, Finish,
         FinishRun, LastWord, Interrupt, Crash, UnansweredLands, Finished, vars, history
  <2> QED BY <2>2, <2>3
<1> QED BY <1>1, <1>2, <1>3, <1>4, <1>5, <1>6, <1>7, <1>8, <1>9, <1>10
        DEF TypeOK, Attempt

(* A run begins with nothing attempted.                                    *)
LEMMA InitCounted == Init => Counted /\ SetAside
<1> SUFFICES ASSUME Init PROVE Counted /\ SetAside
  OBVIOUS
<1>1. /\ pc = "start" /\ position = 1 /\ attempts = <<>> /\ ~halted
      /\ Len(attempts) = 0 /\ DOMAIN attempts = {}
  BY DEF Init
<1> QED BY <1>1 DEF Counted, SetAside, AtAttempt, AtEnd

(* Every step keeps the attempts in the order of the queue, one for each.  *)
LEMMA NextCounted ==
  ASSUME TypeOK, Counted, SetAside, [Next]_vars
  PROVE  Counted'
<1>0. /\ Numbers = 1..Len(queue) /\ Len(queue) \in Nat /\ Numbers = DOMAIN queue
      /\ position \in Nat /\ position \in 1..(Len(queue) + 1)
      /\ attempts \in Seq(Attempt) /\ Len(attempts) \in Nat
      /\ DOMAIN attempts = 1..Len(attempts)
      /\ cancelled \in BOOLEAN /\ halted \in BOOLEAN
  BY QueueIsNumbered DEF TypeOK, Attempt
<1>1. CASE SkipCandidate \/ Process
  <2>1. /\ position \in Numbers /\ pc = "loop" /\ pc' = "record" /\ ~cancelled /\ ~halted
        /\ Len(attempts') = position
        /\ DOMAIN attempts = 1..(position - 1) /\ DOMAIN attempts' = 1..position
        /\ \A k \in 1..(position - 1) : attempts'[k] = attempts[k]
        /\ \E e : attempts'[position] = Attempted(position, e)
        /\ UNCHANGED <<queue, position, halted>> /\ Numbers' = Numbers
    BY <1>1, AttemptIsMade DEF Numbers
  <2>2. attempts'[position].number = position
    BY <2>1 DEF Attempted
  <2>3. \A k \in DOMAIN attempts' : k = position \/ k \in DOMAIN attempts
    BY <1>0, <2>1
  <2>4. \A k \in DOMAIN attempts' : attempts'[k].number = k
    BY <2>1, <2>2, <2>3 DEF Counted
  <2>5. \A k \in DOMAIN attempts' : attempts'[k].ending.halted => k = position
    BY <2>1, <2>3 DEF Counted
  <2> QED BY <2>1, <2>4, <2>5 DEF Counted, AtAttempt, AtEnd
<1>2. CASE StartRun \/ Discover
  <2>1. /\ pc \in {"start", "discover"}
        /\ \/ pc = "start" /\ pc' = "discover"
           \/ pc = "discover" /\ pc' \in {"loop", "finish"}
        /\ UNCHANGED <<queue, cancelled, position, attempts, halted>>
        /\ Numbers' = Numbers
    BY <1>2 DEF StartRun, Discover, Numbers
  <2>2. attempts = <<>> /\ position = 1 /\ ~halted /\ Len(attempts) = position - 1
    BY <2>1 DEF Counted, AtAttempt, AtEnd
  <2> QED BY <2>1, <2>2 DEF Counted, AtAttempt, AtEnd
<1>3. CASE LeaveLoop
  <2>1. /\ pc = "loop" /\ pc' = "finish" /\ (cancelled \/ position \notin DOMAIN queue)
        /\ UNCHANGED <<queue, cancelled, position, attempts, halted>> /\ Numbers' = Numbers
    BY <1>3 DEF LeaveLoop, Numbers
  <2>2. ~cancelled => position = Len(queue) + 1
    BY <1>0, <2>1
  <2> QED BY <1>0, <2>1, <2>2 DEF Counted, AtAttempt, AtEnd
<1>4. CASE TellSkipped \/ CloseSuperseded \/ CloseFails
  <2>1. /\ pc \in {"tell", "close"}
        /\ \/ pc' = "close" /\ position' = position
           \/ pc' = "loop" /\ position' = position + 1
        /\ UNCHANGED <<queue, cancelled, attempts, halted>> /\ Numbers' = Numbers
    BY <1>4 DEF TellSkipped, CloseSuperseded, CloseFails, GoOn, Numbers
  <2>2. ~halted /\ Len(attempts) = position /\ position \in Numbers
        /\ \A k \in DOMAIN attempts : ~attempts[k].ending.halted
    BY <2>1 DEF Counted, AtAttempt, AtEnd
  <2> QED BY <1>0, <2>1, <2>2 DEF Counted, AtAttempt, AtEnd
<1>5. CASE Record
  <2>1. /\ pc = "record" /\ pc' = (IF Aside THEN "tell" ELSE "next")
        /\ cancelled' \in {cancelled, TRUE}
        /\ UNCHANGED <<queue, position, attempts, halted>> /\ Numbers' = Numbers
    BY <1>5 DEF Record, Numbers
  <2>2. ~halted /\ Len(attempts) = position /\ position \in Numbers
    BY <2>1 DEF Counted, AtAttempt, AtEnd
  <2>3. Aside => \A k \in DOMAIN attempts : ~attempts[k].ending.halted
    <3>1. Aside => attempts[position].ending = Skipped
      BY <2>1 DEF SetAside
    <3>2. ~Skipped.halted
      BY DEF Skipped, Ending
    <3> QED BY <2>2, <3>1, <3>2 DEF Counted
  <2> QED BY <1>0, <2>1, <2>2, <2>3 DEF Counted, AtAttempt, AtEnd
<1>6. CASE AfterAttempt
  <2>1. /\ pc = "next"
        /\ UNCHANGED <<queue, cancelled, attempts>> /\ Numbers' = Numbers
    BY <1>6 DEF AfterAttempt, Numbers
  <2>2. ~halted /\ Len(attempts) = position /\ position \in Numbers
    BY <2>1 DEF Counted, AtAttempt, AtEnd
  <2>3. CASE attempts[Len(attempts)].ending.halted
    <3>1. pc' = "finish" /\ halted' = TRUE /\ position' = position
      BY <1>6, <2>3 DEF AfterAttempt
    <3> QED BY <1>0, <2>1, <2>2, <3>1 DEF Counted, AtAttempt, AtEnd
  <2>4. CASE ~attempts[Len(attempts)].ending.halted
    <3>1. pc' = "loop" /\ position' = position + 1 /\ halted' = halted
      BY <1>6, <2>4 DEF AfterAttempt, GoOn
    <3>2. \A k \in DOMAIN attempts : ~attempts[k].ending.halted
      BY <2>4 DEF Counted
    <3> QED BY <1>0, <2>1, <2>2, <3>1, <3>2 DEF Counted, AtAttempt, AtEnd
  <2> QED BY <2>3, <2>4
<1>7. CASE Finish \/ FinishRun \/ LastWord
  <2>1. /\ pc \in AtEnd /\ pc' \in AtEnd
        /\ UNCHANGED <<queue, cancelled, position, attempts, halted>>
        /\ Numbers' = Numbers
    BY <1>7 DEF Finish, FinishRun, LastWord, AtEnd, Numbers
  <2> QED BY <1>0, <2>1 DEF Counted, AtAttempt, AtEnd
<1>8. CASE Crash
  <2>1. /\ pc' = "dead" /\ pc \notin {"done", "dead"}
        /\ UNCHANGED <<queue, cancelled, position, attempts, halted>>
        /\ Numbers' = Numbers
    BY <1>8 DEF Crash, Numbers
  <2> QED BY <1>0, <2>1 DEF Counted, AtAttempt, AtEnd
<1>9. CASE Interrupt
  <2>1. /\ cancelled' = TRUE /\ UNCHANGED <<queue, pc, position, attempts, halted>>
        /\ Numbers' = Numbers
    BY <1>9 DEF Interrupt, Numbers
  <2> QED BY <1>0, <2>1 DEF Counted
<1>10. CASE UNCHANGED vars
  BY <1>10 DEF vars, Counted, Numbers
<1>11. CASE UnansweredLands
  <2>1. UNCHANGED <<queue, cancelled, pc, position, attempts, halted>> /\ Numbers' = Numbers
    BY <1>11, LandsOnce DEF Numbers
  <2> QED BY <2>1 DEF Counted
<1> QED BY <1>1, <1>2, <1>3, <1>4, <1>5, <1>6, <1>7, <1>8, <1>9, <1>10, <1>11
        DEF Next, Program, Finished

(* Every step keeps what is set aside a skip, and closes nothing else.     *)
LEMMA NextSetAside ==
  ASSUME TypeOK, Counted, SetAside, [Next]_vars
  PROVE  SetAside'
<1>1. CASE SkipCandidate \/ Process
  <2>1. /\ pc' = "record" /\ UNCHANGED <<queue, superseded, position>>
        /\ Aside => attempts'[position] = Attempted(position, Skipped)
    BY <1>1, AttemptIsMade
  <2>2. Attempted(position, Skipped).ending = Skipped
    BY DEF Attempted
  <2>3. Aside' <=> Aside
    BY <2>1 DEF Aside
  <2> QED BY <2>1, <2>2, <2>3 DEF SetAside
<1>2. CASE Record
  <2>1. /\ pc = "record" /\ pc' = (IF Aside THEN "tell" ELSE "next")
        /\ UNCHANGED <<queue, superseded, position, attempts>>
    BY <1>2 DEF Record
  <2>2. Aside' <=> Aside
    BY <2>1 DEF Aside
  <2> QED BY <2>1, <2>2 DEF SetAside
<1>3. CASE TellSkipped
  <2>1. /\ pc = "tell" /\ UNCHANGED <<queue, superseded, dryRun, attempts>>
        /\ \/ pc' = "close" /\ Closes /\ position' = position
           \/ pc' = "loop"
    BY <1>3 DEF TellSkipped, GoOn
  <2>2. CASE pc' = "close" /\ Closes /\ position' = position
    <3>1. (Aside' <=> Aside) /\ Closes'
      BY <2>1, <2>2 DEF Aside, Closes
    <3> QED BY <2>1, <2>2, <3>1 DEF SetAside
  <2> QED BY <2>1, <2>2 DEF SetAside
<1>4. CASE UNCHANGED vars \/ Interrupt \/ UnansweredLands
  <2>1. UNCHANGED <<pc, queue, superseded, position, attempts, dryRun>>
    BY <1>4 DEF vars, Interrupt, UnansweredLands
  <2> QED BY <2>1 DEF SetAside, Aside, Closes
<1>5. CASE ~(SkipCandidate \/ Process \/ Record \/ TellSkipped \/ Interrupt
             \/ UnansweredLands \/ UNCHANGED vars)
  <2>1. pc' \notin {"record", "tell", "close"}
    BY <1>5 DEF Next, Program, StartRun, Discover, LeaveLoop, CloseSuperseded, CloseFails,
         AfterAttempt, Finish, FinishRun, LastWord, Crash, Finished, GoOn
  <2> QED BY <2>1 DEF SetAside
<1> QED BY <1>1, <1>2, <1>3, <1>4, <1>5

-----------------------------------------------------------------------------
(* The forge, and what is told of it.                                      *)

(* A run begins with every pull request open and nothing told.             *)
LEMMA InitTells == Init => StatusIsTheEnding /\ Tells /\ StreamIsTheRecord
<1> SUFFICES ASSUME Init PROVE StatusIsTheEnding /\ Tells /\ StreamIsTheRecord
  OBVIOUS
<1>1. /\ pc = "start" /\ ~halted /\ DOMAIN attempts = {} /\ DOMAIN stream = {}
      /\ \A i \in Numbers : status[i] = "open"
  BY DEF Init, Numbers
<1>2. \A kind : Telling(stream, kind) = {}
  BY <1>1 DEF Telling
<1> QED BY <1>1, <1>2 DEF StatusIsTheEnding, Tells, StreamIsTheRecord, On, AtEnd

(* Every step keeps what became of a pull request what its attempt says.   *)
LEMMA NextStatus ==
  ASSUME TypeOK, Counted, SetAside, StatusIsTheEnding, [Next]_vars
  PROVE  StatusIsTheEnding'
<1>0. /\ status \in [Numbers -> {"open", "merged", "closed"}]
      /\ Numbers = DOMAIN queue /\ position \in Nat
      /\ Numbers = 1..Len(queue) /\ Len(queue) \in Nat
      /\ attempts \in Seq(Attempt) /\ DOMAIN attempts = 1..Len(attempts)
      /\ Len(attempts) \in Nat
  BY QueueIsNumbered DEF TypeOK, Attempt
<1>1. CASE SkipCandidate
  <2>1. /\ position \in Numbers /\ Aside /\ pc = "loop" /\ pc' = "record"
        /\ DOMAIN attempts = 1..(position - 1) /\ DOMAIN attempts' = 1..position
        /\ \A k \in 1..(position - 1) : attempts'[k] = attempts[k]
        /\ attempts'[position] = Attempted(position, Skipped)
        /\ UNCHANGED <<queue, dryRun, status>> /\ Numbers' = Numbers
    BY <1>1, AttemptIsMade DEF SkipCandidate, Numbers
  <2>2. attempts'[position].ending.request = "open"
    BY <2>1 DEF Attempted, Skipped, Ending
  <2>3. \A i \in Numbers : i \in DOMAIN attempts' <=> i = position \/ i \in DOMAIN attempts
    BY <1>0, <2>1
  <2>4. position \notin DOMAIN attempts
    BY <1>0, <2>1
  <2>5. \A k \in DOMAIN attempts' : k = position \/ k \in DOMAIN attempts
    BY <1>0, <2>1
  <2>6. dryRun => \A k \in DOMAIN attempts' : attempts'[k].ending.request = "open"
    BY <2>1, <2>2, <2>5 DEF StatusIsTheEnding
  <2> QED BY <2>1, <2>2, <2>3, <2>4, <2>6 DEF StatusIsTheEnding
<1>2. CASE Process
  <2>1. /\ position \in Numbers /\ pc = "loop" /\ pc' = "record"
        /\ Len(attempts) = position - 1
        /\ DOMAIN attempts = 1..(position - 1) /\ DOMAIN attempts' = 1..position
        /\ \A k \in 1..(position - 1) : attempts'[k] = attempts[k]
        /\ UNCHANGED <<queue, dryRun>> /\ Numbers' = Numbers
    BY <1>2, AttemptIsMade DEF Numbers
  <2>2. PICK e \in IF dryRun THEN {WouldMerge, Skipped, Failed} ELSE Outcomes :
          /\ attempts' = Append(attempts, Attempted(position, e))
          /\ status' = [status EXCEPT ![position] = SoFar(e.request)]
    BY <1>2 DEF Process
  <2>3. e \in Endings \cup {WouldMerge} /\ SoFar(e.request) \in {"open", "merged"}
        /\ (SoFar(e.request) = "merged" => e.request = "merged")
        /\ (dryRun => e.request = "open")
    BY EndingIsKnown
  <2>4. attempts'[position].ending.request = e.request
    <3>1. Attempted(position, e) \in Attempt /\ Attempted(position, e).ending = e
      BY <2>1, <2>3 DEF Attempted, Attempt
    <3>2. attempts'[Len(attempts) + 1] = Attempted(position, e)
      BY <1>0, <2>2, <3>1, Adding
    <3>3. Len(attempts) + 1 = position
      BY <1>0, <2>1
    <3> QED BY <3>1, <3>2, <3>3
  <2>5. \A i \in Numbers : i \in DOMAIN attempts' <=> i = position \/ i \in DOMAIN attempts
    BY <1>0, <2>1
  <2>6. /\ status'[position] = SoFar(e.request)
        /\ \A i \in Numbers \ {position} : status'[i] = status[i]
    BY <1>0, <2>1, <2>2
  <2>7. \A k \in DOMAIN attempts' : k = position \/ k \in DOMAIN attempts
    BY <1>0, <2>1
  <2>8. dryRun => /\ \A k \in DOMAIN attempts' : attempts'[k].ending.request = "open"
                  /\ \A i \in Numbers : status'[i] = "open"
    <3>1. dryRun => e.request = "open" /\ SoFar(e.request) = "open"
      BY <2>3
    <3> QED BY <2>1, <2>4, <2>6, <2>7, <3>1 DEF StatusIsTheEnding
  <2>9. \A i \in Numbers :
          /\ status'[i] = "merged" =>
               i \in DOMAIN attempts' /\ attempts'[i].ending.request # "open"
          /\ status'[i] = "closed" => i \in DOMAIN attempts'
    <3> SUFFICES ASSUME NEW i \in Numbers
                 PROVE  /\ status'[i] = "merged" =>
                             i \in DOMAIN attempts' /\ attempts'[i].ending.request # "open"
                        /\ status'[i] = "closed" => i \in DOMAIN attempts'
      OBVIOUS
    <3>1. CASE i = position
      BY <2>3, <2>4, <2>5, <2>6, <3>1
    <3>2. CASE i # position
      BY <2>1, <2>5, <2>6, <3>2 DEF StatusIsTheEnding
    <3> QED BY <3>1, <3>2
  <2> QED BY <2>1, <2>8, <2>9 DEF StatusIsTheEnding
<1>3. CASE CloseSuperseded \/ CloseFails
  <2>1. /\ pc = "close" /\ pc' = "loop" /\ UNCHANGED <<queue, dryRun, attempts>>
        /\ Numbers' = Numbers /\ (status' = status \/ ForgeCloses)
    BY <1>3 DEF CloseSuperseded, CloseFails, GoOn, Numbers
  <2>2. /\ position \in DOMAIN attempts /\ position \in Numbers /\ ~dryRun
        /\ attempts[position].ending.request = "open"
    <3>1. attempts[position].ending = Skipped /\ ~dryRun
      BY <2>1 DEF SetAside, Closes
    <3>2. Len(attempts) = position /\ position \in Numbers
      BY <2>1 DEF Counted, AtAttempt
    <3>3. position \in DOMAIN attempts
      BY <1>0, <3>2, QueueIsNumbered
    <3> QED BY <3>1, <3>2, <3>3 DEF Skipped, Ending
  <2>3. CASE ForgeCloses
    <3>1. status'[position] = "closed"
          /\ \A i \in Numbers \ {position} : status'[i] = status[i]
      BY <1>0, <2>2, <2>3 DEF ForgeCloses
    <3> QED BY <2>1, <2>2, <3>1 DEF StatusIsTheEnding
  <2> QED BY <2>1, <2>3 DEF StatusIsTheEnding
<1>4. CASE Crash
  <2>1. /\ pc' = "dead" /\ UNCHANGED <<queue, dryRun, attempts>> /\ Numbers' = Numbers
        /\ dryRun => status' = status
    BY <1>4 DEF Crash, Numbers
  <2> QED BY <2>1 DEF StatusIsTheEnding
<1>6. CASE UnansweredLands
  <2>1. PICK k \in DOMAIN attempts :
          /\ attempts[k].ending.request = "underway"
          /\ status' = [status EXCEPT ![k] = "merged"]
    BY <1>6, LandsOnce
  <2>2. UNCHANGED <<queue, dryRun, pc, attempts>> /\ Numbers' = Numbers
    BY <1>6, LandsOnce DEF Numbers
  <2>3. ~dryRun
    BY <2>1 DEF StatusIsTheEnding
  <2>4. \A i \in Numbers : status'[i] = status[i] \/ (i = k /\ status'[i] = "merged")
    BY <1>0, <2>1
  <2>5. ASSUME pc' # "dead", NEW i \in Numbers
        PROVE  /\ status'[i] = "merged" =>
                    i \in DOMAIN attempts' /\ attempts'[i].ending.request # "open"
               /\ status'[i] = "closed" => i \in DOMAIN attempts'
    <3>1. CASE status'[i] = status[i]
      BY <2>2, <2>5, <3>1 DEF StatusIsTheEnding
    <3>2. CASE i = k /\ status'[i] = "merged"
      BY <2>1, <2>2, <3>2
    <3> QED BY <2>4, <3>1, <3>2
  <2> QED BY <2>2, <2>3, <2>5 DEF StatusIsTheEnding
<1>5. CASE ~(SkipCandidate \/ Process \/ CloseSuperseded \/ CloseFails \/ Crash
             \/ UnansweredLands)
  <2>1. /\ UNCHANGED <<queue, dryRun, status, attempts>> /\ Numbers' = Numbers
        /\ pc' = "dead" <=> pc = "dead"
    BY <1>5 DEF Next, Program, StartRun, Discover, LeaveLoop, TellSkipped, Record,
         AfterAttempt, Finish, FinishRun, LastWord, Interrupt, Finished, vars, GoOn, Numbers
  <2> QED BY <2>1 DEF StatusIsTheEnding
<1> QED BY <1>1, <1>2, <1>3, <1>4, <1>5, <1>6

(* Every step closes at most a superseded pull request.                    *)
LEMMA NextCloses ==
  ASSUME TypeOK, Counted, SetAside, ClosesTheSuperseded, [Next]_vars
  PROVE  ClosesTheSuperseded'
<1>0. /\ status \in [Numbers -> {"open", "merged", "closed"}]
      /\ Numbers = DOMAIN queue
  BY DEF TypeOK, Numbers
<1>1. queue' = queue /\ superseded' = superseded /\ Numbers' = Numbers
  BY DEF Next, Program, StartRun, Discover, LeaveLoop, SkipCandidate, TellSkipped,
     CloseSuperseded, CloseFails, Process, Record, AfterAttempt, Finish, FinishRun,
     LastWord, Interrupt, Crash, UnansweredLands, Finished, vars, Numbers
<1>2. CASE CloseSuperseded \/ CloseFails
  <2>1. pc = "close" /\ (status' = status \/ ForgeCloses)
    BY <1>2 DEF CloseSuperseded, CloseFails
  <2>2. position \in superseded
    BY <2>1 DEF SetAside, Closes
  <2>3. \A i \in Numbers : i # position => status'[i] = status[i]
    BY <1>0, <2>1 DEF ForgeCloses
  <2> QED BY <1>1, <2>2, <2>3 DEF ClosesTheSuperseded
<1>3. CASE Process
  <2>1. PICK e \in IF dryRun THEN {WouldMerge, Skipped, Failed} ELSE Outcomes :
          status' = [status EXCEPT ![position] = SoFar(e.request)]
    BY <1>3 DEF Process
  <2>2. SoFar(e.request) \in {"open", "merged"}
    BY EndingIsKnown
  <2> QED BY <1>0, <1>1, <2>1, <2>2 DEF ClosesTheSuperseded
<1>4. CASE Crash
  <2>1. status' = status \/ status' = [status EXCEPT ![position] = "merged"]
    BY <1>4 DEF Crash
  <2> QED BY <1>0, <1>1, <2>1 DEF ClosesTheSuperseded
<1>6. CASE UnansweredLands
  <2>1. PICK k \in DOMAIN attempts : status' = [status EXCEPT ![k] = "merged"]
    BY <1>6, LandsOnce
  <2> QED BY <1>0, <1>1, <2>1 DEF ClosesTheSuperseded
<1>5. CASE ~(Process \/ CloseSuperseded \/ CloseFails \/ Crash \/ UnansweredLands)
  <2>1. status' = status
    BY <1>5 DEF Next, Program, StartRun, Discover, LeaveLoop, SkipCandidate, TellSkipped,
       Record, AfterAttempt, Finish, FinishRun, LastWord, Interrupt, Finished, vars
  <2> QED BY <1>1, <2>1 DEF ClosesTheSuperseded
<1> QED BY <1>2, <1>3, <1>4, <1>5, <1>6

(* Telling of one write more, which was made, keeps what is told true.     *)
LEMMA TellingMore ==
  ASSUME stream \in Seq(Tellable), NEW events \in Seq(Tellable),
         stream' = stream \o events
  PROVE  \A kind : Telling(stream', kind) = Telling(stream, kind) \cup Telling(events, kind)
BY TellingBoth

(* The two ends of what a step adds to the stream.                         *)
LEMMA LastOfMore ==
  ASSUME NEW s \in Seq(Tellable), NEW x \in Tellable
  PROVE  /\ Len(s \o <<x>>) = Len(s) + 1 /\ s \o <<x>> # <<>>
         /\ (s \o <<x>>)[Len(s) + 1] = x
         /\ s # <<>> => Len(s) > 0 /\ (s \o <<x>>)[Len(s)] = s[Len(s)]
OBVIOUS

(* Nothing told adds nothing.                                              *)
LEMMA TellingNothing ==
  ASSUME stream \in Seq(Tellable)
  PROVE  /\ <<>> \in Seq(Tellable) /\ stream = stream \o <<>>
         /\ \A kind : Telling(<<>>, kind) = {}
BY DEF Telling

(* What a step that tells no more and no less than what it does keeps true.*)
LEMMA TellsMore ==
  ASSUME TypeOK, Tells, NEW events \in Seq(Tellable), stream' = stream \o events,
         queue' = queue,
         \A i \in DOMAIN queue : status'[i] = status[i] \/ status[i] = "open",
         Telling(events, "closed") \subseteq On("closed")',
         Telling(events, "merged") \subseteq On("merged")',
         \A i \in DOMAIN attempts' :
           \/ i \in DOMAIN attempts /\ attempts'[i] = attempts[i]
           \/ attempts'[i].ending.request # "merged"
           \/ attempts'[i].ending.halted
           \/ i \in Telling(events, "merged"),
         pc' = "start" => pc = "start" /\ events = <<>>,
         pc' \notin {"start", "dead"} => events # <<>> \/ pc \notin {"start", "dead"},
         pc' \notin Closing \/ ~halted' =>
           (pc \notin Closing \/ ~halted) /\ Telling(events, "halted") = {},
         pc' \in {"finishRow", "end"} /\ halted' =>
           \/ events = <<>> /\ pc \in {"finishRow", "end"} /\ halted
           \/ events = <<Event("halted", 0)>>
  PROVE  Tells'
<1>0. stream \in Seq(Tellable)
  BY DEF TypeOK
<1>1. \A kind : Telling(stream', kind) = Telling(stream, kind) \cup Telling(events, kind)
  BY <1>0, TellingMore
<1>2. On("closed") \subseteq On("closed")' /\ On("merged") \subseteq On("merged")'
  BY DEF On
<1>3. /\ Telling(stream', "closed") \subseteq On("closed")'
      /\ Telling(stream', "merged") \subseteq On("merged")'
  BY <1>1, <1>2 DEF Tells
<1>4. \A i \in DOMAIN attempts' :
        ~attempts'[i].ending.halted /\ attempts'[i].ending.request = "merged" =>
          i \in Telling(stream', "merged")
  BY <1>1 DEF Tells
<1>5. pc' \notin {"start", "dead"} => stream' # <<>>
  <2>1. events # <<>> => stream' # <<>>
    BY <1>0, BothInOne
  <2>2. stream # <<>> => stream' # <<>>
    <3>1. stream # <<>> => Len(stream) > 0
      BY <1>0
    <3>2. Len(stream') = Len(stream) + Len(events) /\ Len(events) \in Nat /\ Len(stream) \in Nat
      BY <1>0, BothInOne
    <3>3. stream # <<>> => Len(stream') # 0
      BY <3>1, <3>2
    <3> QED BY <3>3
  <2> QED BY <2>1, <2>2 DEF Tells
<1>6. pc' \notin Closing \/ ~halted' => Telling(stream', "halted") = {}
  BY <1>1 DEF Tells
<1>7. pc' \in {"finishRow", "end"} /\ halted' => stream'[Len(stream')].kind = "halted"
  <2> SUFFICES ASSUME pc' \in {"finishRow", "end"}, halted'
               PROVE  stream'[Len(stream')].kind = "halted"
    OBVIOUS
  <2>1. CASE events = <<>> /\ pc \in {"finishRow", "end"} /\ halted
    <3>1. stream' = stream
      BY <1>0, <2>1
    <3> QED BY <2>1, <3>1 DEF Tells
  <2>2. CASE events = <<Event("halted", 0)>>
    <3>1. Event("halted", 0) \in Tellable /\ Event("halted", 0).kind = "halted"
      BY EventIsTellable DEF Event
    <3>2. Len(stream') = Len(stream) + 1
          /\ stream'[Len(stream) + 1] = Event("halted", 0)
      BY <1>0, <2>2, <3>1, LastOfMore
    <3> QED BY <3>1, <3>2
  <2> QED BY <2>1, <2>2
<1>8. pc' = "start" => stream' = <<>>
  BY <1>0, TellingNothing DEF Tells
<1> QED BY <1>3, <1>4, <1>5, <1>6, <1>7, <1>8 DEF Tells

(* Every step keeps what is told true, and tells every merge that counts.  *)
LEMMA NextTells ==
  ASSUME TypeOK, Counted, SetAside, StatusIsTheEnding, FileHasNoHole, Tells, [Next]_vars
  PROVE  Tells'
<1>0. /\ stream \in Seq(Tellable) /\ status \in [Numbers -> {"open", "merged", "closed"}]
      /\ Numbers = DOMAIN queue
      /\ <<>> \in Seq(Tellable) /\ stream = stream \o <<>>
      /\ \A kind : Telling(<<>>, kind) = {}
  BY QueueIsNumbered, TellingNothing DEF TypeOK
<1>1. CASE StartRun
  <2> DEFINE events == <<Event("run_started", 0)>>
  <2>1. events \in Seq(Tellable) /\ events # <<>> /\ stream' = stream \o events
    <3>1. events \in Seq(Tellable) /\ events # <<>>
      BY EventIsTellable
    <3>2. CASE Emit(events)
      BY <3>1, <3>2 DEF Emit
    <3>3. CASE stream' = events
      <4>1. stream = <<>>
        BY <1>1 DEF StartRun, Tells
      <4> QED BY <3>1, <3>3, <4>1
    <3> QED BY <1>1, <3>1, <3>2, <3>3 DEF StartRun
  <2>2. /\ Telling(events, "closed") = {} /\ Telling(events, "merged") = {}
        /\ Telling(events, "halted") = {}
    BY TellingOne
  <2>3. /\ pc = "start" /\ pc' = "discover"
        /\ UNCHANGED <<queue, status, attempts, halted>>
    BY <1>1 DEF StartRun
  <2> HIDE DEF events
  <2> QED BY <2>1, <2>2, <2>3, TellsMore DEF Closing
<1>2. CASE SkipCandidate
  <2>1. /\ pc = "loop" /\ pc' = "record" /\ UNCHANGED <<queue, status, halted, stream>>
    BY <1>2 DEF SkipCandidate, AtCandidate, told
  <2>2. \A i \in DOMAIN attempts' :
          \/ i \in DOMAIN attempts /\ attempts'[i] = attempts[i]
          \/ attempts'[i].ending.request = "open"
    <3>1. /\ DOMAIN attempts = 1..(position - 1) /\ DOMAIN attempts' = 1..position
          /\ \A k \in 1..(position - 1) : attempts'[k] = attempts[k]
          /\ attempts'[position] = Attempted(position, Skipped)
      BY <1>2, AttemptIsMade DEF SkipCandidate
    <3>2. \A i \in DOMAIN attempts' : i = position \/ i \in DOMAIN attempts
      BY <3>1, QueueIsNumbered
    <3>3. Attempted(position, Skipped).ending.request = "open"
      BY DEF Attempted, Skipped, Ending
    <3> QED BY <3>1, <3>2, <3>3
  <2> QED BY <1>0, <2>1, <2>2, TellsMore DEF Closing
<1>3. CASE TellSkipped
  <2> DEFINE events == <<Event("skipped", position)>>
  <2>1. /\ pc = "tell" /\ pc' \in {"close", "loop"} /\ Emit(events)
        /\ UNCHANGED <<queue, status, attempts, halted>>
    BY <1>3 DEF TellSkipped, GoOn
  <2>2. events \in Seq(Tellable) /\ stream' = stream \o events
    <3>1. position \in Numbers
      BY <2>1 DEF Counted, AtAttempt
    <3> QED BY <2>1, <3>1, EventIsTellable DEF Emit
  <2>3. /\ Telling(events, "closed") = {} /\ Telling(events, "merged") = {}
        /\ Telling(events, "halted") = {}
    BY TellingOne
  <2> HIDE DEF events
  <2> QED BY <2>1, <2>2, <2>3, TellsMore DEF Closing
<1>4. CASE CloseSuperseded
  <2> DEFINE events == <<Event("closed", position)>>
  <2>1. /\ pc = "close" /\ pc' = "loop" /\ Emit(events) /\ ForgeCloses
        /\ UNCHANGED <<queue, attempts, halted>>
    BY <1>4 DEF CloseSuperseded, GoOn
  <2>2. /\ position \in Numbers /\ status[position] # "merged"
    <3>1. /\ position \in Numbers /\ attempts[position].ending = Skipped
      BY <2>1 DEF Counted, AtAttempt, SetAside
    <3> QED BY <2>1, <3>1 DEF StatusIsTheEnding, Skipped, Ending
  <2>3. events \in Seq(Tellable) /\ stream' = stream \o events
    BY <2>1, <2>2, EventIsTellable DEF Emit
  <2>4. /\ Telling(events, "closed") = {position} /\ Telling(events, "merged") = {}
        /\ Telling(events, "halted") = {}
    BY TellingOne
  <2>5. /\ \A i \in DOMAIN queue : status'[i] = status[i] \/ status[i] = "open"
        /\ {position} \subseteq On("closed")'
    <3>1. status' = [status EXCEPT ![position] = "closed"]
      BY <2>1 DEF ForgeCloses
    <3>2. status[position] \in {"open", "closed"}
      BY <1>0, <2>2
    <3> QED BY <1>0, <2>1, <2>2, <3>1, <3>2 DEF On
  <2> HIDE DEF events
  <2> QED BY <2>1, <2>3, <2>4, <2>5, TellsMore DEF Closing
<1>5. CASE CloseFails
  <2>1. /\ pc = "close" /\ pc' = "loop" /\ (status' = status \/ ForgeCloses)
        /\ UNCHANGED <<queue, attempts, halted, stream>>
    BY <1>5 DEF CloseFails, GoOn, told
  <2>2. /\ position \in Numbers /\ status[position] # "merged"
    <3>1. /\ position \in Numbers /\ attempts[position].ending = Skipped
      BY <2>1 DEF Counted, AtAttempt, SetAside
    <3> QED BY <2>1, <3>1 DEF StatusIsTheEnding, Skipped, Ending
  <2>3. \A i \in DOMAIN queue : status'[i] = status[i] \/ status[i] = "open"
    BY <1>0, <2>1, <2>2 DEF ForgeCloses
  <2> QED BY <1>0, <2>1, <2>3, TellsMore DEF Closing
<1>6. CASE Process
  <2>1. PICK e \in IF dryRun THEN {WouldMerge, Skipped, Failed} ELSE Outcomes :
          /\ attempts' = Append(attempts, Attempted(position, e))
          /\ status' = [status EXCEPT ![position] = SoFar(e.request)]
          /\ \E events \in Told(e) : Emit(events)
    BY <1>6 DEF Process
  <2>2. PICK events \in Told(e) : Emit(events)
    BY <2>1
  <2>3. /\ pc = "loop" /\ pc' = "record" /\ UNCHANGED <<queue, halted>>
        /\ position \in Numbers /\ Len(attempts) = position - 1
        /\ DOMAIN attempts = 1..(position - 1) /\ DOMAIN attempts' = 1..position
        /\ \A k \in 1..(position - 1) : attempts'[k] = attempts[k]
    BY <1>6, AttemptIsMade
  <2>4. /\ e \in Endings \cup {WouldMerge}
        /\ ~e.halted /\ e.request = "merged" => e.verdict # "error"
    BY EndingIsKnown
  <2>5. attempts'[position].ending = e
    <3>1. Attempted(position, e) \in Attempt /\ Attempted(position, e).ending = e
      BY <2>3, <2>4 DEF Attempted, Attempt
    <3>2. attempts \in Seq(Attempt) /\ Len(attempts) + 1 = position
      BY <2>3, QueueIsNumbered DEF TypeOK, Attempt
    <3>3. attempts'[Len(attempts) + 1] = Attempted(position, e)
      BY <2>1, <3>1, <3>2, Adding
    <3> QED BY <3>1, <3>2, <3>3
  <2>6. /\ events \in Seq(Tellable) /\ events # <<>>
        /\ Telling(events, "closed") = {} /\ Telling(events, "halted") = {}
        /\ Telling(events, "merged") \subseteq
             IF e.request # "merged" THEN {} ELSE {position}
        /\ e.request = "merged" /\ e.verdict # "error" =>
             position \in Telling(events, "merged")
    BY <2>2, <2>3, AttemptTells
  <2>7. \A i \in DOMAIN attempts' : i = position \/ i \in DOMAIN attempts
    BY <2>3, QueueIsNumbered
  <2>8. status[position] = "open"
    <3>1. position \notin DOMAIN attempts
      BY <2>3, QueueIsNumbered
    <3> QED BY <1>0, <2>3, <3>1 DEF StatusIsTheEnding
  <2>9. /\ \A i \in DOMAIN queue : status'[i] = status[i] \/ status[i] = "open"
        /\ Telling(events, "merged") \subseteq On("merged")'
    <3>1. status'[position] = SoFar(e.request)
          /\ \A i \in Numbers \ {position} : status'[i] = status[i]
      BY <1>0, <2>1, <2>3
    <3> QED BY <1>0, <2>3, <2>6, <2>8, <3>1 DEF On, SoFar
  <2>10. \A i \in DOMAIN attempts' :
           \/ i \in DOMAIN attempts /\ attempts'[i] = attempts[i]
           \/ attempts'[i].ending.request # "merged"
           \/ attempts'[i].ending.halted
           \/ i \in Telling(events, "merged")
    BY <2>3, <2>4, <2>5, <2>6, <2>7
  <2>11. stream' = stream \o events
    BY <2>2 DEF Emit
  <2> QED BY <2>3, <2>6, <2>9, <2>10, <2>11, TellsMore DEF Closing
<1>7. CASE Crash
  <2>1. /\ pc' = "dead" /\ UNCHANGED <<queue, attempts, halted>>
    BY <1>7 DEF Crash
  <2>2. CASE UNCHANGED <<status, stream>>
    BY <1>0, <2>1, <2>2, TellsMore DEF Closing
  <2>3. CASE ~UNCHANGED <<status, stream>>
    <3>1. /\ AtCandidate
          /\ \/ /\ Emit(<<Event("assessed", position)>>)
                /\ status' \in {status, [status EXCEPT ![position] = "merged"]}
             \/ /\ Emit(<<Event("assessed", position), Event("merged", position)>>)
                /\ status' = [status EXCEPT ![position] = "merged"]
      <4>1. AtCandidate
        BY <1>7, <2>3 DEF Crash, told
      <4>2. CASE status' = status
        BY <1>7, <2>3, <4>1, <4>2 DEF Crash, told
      <4>3. CASE status' # status
        BY <1>7, <2>3, <4>1, <4>3 DEF Crash, told
      <4> QED BY <4>1, <4>2, <4>3
    <3>2. /\ position \in Numbers /\ pc = "loop" /\ Len(attempts) = position - 1
          /\ position \notin DOMAIN attempts
      <4>1. position \in Numbers /\ pc = "loop" /\ Len(attempts) = position - 1
        BY <1>0, <3>1 DEF AtCandidate, Counted, AtAttempt, AtEnd
      <4>2. attempts \in Seq(Attempt)
        BY DEF TypeOK, Attempt
      <4> QED BY <4>1, <4>2, QueueIsNumbered
    <3>3. status[position] = "open"
      BY <1>0, <3>2 DEF StatusIsTheEnding
    <3>4. \A i \in DOMAIN queue : status'[i] = status[i] \/ status[i] = "open"
      BY <1>0, <3>1, <3>2, <3>3
    <3>5. CASE Emit(<<Event("assessed", position)>>)
      <4> DEFINE events == <<Event("assessed", position)>>
      <4>1. events \in Seq(Tellable) /\ stream' = stream \o events
        BY <3>2, <3>5, EventIsTellable DEF Emit
      <4>2. /\ Telling(events, "closed") = {} /\ Telling(events, "merged") = {}
            /\ Telling(events, "halted") = {}
        BY TellingOne
      <4> HIDE DEF events
      <4> QED BY <2>1, <3>2, <3>4, <4>1, <4>2, TellsMore DEF Closing
    <3>6. CASE /\ Emit(<<Event("assessed", position), Event("merged", position)>>)
               /\ status' = [status EXCEPT ![position] = "merged"]
      <4> DEFINE events == <<Event("assessed", position), Event("merged", position)>>
      <4>1. events \in Seq(Tellable) /\ stream' = stream \o events
        BY <3>2, <3>6, EventIsTellable DEF Emit
      <4>2. /\ Telling(events, "closed") = {} /\ Telling(events, "merged") = {position}
            /\ Telling(events, "halted") = {}
        BY DEF Telling, Event
      <4>3. {position} \subseteq On("merged")'
        BY <1>0, <2>1, <3>2, <3>6 DEF On
      <4> HIDE DEF events
      <4> QED BY <2>1, <3>2, <3>4, <4>1, <4>2, <4>3, TellsMore DEF Closing
    <3> QED BY <3>1, <3>5, <3>6
  <2> QED BY <2>2, <2>3
<1>8. CASE Finish
  <2>1. /\ pc = "finish" /\ pc' = "finishRow"
        /\ UNCHANGED <<queue, status, attempts, halted>>
    BY <1>8 DEF Finish
  <2>2. CASE ~halted
    <3>1. stream' = stream
      BY <1>8, <2>2 DEF Finish, told
    <3> QED BY <1>0, <2>1, <2>2, <3>1, TellsMore DEF Closing
  <2>3. CASE halted
    <3> DEFINE events == <<Event("halted", 0)>>
    <3>1. events \in Seq(Tellable) /\ stream' = stream \o events
      BY <1>8, <2>3, EventIsTellable DEF Finish, Emit
    <3>2. Telling(events, "closed") = {} /\ Telling(events, "merged") = {}
      BY TellingOne
    <3>3. events = <<Event("halted", 0)>>
      OBVIOUS
    <3> HIDE DEF events
    <3> QED BY <2>1, <2>3, <3>1, <3>2, <3>3, TellsMore DEF Closing
  <2> QED BY <2>2, <2>3
<1>9. CASE LastWord
  <2> DEFINE events == <<Event("run_finished", 0)>>
  <2>1. /\ pc = "end" /\ pc' = "done" /\ Emit(events)
        /\ UNCHANGED <<queue, status, attempts, halted>>
    BY <1>9 DEF LastWord
  <2>2. events \in Seq(Tellable) /\ stream' = stream \o events
    BY <2>1, EventIsTellable DEF Emit
  <2>3. /\ Telling(events, "closed") = {} /\ Telling(events, "merged") = {}
        /\ Telling(events, "halted") = {}
    BY TellingOne
  <2> HIDE DEF events
  <2> QED BY <2>1, <2>2, <2>3, TellsMore DEF Closing
<1>10. CASE AfterAttempt
  <2>1. /\ pc = "next" /\ pc' \in {"finish", "loop"}
        /\ UNCHANGED <<queue, status, attempts, stream>>
    BY <1>10 DEF AfterAttempt, GoOn, told
  <2> QED BY <1>0, <2>1, TellsMore DEF Closing
<1>11. CASE Discover \/ LeaveLoop \/ Record \/ FinishRun \/ Interrupt \/ UNCHANGED vars
  <2>1. /\ UNCHANGED <<queue, status, attempts, stream, halted>>
        /\ \/ pc' = pc
           \/ pc \in {"discover", "loop"} /\ pc' \in {"loop", "finish"}
           \/ pc = "record" /\ pc' \in {"tell", "next"}
           \/ pc = "finishRow" /\ pc' = "end"
    BY <1>11 DEF Discover, LeaveLoop, Record, FinishRun, Interrupt, vars, told
  <2> QED BY <1>0, <2>1, TellsMore DEF Closing
<1>12. CASE UnansweredLands
  <2>1. /\ \A i \in DOMAIN queue : status'[i] = status[i] \/ status[i] = "open"
        /\ UNCHANGED <<queue, pc, attempts, stream, halted>>
    BY <1>0, <1>12, LandsOnce
  <2> QED BY <1>0, <2>1, TellsMore DEF Closing
<1> QED BY <1>1, <1>2, <1>3, <1>4, <1>5, <1>6, <1>7, <1>8, <1>9, <1>10, <1>11, <1>12
        DEF Next, Program, Finished

(* Every step keeps the stream the record of the run.                      *)
LEMMA NextStream ==
  ASSUME TypeOK, Tells, StreamIsTheRecord, [Next]_vars,
         TypeOK', Counted', StatusIsTheEnding', Tells'
  PROVE  StreamIsTheRecord'
<1>1. pc' = "done" /\ ~halted' =>
        (On("merged") \ Unanswered)' \subseteq Telling(stream', "merged")
  <2> SUFFICES ASSUME pc' = "done", ~halted', NEW i \in (On("merged") \ Unanswered)'
               PROVE  i \in Telling(stream', "merged")
    OBVIOUS
  <2>1. /\ i \in DOMAIN attempts' /\ attempts'[i].ending.request # "open"
        /\ attempts'[i].ending.request # "underway"
    BY DEF On, Numbers, StatusIsTheEnding, Unanswered
  <2>2. attempts'[i].ending \in Endings \cup {WouldMerge}
    <3> DEFINE Kind == [number : Numbers', ending : Endings \cup {WouldMerge}]
    <3>1. attempts' \in Seq(Kind)
      BY DEF TypeOK
    <3>2. \A kept \in Kind : kept.ending \in Endings \cup {WouldMerge}
      OBVIOUS
    <3> HIDE DEF Kind
    <3>3. attempts'[i] \in Kind
      BY <2>1, <3>1
    <3> QED BY <3>2, <3>3
  <2>3. attempts'[i].ending.request = "merged"
    BY <2>1, <2>2 DEF Endings, WouldMerge, Ending
  <2>4. ~attempts'[i].ending.halted
    BY <2>1 DEF Counted
  <2> QED BY <2>1, <2>3, <2>4 DEF Tells
<1>2. pc' = "done" => /\ stream'[Len(stream')].kind = "run_finished"
                      /\ halted' <=> stream'[Len(stream') - 1].kind = "halted"
  <2>1. CASE LastWord
    <3>1. /\ pc = "end" /\ halted' = halted
          /\ stream' = stream \o <<Event("run_finished", 0)>>
      BY <2>1 DEF LastWord, Emit
    <3>2. stream \in Seq(Tellable) /\ stream # <<>> /\ Len(stream) \in Nat
      BY <3>1 DEF TypeOK, Tells
    <3>3. Event("run_finished", 0) \in Tellable /\ Event("run_finished", 0).kind = "run_finished"
      BY EventIsTellable DEF Event
    <3>4. /\ Len(stream') = Len(stream) + 1 /\ Len(stream) > 0
          /\ stream'[Len(stream) + 1] = Event("run_finished", 0)
          /\ stream'[Len(stream)] = stream[Len(stream)]
      BY <3>1, <3>2, <3>3, LastOfMore
    <3>5. halted <=> stream[Len(stream)].kind = "halted"
      <4>1. CASE halted
        BY <3>1, <4>1 DEF Tells
      <4>2. CASE ~halted
        <5>1. Telling(stream, "halted") = {}
          BY <4>2 DEF Tells
        <5>2. Len(stream) \in DOMAIN stream
          BY <3>2, <3>4
        <5> QED BY <4>2, <5>1, <5>2 DEF Telling
      <4> QED BY <4>1, <4>2
    <3>6. Len(stream') - 1 = Len(stream)
      BY <3>2, <3>4
    <3> QED BY <3>1, <3>3, <3>4, <3>5, <3>6
  <2>2. CASE ~LastWord
    <3>1. pc' = "done" => pc = "done" /\ UNCHANGED <<stream, halted>>
      BY <2>2, LandsOnce DEF Next, Program, StartRun, Discover, LeaveLoop, SkipCandidate, TellSkipped,
         CloseSuperseded, CloseFails, Process, Record, AfterAttempt, Finish, FinishRun,
         Interrupt, Crash, UnansweredLands, Finished, vars, told, GoOn
    <3> QED BY <3>1 DEF StreamIsTheRecord
  <2> QED BY <2>1, <2>2
<1> QED BY <1>1, <1>2 DEF StreamIsTheRecord, Tells

-----------------------------------------------------------------------------
(* The history.                                                            *)

(* A run begins unknown to the history.                                    *)
LEMMA InitRemembered == Init => Remembered
<1> SUFFICES ASSUME Init PROVE Remembered
  OBVIOUS
<1>1. pc = "start" /\ row = "none" /\ recorded = {} /\ attempts = <<>>
  BY DEF Init
<1> QED BY <1>1 DEF Remembered, MissesFaults

(* Attempts with a row are counted.                                        *)
LEMMA RecordedIsFinite ==
  ASSUME TypeOK
  PROVE  /\ IsFiniteSet(recorded) /\ Cardinality(recorded) \in Nat
         /\ \A n \in Numbers \ recorded :
              Cardinality(recorded \cup {n}) = Cardinality(recorded) + 1
<1>1. recorded \subseteq 1..Len(queue) /\ Len(queue) \in Nat
  BY QueueIsNumbered DEF TypeOK
<1>2. IsFiniteSet(1..Len(queue))
  BY <1>1, FS_Interval
<1>3. IsFiniteSet(recorded)
  BY <1>1, <1>2, FS_Subset
<1> QED BY <1>3, FS_CardinalityType, FS_AddElement

(* A step that leaves the history as it is, and attempts nothing.          *)
LEMMA HistoryStays ==
  ASSUME TypeOK, Remembered, Counted, faults' \in {faults, faults + 1},
         UNCHANGED <<row, recorded, attempts, halted>>, cancelled => cancelled',
         pc # "record", pc' # "record", pc' # "start",
         pc = "start" => pc' = "dead",
         pc \in {"done", "dead"} => pc' = pc,
         pc' \in {"end", "done"} => pc \in {"end", "done"},
         pc \in {"end", "done"} => pc' \in {"end", "done", "dead"}
  PROVE  Remembered'
<1>1. faults \in Nat /\ Len(attempts) \in Nat /\ Cardinality(recorded) \in Nat
      /\ faults' >= faults /\ faults' \in Nat
  BY RecordedIsFinite DEF TypeOK
<1>2. MissesFaults'
  <2>1. pc' # "dead" => pc # "dead"
    OBVIOUS
  <2>2. MissesFaults
    BY DEF Remembered
  <2>3. row # "none" /\ pc # "dead" => Len(attempts) <= Cardinality(recorded) + faults
    BY <2>2 DEF MissesFaults
  <2>4. row # "none" /\ pc # "dead" => Len(attempts) <= Cardinality(recorded) + faults'
    BY <1>1, <2>3
  <2> QED BY <2>1, <2>4 DEF MissesFaults
<1>3. faults' = 0 => faults = 0
  BY <1>1
<1> QED BY <1>2, <1>3 DEF Remembered

(* Every step keeps what the history misses within the writes that failed. *)
LEMMA NextRemembered ==
  ASSUME TypeOK, Counted, FileHasNoHole, Remembered, [Next]_vars
  PROVE  Remembered'
<1>0. /\ faults \in Nat /\ Len(attempts) \in Nat /\ Cardinality(recorded) \in Nat
      /\ DOMAIN attempts = 1..Len(attempts) /\ position \in Nat
  BY RecordedIsFinite, QueueIsNumbered DEF TypeOK
<1>a. faults' \in {faults, faults + 1}
  BY NextTold
<1>1. CASE StartRun
  <2>1. /\ pc = "start" /\ pc' = "discover" /\ row = "none" /\ attempts = <<>>
        /\ ~halted /\ recorded = {}
        /\ UNCHANGED <<cancelled, attempts, halted, recorded>>
    BY <1>1 DEF StartRun, Remembered, Counted, AtEnd
  <2>2. \/ row' = "started"
        \/ row' = "none" /\ (cancelled \/ faults' = faults + 1)
    BY <1>1, <2>1 DEF StartRun, StoreFails
  <2>3. Len(attempts) = 0
    BY <2>1
  <2>4. faults' = 0 /\ row' = "none" => cancelled
    BY <1>0, <2>2
  <2>5. MissesFaults'
    BY <1>0, <1>a, <2>1, <2>3 DEF MissesFaults
  <2> QED BY <2>1, <2>2, <2>4, <2>5 DEF Remembered
<1>2. CASE SkipCandidate \/ Process
  <2>1. /\ position \in Numbers /\ pc = "loop" /\ pc' = "record" /\ ~cancelled
        /\ Len(attempts) = position - 1 /\ Len(attempts') = position
        /\ DOMAIN attempts = 1..(position - 1) /\ DOMAIN attempts' = 1..position
        /\ UNCHANGED <<position, halted, row, recorded>>
    BY <1>2, AttemptIsMade DEF history
  <2>2. recorded \subseteq DOMAIN attempts' /\ position \notin recorded
    BY <1>0, <2>1 DEF Remembered
  <2>3. row = "none" => faults # 0
    BY <2>1 DEF Remembered
  <2>4. faults' # 0 \/ faults = 0
    BY <1>0, <1>a
  <2>5. MissesFaults'
    <3>1. row # "none" => position - 1 <= Cardinality(recorded) + faults
      BY <1>0, <2>1 DEF Remembered, MissesFaults
    <3>2. row # "none" => position <= Cardinality(recorded) + faults' + 1
      BY <1>0, <1>a, <3>1
    <3> QED BY <2>1, <3>2 DEF MissesFaults
  <2>6. row \notin {"finished", "halted"}
    BY <2>1 DEF Remembered
  <2> QED BY <2>1, <2>2, <2>3, <2>4, <2>5, <2>6 DEF Remembered
<1>3. CASE Record
  <2>1. /\ pc = "record" /\ pc' \in {"tell", "next"}
        /\ UNCHANGED <<position, attempts, halted, row>>
        /\ (cancelled => cancelled')
        /\ position \in Numbers /\ Len(attempts) = position /\ position \notin recorded
    BY <1>3 DEF Record, Counted, AtAttempt, Remembered
  <2>2. /\ row = "none" => recorded' = recorded
        /\ row # "none" =>
             \/ recorded' = recorded \cup {position}
             \/ recorded' = recorded /\ faults' = faults + 1
    BY <1>3 DEF Record, Outliving, StoreFails
  <2>3. Cardinality(recorded \cup {position}) = Cardinality(recorded) + 1
    BY <2>1, RecordedIsFinite
  <2>4. MissesFaults'
    <3>1. row # "none" => Len(attempts) <= Cardinality(recorded) + faults + 1
      BY <2>1 DEF Remembered, MissesFaults
    <3>2. row # "none" => Len(attempts) <= Cardinality(recorded') + faults'
      <4> SUFFICES ASSUME row # "none"
                   PROVE  Len(attempts) <= Cardinality(recorded') + faults'
        OBVIOUS
      <4>1. CASE recorded' = recorded \cup {position}
        <5>1. Cardinality(recorded') = Cardinality(recorded) + 1
          BY <2>3, <4>1
        <5> QED BY <1>0, <1>a, <3>1, <5>1
      <4>2. CASE recorded' = recorded /\ faults' = faults + 1
        BY <1>0, <3>1, <4>2
      <4> QED BY <2>2, <4>1, <4>2
    <3> QED BY <2>1, <3>2 DEF MissesFaults
  <2>5. recorded' \subseteq DOMAIN attempts'
    <3>1. position \in 1..Len(queue) /\ Len(queue) \in Nat
      BY <2>1, QueueIsNumbered DEF TypeOK
    <3>2. position \in DOMAIN attempts
      BY <1>0, <2>1, <3>1
    <3>3. recorded \subseteq DOMAIN attempts
      BY DEF Remembered
    <3> QED BY <2>1, <2>2, <3>2, <3>3
  <2>6. row = "none" => (recorded' = {} /\ (faults' = 0 => attempts = <<>> /\ cancelled))
    <3>1. faults' = 0 => faults = 0
      BY <1>0, <1>a
    <3> QED BY <2>1, <2>2, <3>1 DEF Remembered
  <2>7. row \notin {"finished", "halted"}
    BY <2>1 DEF Remembered
  <2> QED BY <2>1, <2>4, <2>5, <2>6, <2>7 DEF Remembered
<1>4. CASE FinishRun
  <2>1. /\ pc = "finishRow" /\ pc' = "end"
        /\ UNCHANGED <<attempts, halted, recorded, cancelled>>
        /\ \/ row = "none" /\ row' = "none"
           \/ row # "none" /\ row' = IF halted THEN "halted" ELSE "finished"
           \/ row # "none" /\ row' = row /\ faults' = faults + 1
    BY <1>4 DEF FinishRun, Outliving, StoreFails
  <2>2. row \notin {"finished", "halted"}
    BY <2>1 DEF Remembered
  <2>3. MissesFaults'
    <3>1. row # "none" => Len(attempts) <= Cardinality(recorded) + faults
      BY <1>0, <2>1 DEF Remembered, MissesFaults
    <3>2. row # "none" => Len(attempts) <= Cardinality(recorded) + faults'
      BY <1>0, <1>a, <3>1
    <3>3. row' # "none" => row # "none"
      BY <2>1
    <3> QED BY <2>1, <3>2, <3>3 DEF MissesFaults
  <2>4. (faults' = 0 => faults = 0) /\ (faults' = faults + 1 => faults' # 0)
    BY <1>0, <1>a
  <2> QED BY <2>1, <2>2, <2>3, <2>4 DEF Remembered
<1>5. CASE Interrupt
  <2>1. /\ cancelled' = TRUE
        /\ UNCHANGED <<pc, position, attempts, halted, row, recorded, faults>>
    BY <1>5 DEF Interrupt, history
  <2>2. MissesFaults'
    BY <2>1 DEF Remembered, MissesFaults
  <2> QED BY <2>1, <2>2 DEF Remembered
<1>6. CASE UNCHANGED vars
  BY <1>6 DEF vars, history, Remembered, MissesFaults
<1>7. CASE Crash
  <2>1. /\ pc' = "dead" /\ pc \notin {"done", "dead"}
        /\ UNCHANGED <<attempts, halted, row, recorded, cancelled>>
    BY <1>7 DEF Crash, history
  <2> QED BY <2>1 DEF Remembered, MissesFaults
<1>8. CASE Discover \/ LeaveLoop \/ TellSkipped \/ CloseSuperseded \/ CloseFails \/ AfterAttempt
           \/ Finish \/ LastWord
  <2>1. /\ UNCHANGED <<row, recorded, attempts, cancelled>>
        /\ pc \in {"discover", "loop", "tell", "close", "next", "finish", "end"}
        /\ pc' \in {"loop", "close", "finish", "finishRow", "done"}
        /\ pc = "end" <=> pc' = "done"
        /\ ~halted \/ halted' = halted
    BY <1>8 DEF Discover, LeaveLoop, TellSkipped, CloseSuperseded, CloseFails,
         AfterAttempt, Finish, LastWord, GoOn, history
  <2>2. CASE halted' = halted
    BY <1>a, <2>1, <2>2, HistoryStays
  <2>3. CASE halted' # halted
    <3>1. ~halted /\ pc = "next" /\ pc' = "finish" /\ halted' /\ faults' = faults
      BY <1>8, <2>3 DEF Discover, LeaveLoop, TellSkipped, CloseSuperseded, CloseFails,
           AfterAttempt, Finish, LastWord
    <3>2. row \notin {"finished", "halted"}
      BY <3>1 DEF Remembered
    <3>3. MissesFaults'
      BY <1>0, <2>1, <3>1 DEF Remembered, MissesFaults
    <3> QED BY <2>1, <3>1, <3>2, <3>3 DEF Remembered
  <2> QED BY <2>2, <2>3
<1>9. CASE UnansweredLands
  BY <1>9, LandsOnce DEF Remembered, MissesFaults
<1> QED BY <1>1, <1>2, <1>3, <1>4, <1>5, <1>6, <1>7, <1>8, <1>9 DEF Next, Program, Finished

-----------------------------------------------------------------------------
(* The theorems.                                                           *)

(* Every reachable state satisfies the inductive invariant.                *)
THEOREM Invariance == Spec => []IInv
<1>1. Init => IInv
  <2>1. Init => ClosesTheSuperseded
    BY DEF Init, ClosesTheSuperseded, Numbers
  <2> QED BY <2>1, InitType, InitCounted, InitTells, InitRemembered DEF IInv
<1>2. IInv /\ [Next]_vars => IInv'
  <2> SUFFICES ASSUME IInv, [Next]_vars PROVE IInv'
    OBVIOUS
  <2>0. /\ TypeOK /\ Counted /\ SetAside /\ StatusIsTheEnding /\ ClosesTheSuperseded
        /\ FileHasNoHole /\ Tells /\ StreamIsTheRecord /\ Remembered
    BY DEF IInv
  <2>1. TypeOK'
    BY <2>0, NextType
  <2>2. FileHasNoHole'
    BY <2>0, NextTold
  <2>3. Counted' /\ SetAside'
    BY <2>0, NextCounted, NextSetAside
  <2>4. StatusIsTheEnding'
    BY <2>0, NextStatus
  <2>5. Tells'
    BY <2>0, NextTells
  <2>6. StreamIsTheRecord'
    BY <2>0, <2>1, <2>3, <2>4, <2>5, NextStream
  <2>7. Remembered'
    BY <2>0, NextRemembered
  <2>8. ClosesTheSuperseded'
    BY <2>0, NextCloses
  <2> QED BY <2>1, <2>2, <2>3, <2>4, <2>5, <2>6, <2>7, <2>8 DEF IInv
<1> QED BY <1>1, <1>2, PTL DEF Spec

(* Every variable keeps its type.                                          *)
THEOREM TypeCorrect == Spec => []TypeOK
<1>1. IInv => TypeOK
  BY DEF IInv
<1> QED BY <1>1, Invariance, PTL

(* A pull request is closed for a rival that stays: the newer one wherever *)
(* the versions of the queue can be ordered, and some one anyhow.          *)
THEOREM NoUpdateIsLostToAClose == Spec => []NoUpdateIsLost
<1>1. IInv => NoUpdateIsLost
  <2> SUFFICES ASSUME IInv, NEW i \in DOMAIN queue, status[i] = "closed"
               PROVE  \E j \in DOMAIN queue :
                        /\ status[j] # "closed" /\ Rivals(queue[i], queue[j])
                        /\ (\A k \in DOMAIN queue : Fits(queue[k].version)) =>
                             ReplacedBy(queue[i], queue[j])
    BY DEF NoUpdateIsLost
  <2>1. /\ Len(queue) \in Nat /\ DOMAIN queue = 1..Len(queue)
        /\ \A k \in DOMAIN queue : Readable(queue[k].version)
    BY QueueIsNumbered, CandidateAssumption DEF IInv, TypeOK, Numbers
  <2>2. i \in Superseded(queue)
    BY DEF IInv, ClosesTheSuperseded, Numbers
  <2>3. PICK j \in DOMAIN queue \ Superseded(queue) :
          /\ Rivals(queue[i], queue[j])
          /\ (\A k \in DOMAIN queue : Fits(queue[k].version)) => ReplacedBy(queue[i], queue[j])
    BY <2>1, <2>2, SupersededHasARival
  <2>4. status[j] # "closed"
    BY <2>3 DEF IInv, ClosesTheSuperseded, Numbers
  <2> QED BY <2>3, <2>4
<1> QED BY <1>1, Invariance, PTL

(* Run.Attempts accounts for the queue in its order.                       *)
THEOREM EveryCandidateIsAccountedFor == Spec => []QueueIsAccountedFor
<1>1. IInv => QueueIsAccountedFor
  <2> SUFFICES ASSUME IInv PROVE QueueIsAccountedFor
    OBVIOUS
  <2>1. Counted /\ position \in Nat /\ Len(queue) \in Nat
    BY QueueIsNumbered DEF IInv
  <2>2. ASSUME pc = "done", ~halted, ~cancelled, attempts # <<>>
        PROVE  Len(attempts) = Len(queue)
    <3>1. position = Len(queue) + 1
      BY <2>1, <2>2 DEF Counted, AtEnd
    <3>2. Len(attempts) = position - 1
      BY <2>1, <2>2 DEF Counted, AtAttempt
    <3> QED BY <2>1, <3>1, <3>2
  <2> QED BY <2>1, <2>2 DEF Counted, QueueIsAccountedFor
<1> QED BY <1>1, Invariance, PTL

(* The event file is a prefix of what the run emitted, wherever a write    *)
(* fails.                                                                  *)
THEOREM TheFileHasNoHole == Spec => []FileHasNoHole
<1>1. IInv => FileHasNoHole
  BY DEF IInv
<1> QED BY <1>1, Invariance, PTL

(* The stream tells of the writes made and of no other.                    *)
THEOREM TheStreamIsTheRecord == Spec => []StreamIsTheRecord
<1>1. IInv => StreamIsTheRecord
  BY DEF IInv
<1> QED BY <1>1, Invariance, PTL

(* The history misses no more attempts than writes failed.                 *)
THEOREM HistoryIsComplete == Spec => []HistoryMissesOnlyFaults
<1>1. IInv => HistoryMissesOnlyFaults
  <2> SUFFICES ASSUME IInv PROVE HistoryMissesOnlyFaults
    OBVIOUS
  <2>0. TypeOK /\ Counted /\ Remembered
    BY DEF IInv
  <2>1. /\ faults \in Nat /\ Cardinality(recorded) \in Nat
        /\ Len(attempts) \in Nat /\ DOMAIN attempts = 1..Len(attempts)
    BY <2>0, RecordedIsFinite DEF TypeOK
  <2>2. recorded \subseteq {attempts[k].number : k \in DOMAIN attempts}
    BY <2>0 DEF Remembered, Counted
  <2>3. row = "none" => recorded = {}
    BY <2>0 DEF Remembered
  <2>4. ASSUME pc \notin {"record", "dead"}, Len(attempts) - Cardinality(recorded) > faults
        PROVE  row = "none" /\ faults > 0
    <3>1. row # "none" => Len(attempts) <= Cardinality(recorded) + faults
      BY <2>0, <2>4 DEF Remembered, MissesFaults
    <3>2. ~(Len(attempts) <= Cardinality(recorded) + faults)
      BY <2>1, <2>4
    <3>3. row = "none"
      BY <3>1, <3>2
    <3>4. Len(attempts) # 0
      BY <2>1, <3>2
    <3>5. attempts # <<>>
      BY <3>4
    <3>6. faults # 0
      BY <2>0, <2>4, <3>3, <3>5 DEF Remembered, Counted
    <3> QED BY <2>1, <3>3, <3>6
  <2> QED BY <2>2, <2>3, <2>4 DEF HistoryMissesOnlyFaults
<1> QED BY <1>1, Invariance, PTL

(* A run the history shows as unfinished died, or could not be written.    *)
THEOREM UnfinishedRunsDied == Spec => []UnfinishedMeansDied
<1>1. IInv => UnfinishedMeansDied
  <2> SUFFICES ASSUME IInv PROVE UnfinishedMeansDied
    OBVIOUS
  <2>1. Remembered /\ faults \in Nat
    BY DEF IInv, TypeOK
  <2>2. faults # 0 => faults > 0
    BY <2>1
  <2> QED BY <2>1, <2>2 DEF Remembered, UnfinishedMeansDied
<1> QED BY <1>1, Invariance, PTL

(* A dry run leaves every pull request as it found it.                     *)
THEOREM DryRunIsDry == Spec => DryRunWritesNothing
<1>1. IInv /\ IInv' /\ [Next]_vars => [dryRun => UNCHANGED status]_vars
  <2> SUFFICES ASSUME IInv, IInv', [Next]_vars, dryRun
               PROVE  status' = status
    OBVIOUS
  <2>1. dryRun' /\ queue' = queue
    BY DEF Next, Program, StartRun, Discover, LeaveLoop, SkipCandidate, TellSkipped,
       CloseSuperseded, CloseFails, Process, Record, AfterAttempt, Finish, FinishRun,
       LastWord, Interrupt, Crash, UnansweredLands, Finished, vars
  <2>2. /\ status \in [DOMAIN queue -> {"open", "merged", "closed"}]
        /\ status' \in [DOMAIN queue -> {"open", "merged", "closed"}]
    BY <2>1 DEF IInv, TypeOK
  <2>3. \A i \in DOMAIN queue : status[i] = "open" /\ status'[i] = "open"
    BY <2>1 DEF IInv, StatusIsTheEnding, Numbers
  <2> QED BY <2>2, <2>3
<1> QED BY <1>1, Invariance, PTL DEF Spec, DryRunWritesNothing
=============================================================================
