-------------------------- MODULE ForgeClientProofs --------------------------
(***************************************************************************)
(* What the run may take the forge client for, for every length of a       *)
(* listing, every retry schedule and every forge: its calls implement the  *)
(* promise of MergeCall, a merge is not asked for again while an earlier   *)
(* request is unheard of, curable faults do not fail a read, and the walk  *)
(* of a listing that shifts under it is no worse than what shifted it.     *)
(***************************************************************************)
EXTENDS ForgeClient, TLAPS, FiniteSetTheorems, SequenceTheorems, WellFoundedInduction

(* What the forge has made of the pull request, as far as answers tell. *)
ForgeOK ==
  /\ mergedAt \in {{}, {"assessed"}, {"later"}} /\ head \in {"assessed", "later"}
  /\ wire = "merged" => mergedAt # {}
  /\ orphan \in BOOLEAN /\ cancelled \in BOOLEAN

(* One request at a time: a PUT is on its way only while it is waited for, *)
(* and one that was given up on is never followed by another.              *)
OneAtATime ==
  /\ wire # "empty" => pc = "wire"
  /\ orphan => pc \in {"readBack", "done"} \/ (pc \in {"read", "pause"} /\ reading = "state")
  /\ answer = "none" <=> pc # "done"
  /\ pc \in {"merge", "wire", "backoff", "readBack"} => reading = "state"
  /\ reading \in {"page", "state"}
  /\ pc = "listed" => reading = "page"

(* The PUTs of a merge are counted before the next one is sent. *)
PutsCounted ==
  /\ puts \in Nat
  /\ reading = "page" => puts = 0
  /\ pc \in {"merge", "wire", "backoff"} => puts < MergeabilityAttempts

(* Every try of a read so far met a fault worth another; only a context    *)
(* that was cancelled is outlived.                                         *)
TriesCounted ==
  /\ tries \in Nat /\ blips = tries
  /\ pc \in {"read", "pause"} => tries < MaxAttempts
  /\ outlives => cancelled

IInv == ForgeOK /\ OneAtATime /\ PutsCounted /\ TriesCounted /\ BlipsAreAbsorbed

USE ClientAssumption

(* Before the first page nothing has been asked, counted or answered. *)
LEMMA InitIInv == Init => IInv
<1> SUFFICES ASSUME Init PROVE IInv
  OBVIOUS
<1>1. ForgeOK /\ OneAtATime /\ BlipsAreAbsorbed
  BY DEF Init, ForgeOK, OneAtATime, BlipsAreAbsorbed
<1>2. PutsCounted /\ TriesCounted
  BY DEF Init, PutsCounted, TriesCounted
<1> QED BY <1>1, <1>2 DEF IInv

-----------------------------------------------------------------------------
(* Where a call has got to is the run's own business: nobody else touches  *)
(* it, and what was interrupted stays interrupted.                         *)
LEMMA RunIsItsOwn ==
  ASSUME Environment
  PROVE  /\ pc' = pc /\ reading' = reading /\ answer' = answer /\ puts' = puts
         /\ tries' = tries /\ blips' = blips /\ hopeless' = hopeless
         /\ outlives' = outlives /\ (cancelled => cancelled')
<1> USE DEF schedule
<1>1. CASE Opens
  BY <1>1 DEF Opens
<1>2. CASE Closes
  BY <1>2 DEF Closes
<1>3. CASE Pushes \/ Computes \/ OthersMerge
  BY <1>3 DEF Pushes, Computes, OthersMerge
<1>4. CASE CarriesOut
  BY <1>4 DEF CarriesOut
<1>5. CASE Refuses
  BY <1>5 DEF Refuses
<1>6. CASE Interrupt
  BY <1>6 DEF Interrupt
<1>7. CASE ReadIsSlow
  BY <1>7 DEF ReadIsSlow
<1> QED BY <1>1, <1>2, <1>3, <1>4, <1>5, <1>6, <1>7 DEF Environment

(* A head is merged once, and the answer that says so comes after it. *)
LEMMA ForgeOKStep == ASSUME IInv, [Next]_vars PROVE ForgeOK'
<1> USE DEF IInv, ForgeOK, OneAtATime
<1>1. CASE Read
  BY <1>1 DEF Read, ReadBlips, ReadIsHopeless, ReadIsCut, Pause, ReadPage, ReadState,
              wires, pull
<1>2. CASE HandOver \/ SendPut \/ Backoff \/ ReadBack
  BY <1>2 DEF HandOver, SendPut, Backoff, ReadBack, wires, pull
<1>3. CASE HearsPut
  BY <1>3 DEF HearsPut, Hear, HearMerged, HearHeadModified, HearPending, HearRefusal,
              HearNothing, pull
<1>4. CASE CarriesOut
  BY <1>4 DEF CarriesOut
<1>5. CASE Refuses
  BY <1>5 DEF Refuses, pull
<1>6. CASE Opens \/ Closes \/ Computes \/ Interrupt \/ ReadIsSlow
  BY <1>6 DEF Opens, Closes, Computes, Interrupt, ReadIsSlow, wires, pull
<1>7. CASE OthersMerge \/ Pushes
  BY <1>7 DEF OthersMerge, Pushes, wires
<1>8. CASE UNCHANGED vars
  BY <1>8 DEF vars, wires, pull
<1> QED BY <1>1, <1>2, <1>3, <1>4, <1>5, <1>6, <1>7, <1>8
           DEF Next, Program, Environment, Finished

(* The steps of the run follow one another; nobody else takes them. *)
LEMMA OneAtATimeStep == ASSUME IInv, [Next]_vars PROVE OneAtATime'
<1> USE DEF IInv, OneAtATime, Done
<1>1. CASE ReadBlips \/ ReadIsHopeless \/ ReadIsCut \/ Pause
  BY <1>1 DEF ReadBlips, ReadIsHopeless, ReadIsCut, Pause, ReadErrs, WaitsFor, wires
<1>2. CASE ReadPage
  BY <1>2 DEF ReadPage, ReadErrs, BeginRead, wires, walk
<1>3. CASE ReadState
  BY <1>3 DEF ReadState, wires
<1>4. CASE HandOver \/ SendPut \/ Backoff \/ ReadBack
  BY <1>4 DEF HandOver, SendPut, Backoff, ReadBack, BeginRead, wires
<1>5. CASE HearsPut
  BY <1>5 DEF HearsPut, Hear, HearMerged, HearHeadModified, HearPending, HearRefusal,
              HearNothing
<1>6. CASE CarriesOut \/ Refuses
  BY <1>6 DEF CarriesOut, Refuses
<1>7. CASE Opens \/ Closes \/ Computes \/ Interrupt \/ ReadIsSlow \/ OthersMerge \/ Pushes
  <2>1. wire' = wire /\ orphan' = orphan
    BY <1>7 DEF Opens, Closes, Computes, Interrupt, ReadIsSlow, OthersMerge, Pushes, wires
  <2> QED BY <1>7, <2>1, RunIsItsOwn DEF Environment
<1>8. CASE UNCHANGED vars
  BY <1>8 DEF vars, wires
<1> QED BY <1>1, <1>2, <1>3, <1>4, <1>5, <1>6, <1>7, <1>8
           DEF Next, Program, Environment, Finished, Read

(* A PUT is counted when its answer is waited out. *)
LEMMA PutsCountedStep == ASSUME IInv, [Next]_vars PROVE PutsCounted'
<1> USE DEF IInv, PutsCounted, OneAtATime, Done
<1>1. CASE ReadBlips \/ ReadIsHopeless \/ ReadIsCut \/ Pause
  BY <1>1 DEF ReadBlips, ReadIsHopeless, ReadIsCut, Pause, ReadErrs, WaitsFor
<1>2. CASE ReadPage
  BY <1>2 DEF ReadPage, ReadErrs, BeginRead
<1>3. CASE ReadState
  BY <1>3 DEF ReadState
<1>4. CASE HandOver \/ SendPut \/ ReadBack
  BY <1>4 DEF HandOver, SendPut, ReadBack, BeginRead
<1>5. CASE Backoff
  BY <1>5 DEF Backoff
<1>6. CASE HearsPut
  BY <1>6 DEF HearsPut, Hear, HearMerged, HearHeadModified, HearPending, HearRefusal,
              HearNothing
<1>7. CASE Environment
  BY <1>7, RunIsItsOwn
<1>8. CASE UNCHANGED vars
  BY <1>8 DEF vars
<1> QED BY <1>1, <1>2, <1>3, <1>4, <1>5, <1>6, <1>7, <1>8
           DEF Next, Program, Finished, Read

(* A try and the fault it met are counted in one step, and a read begins   *)
(* with none of either.                                                    *)
LEMMA TriesCountedStep == ASSUME IInv, [Next]_vars PROVE TriesCounted'
<1> USE DEF IInv, ForgeOK, TriesCounted, Done
<1>1. CASE ReadBlips
  BY <1>1 DEF ReadBlips, ReadErrs, WaitsFor, LastTry
<1>2. CASE ReadIsHopeless \/ ReadIsCut
  BY <1>2 DEF ReadIsHopeless, ReadIsCut, ReadErrs
<1>3. CASE Pause
  BY <1>3 DEF Pause, ReadErrs
<1>4. CASE ReadPage
  <2>1. \/ tries' = tries /\ blips' = blips
        \/ tries' = 0 /\ blips' = 0
    BY <1>4 DEF ReadPage, BeginRead, schedule
  <2>2. pc' \in {"done", "listed"} \/ tries' = 0
    BY <1>4 DEF ReadPage, ReadErrs, BeginRead
  <2>3. outlives' = outlives /\ cancelled' = cancelled
    BY <1>4 DEF ReadPage
  <2> QED BY <2>1, <2>2, <2>3
<1>5. CASE ReadState \/ HandOver \/ SendPut \/ Backoff \/ ReadBack
  BY <1>5 DEF ReadState, HandOver, SendPut, Backoff, ReadBack, BeginRead, schedule
<1>6. CASE HearsPut
  BY <1>6 DEF HearsPut, Hear, HearMerged, HearHeadModified, HearPending, HearRefusal,
              HearNothing, schedule
<1>7. CASE Environment
  BY <1>7, RunIsItsOwn
<1>8. CASE UNCHANGED vars
  BY <1>8 DEF vars, schedule
<1> QED BY <1>1, <1>2, <1>3, <1>4, <1>5, <1>6, <1>7, <1>8
           DEF Next, Program, Finished, Read

(* A read gives up after its last try, on a fault no other would cure, or  *)
(* with its context; afterwards nothing is counted any more.               *)
LEMMA BlipsStep == ASSUME IInv, [Next]_vars PROVE BlipsAreAbsorbed'
<1> USE DEF IInv, ForgeOK, OneAtATime, TriesCounted, BlipsAreAbsorbed, Done
<1>1. CASE ReadBlips
  BY <1>1 DEF ReadBlips, ReadErrs, WaitsFor, LastTry, FitsBeforeDeadline
<1>2. CASE ReadIsHopeless \/ ReadIsCut \/ Pause
  BY <1>2 DEF ReadIsHopeless, ReadIsCut, Pause, ReadErrs, Expired
<1>3. CASE ReadPage
  BY <1>3 DEF ReadPage, ReadErrs, BeginRead
<1>4. CASE ReadState \/ HandOver \/ SendPut \/ Backoff \/ ReadBack
  BY <1>4 DEF ReadState, HandOver, SendPut, Backoff, ReadBack, BeginRead
<1>5. CASE HearsPut
  BY <1>5 DEF HearsPut, Hear, HearMerged, HearHeadModified, HearPending, HearRefusal,
              HearNothing
<1>6. CASE Environment
  BY <1>6, RunIsItsOwn
<1>7. CASE UNCHANGED vars
  BY <1>7 DEF vars, schedule
<1> QED BY <1>1, <1>2, <1>3, <1>4, <1>5, <1>6, <1>7
           DEF Next, Program, Finished, Read

(* The inductive invariant of the client holds in every reachable state. *)
THEOREM Invariance == Spec => []IInv
<1>1. IInv /\ [Next]_vars => IInv'
  BY ForgeOKStep, OneAtATimeStep, PutsCountedStep, TriesCountedStep, BlipsStep DEF IInv
<1> QED BY InitIInv, <1>1, PTL DEF Spec

-----------------------------------------------------------------------------
(* A read that fails on a live context met a fault no retry could cure, or *)
(* used up its schedule.                                                   *)
THEOREM Absorbed == Spec => []BlipsAreAbsorbed
<1>1. IInv => BlipsAreAbsorbed
  BY DEF IInv
<1> QED BY Invariance, <1>1, PTL

(* A PUT is sent again only after an answer that refused the one before,   *)
(* and no more often than a merge may.                                     *)
THEOREM NeverReplayed == Spec => NoReplay
<1>1. IInv /\ [Next]_vars =>
        (pc = "merge" /\ pc' = "wire" => ~Unheard /\ puts < MergeabilityAttempts)
  BY DEF IInv, OneAtATime, PutsCounted, Unheard
<1> QED BY Invariance, <1>1, PTL DEF Spec, NoReplay

-----------------------------------------------------------------------------
(* The refinement: what each step of the client is to mergeAndWatch. *)

(* A read tells the state of the pull request, or nothing. *)
LEMMA ReadsRefine == ASSUME IInv, Read PROVE [Call!Next]_(Call!vars)
<1> USE DEF IInv, ForgeOK, OneAtATime, Done, wires, pull, Call!vars
<1>1. CASE ReadBlips \/ ReadIsHopeless \/ ReadIsCut \/ Pause
  BY <1>1 DEF ReadBlips, ReadIsHopeless, ReadIsCut, Pause, ReadErrs, WaitsFor,
              Call!Next, Call!Answer
<1>2. CASE ReadPage
  BY <1>2 DEF ReadPage, ReadErrs, BeginRead, Call!Next, Call!Answer
<1>3. CASE ReadState
  BY <1>3 DEF ReadState, Call!Next, Call!Answer
<1> QED BY <1>1, <1>2, <1>3 DEF Read

(* A PUT orders the merge; its answer tells what became of it, and one     *)
(* that is not heard leaves the order standing or drops it.                *)
LEMMA MergeRefines ==
  ASSUME IInv, HandOver \/ SendPut \/ HearsPut \/ Backoff \/ ReadBack
  PROVE  [Call!Next]_(Call!vars)
<1> USE DEF IInv, ForgeOK, OneAtATime, Done, Hear, wires, pull, Call!vars
<1>1. CASE HandOver \/ Backoff \/ ReadBack
  BY <1>1 DEF HandOver, Backoff, ReadBack, BeginRead
<1>2. CASE SendPut
  BY <1>2 DEF SendPut, Call!Next, Call!Order
<1>3. CASE HearMerged \/ HearHeadModified
  BY <1>3 DEF HearMerged, HearHeadModified, Call!Next, Call!Answer
<1>4. CASE HearPending \/ HearRefusal
  BY <1>4 DEF HearPending, HearRefusal
<1>5. CASE HearNothing
  BY <1>5 DEF HearNothing, Call!Next, Call!Drop
<1> QED BY <1>1, <1>2, <1>3, <1>4, <1>5 DEF HearsPut

(* The forge carries an order out or drops it, and others merge. *)
LEMMA EnvironmentRefines == ASSUME IInv, Environment PROVE [Call!Next]_(Call!vars)
<1> USE DEF IInv, ForgeOK, OneAtATime, wires, pull, Call!vars
<1>1. CASE CarriesOut
  BY <1>1 DEF CarriesOut, Call!Next, Call!Land
<1>2. CASE Refuses
  BY <1>2 DEF Refuses, Call!Next, Call!Drop
<1>3. CASE OthersMerge
  BY <1>3 DEF OthersMerge, Call!Next, Call!OthersMerge
<1>4. CASE Opens \/ Closes \/ Pushes \/ Computes \/ Interrupt \/ ReadIsSlow
  BY <1>4 DEF Opens, Closes, Pushes, Computes, Interrupt, ReadIsSlow
<1> QED BY <1>1, <1>2, <1>3, <1>4 DEF Environment

(* However often the client has to ask, mergeAndWatch sees one call: a     *)
(* merge at most once, at the assessed head or by others, and an answer    *)
(* that is true of the forge when it is given, or in doubt.                *)
THEOREM ClientKeepsPromise == Spec => KeepsPromise
<1>1. Init => Call!Init
  BY DEF Init, Call!Init
<1>2. IInv /\ [Next]_vars => [Call!Next]_(Call!vars)
  <2> SUFFICES ASSUME IInv, [Next]_vars PROVE [Call!Next]_(Call!vars)
    OBVIOUS
  <2>1. CASE UNCHANGED vars
    BY <2>1 DEF vars, wires, pull, Call!vars
  <2> QED BY <2>1, ReadsRefine, MergeRefines, EnvironmentRefines
             DEF Next, Program, Finished
<1> QED BY Invariance, <1>1, <1>2, PTL DEF Spec, KeepsPromise, Call!Spec

-----------------------------------------------------------------------------
(* The walk of a listing. *)

(* How far down the listing the walk has come. *)
Covered == (IF pc = "listed" THEN page ELSE page - 1) * PageSize

(* Those of a listing that a walk has passed without meeting them ... *)
MissedOf(listing, open, met, upTo) ==
  {n \in open \ Unwanted :
     n \notin ToSet(met) /\ \E i \in DOMAIN listing : i <= upTo /\ listing[i] = n}

(* ... and those it has met and may meet again. *)
AheadOf(listing, met, upTo) ==
  {n \in ToSet(met) : \E i \in DOMAIN listing : i > upTo /\ listing[i] = n}

Issued == 1..(Existing + opened)

(* The listing, newest first, is of different pull requests. *)
Listed ==
  /\ opened \in Nat /\ closed \in Nat /\ page \in Nat \ {0}
  /\ collection \in Seq(Issued) /\ IsInjective(collection)
  /\ standing \subseteq 1..Existing /\ standing \subseteq ToSet(collection)
  /\ result \in Seq(Issued)

(* Each close or opening so far has cost an entry at most. *)
Paid ==
  /\ Cardinality(MissedOf(collection, standing, result, Covered)) <= closed
  /\ Len(result) + Cardinality(AheadOf(collection, result, Covered))
       <= opened + Cardinality(ToSet(result))
  /\ pc = "listed" => Len(collection) <= Covered

(* The ledger of a walk, from its first page to the whole list: inductive  *)
(* with the rest of the invariant.                                         *)
WalkCounted == reading = "page" /\ pc # "done" => Listed /\ Paid

(* The least of a set of naturals.                                         *)
LEMMA LeastNatural ==
  ASSUME NEW T, T \subseteq Nat, T # {}
  PROVE  \E m \in T : \A n \in T : m <= n
<1> DEFINE R == OpToRel(<, Nat)
<1>1. IsWellFoundedOn(R, Nat)
  BY NatLessThanWellFounded
<1>2. \A i, j \in Nat : i < j => <<i, j>> \in R
  BY DEF OpToRel
<1> HIDE DEF R
<1>3. PICK m \in T : \A n \in T : ~(<<n, m>> \in R)
  BY <1>1, WFMin
<1>4. ASSUME NEW n \in T, ~(m <= n) PROVE FALSE
  <2>1. m \in Nat /\ n \in Nat
    OBVIOUS
  <2>2. n < m
    BY <1>4, <2>1
  <2> QED BY <1>2, <1>3, <2>1, <2>2
<1> QED BY <1>4

(* A sequence, its elements and how many they are.                         *)
LEMMA ElementsAreFinite ==
  ASSUME NEW n \in Nat, NEW s \in Seq(1..n)
  PROVE  /\ ToSet(s) \subseteq 1..n /\ IsFiniteSet(ToSet(s))
         /\ Cardinality(ToSet(s)) \in Nat
<1>1. ToSet(s) \subseteq 1..n
  BY DEF ToSet
<1>2. IsFiniteSet(1..n)
  BY FS_Interval
<1> QED BY <1>1, <1>2, FS_Subset, FS_CardinalityType

(* An element more.                                                        *)
LEMMA Appended ==
  ASSUME NEW S, NEW s \in Seq(S), NEW x \in S
  PROVE  /\ Append(s, x) \in Seq(S) /\ Len(Append(s, x)) = Len(s) + 1
         /\ ToSet(Append(s, x)) = ToSet(s) \cup {x}
<1>1. /\ Append(s, x) \in Seq(S) /\ Len(Append(s, x)) = Len(s) + 1 /\ Len(s) \in Nat
      /\ DOMAIN s = 1..Len(s) /\ DOMAIN Append(s, x) = 1..(Len(s) + 1)
      /\ \A i \in 1..Len(s) : Append(s, x)[i] = s[i]
      /\ Append(s, x)[Len(s) + 1] = x
  OBVIOUS
<1>2. \A i \in 1..(Len(s) + 1) : i \in 1..Len(s) \/ i = Len(s) + 1
  BY <1>1
<1>3. \A i \in 1..Len(s) : i \in 1..(Len(s) + 1)
  BY <1>1
<1>4. Len(s) + 1 \in 1..(Len(s) + 1)
  BY <1>1
<1> QED BY <1>1, <1>2, <1>3, <1>4 DEF ToSet

(* ListOpen keeps every entry of a page that is wanted, once.              *)
LEMMA VisitedOnce ==
  ASSUME NEW S, NEW s \in Seq(S), IsInjective(s)
  PROVE  /\ Visited(s) \in Seq(S)
         /\ ToSet(Visited(s)) = ToSet(s) \ Unwanted
         /\ IsFiniteSet(ToSet(s) \ Unwanted)
         /\ Len(Visited(s)) = Cardinality(ToSet(s) \ Unwanted)
<1> DEFINE N == Len(s)
           Step(i, held) == IF i = 0 THEN <<>>
                            ELSE IF s[i] \in Unwanted THEN held ELSE Append(held, s[i])
           Found(g, n) == g = [i \in 0..n |-> Step(i, g[i - 1])]
           unfound == {n \in 0..N : \A g : ~Found(g, n)}
<1>0. N \in Nat /\ DOMAIN s = 1..N /\ \A i \in 1..N : s[i] \in S
  OBVIOUS
<1>1. \E g : Found(g, N)
  <2> SUFFICES ASSUME \A g : ~Found(g, N) PROVE FALSE
    OBVIOUS
  <2> HIDE DEF Step
  <2>1. unfound # {} /\ unfound \subseteq Nat
    <3>1. N \in 0..N
      BY <1>0
    <3> QED BY <1>0, <3>1
  <2>2. PICK n \in unfound : \A m \in unfound : n <= m
    <3> HIDE DEF unfound
    <3> QED BY <2>1, LeastNatural
  <2>3. n \in 0..N /\ \A g : ~Found(g, n)
    OBVIOUS
  <2>4. CASE n = 0
    <3> DEFINE g == [i \in 0..0 |-> <<>>]
    <3>1. Found(g, 0)
      BY DEF Step
    <3> QED BY <2>3, <2>4, <3>1
  <2>5. CASE n # 0
    <3>1. n - 1 \in 0..N /\ ~(n <= n - 1) /\ n \in Nat
      BY <1>0, <2>3, <2>5
    <3>2. n - 1 \notin unfound
      <4> HIDE DEF unfound
      <4> QED BY <2>2, <3>1
    <3>3. PICK g : Found(g, n - 1)
      <4> HIDE DEF Found
      <4> QED BY <3>1, <3>2
    <3> DEFINE h == [i \in 0..n |-> IF i = n THEN Step(n, g[n - 1]) ELSE g[i]]
    <3>a. \A i \in 0..(n - 1) : i \in 0..n /\ i # n
      BY <3>1
    <3>b. g = [i \in 0..(n - 1) |-> Step(i, g[i - 1])]
      BY <3>3
    <3>4. \A i \in 0..(n - 1) : h[i] = g[i] /\ g[i] = Step(i, g[i - 1])
      BY <3>a, <3>b
    <3>5. \A i \in 0..n : h[i] = Step(i, h[i - 1])
      <4> SUFFICES ASSUME NEW i \in 0..n PROVE h[i] = Step(i, h[i - 1])
        OBVIOUS
      <4>1. CASE i = n
        <5>1. h[n] = Step(n, g[n - 1]) /\ h[n - 1] = g[n - 1]
          BY <3>1, <3>4, <2>5
        <5> QED BY <4>1, <5>1
      <4>2. CASE i # n /\ i # 0
        <5>1. i \in 0..(n - 1) /\ i - 1 \in 0..(n - 1)
          BY <3>1, <4>2
        <5> QED BY <3>4, <5>1
      <4>3. CASE i # n /\ i = 0
        <5>1. 0 \in 0..(n - 1)
          BY <3>1, <4>3, <2>5
        <5> QED BY <3>4, <4>3, <5>1 DEF Step
      <4> QED BY <4>1, <4>2, <4>3
    <3>6. Found(h, n)
      BY <3>5
    <3> QED BY <2>3, <3>6
  <2> QED BY <2>4, <2>5
<1>2. DEFINE kept == CHOOSE g : Found(g, N)
<1>3. Found(kept, N)
  BY <1>1
<1>4. Visited(s) = kept[N]
  BY DEF Visited
<1> HIDE DEF kept
<1>a. \A i \in 0..N : kept[i] = Step(i, kept[i - 1])
  <2> HIDE DEF Step
  <2> QED BY <1>3
<1>5. /\ kept[0] = <<>>
      /\ \A i \in 1..N : kept[i] = IF s[i] \in Unwanted THEN kept[i - 1]
                                   ELSE Append(kept[i - 1], s[i])
  <2>1. 0 \in 0..N /\ \A i \in 1..N : i \in 0..N /\ i # 0
    BY <1>0
  <2> QED BY <1>a, <2>1
<1> HIDE DEF Found, Step
<1> DEFINE some(i) == {s[k] : k \in 1..i} \ Unwanted
           fine(i) == /\ kept[i] \in Seq(S) /\ ToSet(kept[i]) = some(i)
                      /\ IsFiniteSet(some(i)) /\ Len(kept[i]) = Cardinality(some(i))
           wrong == {i \in 0..N : ~fine(i)}
<1>6. fine(0)
  <2>1. some(0) = {}
    OBVIOUS
  <2>2. ToSet(<<>>) = {} /\ Len(<<>>) = 0 /\ <<>> \in Seq(S)
    BY DEF ToSet
  <2> QED BY <1>5, <2>1, <2>2, FS_EmptySet
<1>7. ASSUME NEW n \in 1..N, fine(n - 1) PROVE fine(n)
  <2>1. n \in Nat /\ n - 1 \in Nat /\ \A k \in 1..n : k \in 1..(n - 1) \/ k = n
    BY <1>0
  <2>2. {s[k] : k \in 1..n} = {s[k] : k \in 1..(n - 1)} \cup {s[n]}
    BY <1>0, <2>1
  <2>3. CASE s[n] \in Unwanted
    <3>1. some(n) = some(n - 1) /\ kept[n] = kept[n - 1]
      BY <1>5, <2>2, <2>3
    <3> QED BY <1>7, <3>1
  <2>4. CASE s[n] \notin Unwanted
    <3>1. some(n) = some(n - 1) \cup {s[n]} /\ kept[n] = Append(kept[n - 1], s[n])
      BY <1>5, <2>2, <2>4
    <3>2. s[n] \notin some(n - 1)
      <4> SUFFICES ASSUME NEW k \in 1..(n - 1), s[k] = s[n] PROVE FALSE
        OBVIOUS
      <4>1. k \in DOMAIN s /\ n \in DOMAIN s /\ k # n
        BY <1>0, <2>1
      <4> QED BY <4>1 DEF IsInjective
    <3> DEFINE before == kept[n - 1]
    <3>3. before \in Seq(S) /\ s[n] \in S
      BY <1>0, <1>7
    <3> HIDE DEF before
    <3>4. /\ Append(before, s[n]) \in Seq(S) /\ Len(Append(before, s[n])) = Len(before) + 1
          /\ ToSet(Append(before, s[n])) = ToSet(before) \cup {s[n]}
      BY <3>3, Appended
    <3>5. IsFiniteSet(some(n - 1) \cup {s[n]})
          /\ Cardinality(some(n - 1) \cup {s[n]}) = Cardinality(some(n - 1)) + 1
      <4> DEFINE had == some(n - 1)
      <4>1. IsFiniteSet(had) /\ s[n] \notin had
        BY <1>7, <3>2
      <4> HIDE DEF had
      <4>2. IsFiniteSet(had \cup {s[n]})
            /\ Cardinality(had \cup {s[n]}) = Cardinality(had) + 1
        BY <4>1, FS_AddElement
      <4> QED BY <4>2 DEF had
    <3> QED BY <1>7, <3>1, <3>4, <3>5 DEF before
  <2> QED BY <2>3, <2>4
<1>8. fine(N)
  <2> HIDE DEF fine
  <2>a. N \in 0..N
    BY <1>0
  <2> SUFFICES ASSUME wrong # {} PROVE FALSE
    BY <2>a
  <2>1. PICK n \in wrong : \A m \in wrong : n <= m
    <3>1. wrong \subseteq Nat
      BY <1>0
    <3> HIDE DEF wrong
    <3> QED BY <3>1, LeastNatural
  <2>2. n \in 0..N /\ ~fine(n)
    OBVIOUS
  <2>3. n # 0
    BY <1>6, <2>2
  <2>4. n \in 1..N /\ n - 1 \in 0..N /\ ~(n <= n - 1)
    BY <1>0, <2>2, <2>3
  <2>5. fine(n - 1)
    BY <2>1, <2>4
  <2> QED BY <1>7, <2>2, <2>4, <2>5
<1>9. ToSet(s) = {s[k] : k \in 1..N}
  BY <1>0 DEF ToSet
<1> QED BY <1>4, <1>8, <1>9
-----------------------------------------------------------------------------
(* One entry more is one more to count. *)
LEMMA OneMore ==
  ASSUME NEW A, NEW B, NEW y, IsFiniteSet(A), B \subseteq A \cup {y}
  PROVE  /\ IsFiniteSet(B) /\ Cardinality(A) \in Nat /\ Cardinality(B) \in Nat
         /\ Cardinality(B) <= Cardinality(A) + 1
<1>1. /\ IsFiniteSet(A \cup {y})
      /\ Cardinality(A \cup {y}) <= Cardinality(A) + 1
  <2>1. CASE y \in A
    <3>1. A \cup {y} = A
      BY <2>1
    <3>2. Cardinality(A) \in Nat
      BY FS_CardinalityType
    <3>3. Cardinality(A) <= Cardinality(A) + 1
      BY <3>2
    <3> QED BY <3>1, <3>3
  <2>2. CASE y \notin A
    <3>1. IsFiniteSet(A \cup {y}) /\ Cardinality(A \cup {y}) = Cardinality(A) + 1
      BY <2>2, FS_AddElement
    <3>2. Cardinality(A) \in Nat
      BY FS_CardinalityType
    <3> QED BY <3>1, <3>2
  <2> QED BY <2>1, <2>2
<1>2. IsFiniteSet(B) /\ Cardinality(B) <= Cardinality(A \cup {y})
  BY <1>1, FS_Subset
<1>3. Cardinality(A) \in Nat /\ Cardinality(B) \in Nat /\ Cardinality(A \cup {y}) \in Nat
  BY <1>1, <1>2, FS_CardinalityType
<1> QED BY <1>1, <1>2, <1>3

(* What is left of a set without some of it, and two sets taken together.  *)
LEMMA WithoutAndWith ==
  ASSUME NEW A, NEW B, NEW C, NEW D, IsFiniteSet(A), IsFiniteSet(B), IsFiniteSet(C),
         B \cap C \subseteq A, D \subseteq A \ (B \cap C)
  PROVE  /\ IsFiniteSet(D)
         /\ Cardinality(D) + Cardinality(B) + Cardinality(C)
              <= Cardinality(A) + Cardinality(B \cup C)
<1> DEFINE E == B \cap C
<1>1. E \subseteq A /\ D \subseteq A \ E
  OBVIOUS
<1>2. /\ IsFiniteSet(B \cup C) /\ IsFiniteSet(B \cap C)
      /\ Cardinality(B \cup C) = Cardinality(B) + Cardinality(C) - Cardinality(B \cap C)
  <2>1. IsFiniteSet(B \cap C)
    BY FS_Intersection
  <2> QED BY <2>1, FS_Union
<1>3. IsFiniteSet(E) /\ Cardinality(B \cup C) = Cardinality(B) + Cardinality(C) - Cardinality(E)
  BY <1>2
<1> HIDE DEF E
<1>5. A \cap E = E
  BY <1>1
<1>4. IsFiniteSet(A \ E) /\ Cardinality(A \ E) = Cardinality(A) - Cardinality(E)
  BY <1>5, FS_Difference
<1>6. IsFiniteSet(D) /\ Cardinality(D) <= Cardinality(A \ E)
  BY <1>1, <1>4, FS_Subset
<1>7. /\ Cardinality(A) \in Nat /\ Cardinality(B) \in Nat /\ Cardinality(C) \in Nat
      /\ Cardinality(D) \in Nat /\ Cardinality(E) \in Nat /\ Cardinality(A \ E) \in Nat
  BY <1>3, <1>4, <1>6, FS_CardinalityType
<1> QED BY <1>3, <1>4, <1>6, <1>7

(* A new pull request pushes one entry, at most, back across the border.   *)
LEMMA OpeningPushes ==
  ASSUME NEW S, NEW c \in Seq(S), NEW x \in S, NEW open, NEW met, NEW k \in Nat,
         x \notin open, x \notin ToSet(met), IsInjective(c), x \notin ToSet(c)
  PROVE  LET d == <<x>> \o c
         IN  /\ d \in Seq(S) /\ IsInjective(d) /\ ToSet(d) = ToSet(c) \cup {x}
             /\ MissedOf(d, open, met, k) \subseteq MissedOf(c, open, met, k)
             /\ AheadOf(d, met, k) \subseteq AheadOf(c, met, k) \cup {c[k]}
<1> DEFINE d == <<x>> \o c
           N == Len(c)
<1>1. /\ N \in Nat /\ d \in Seq(S) /\ DOMAIN c = 1..N /\ DOMAIN d = 1..(N + 1) /\ d[1] = x
      /\ \A i \in 1..N : d[i + 1] = c[i]
  OBVIOUS
<1> HIDE DEF d, N
<1>2. \A i \in 1..(N + 1) : i # 1 => i - 1 \in 1..N /\ d[i] = c[i - 1]
  <2> SUFFICES ASSUME NEW i \in 1..(N + 1), i # 1 PROVE i - 1 \in 1..N /\ d[i] = c[i - 1]
    OBVIOUS
  <2>1. i - 1 \in 1..N /\ (i - 1) + 1 = i
    BY <1>1
  <2> QED BY <1>1, <2>1
<1>3. IsInjective(d)
  <2> SUFFICES ASSUME NEW i \in 1..(N + 1), NEW j \in 1..(N + 1), d[i] = d[j] PROVE i = j
    BY <1>1 DEF IsInjective
  <2>1. \A l \in 1..N : c[l] # x
    BY <1>1 DEF ToSet
  <2>2. CASE i = 1
    BY <1>1, <1>2, <2>1, <2>2
  <2>3. CASE j = 1
    BY <1>1, <1>2, <2>1, <2>3
  <2>4. CASE i # 1 /\ j # 1
    <3>1. i - 1 \in DOMAIN c /\ j - 1 \in DOMAIN c /\ c[i - 1] = c[j - 1]
      BY <1>1, <1>2, <2>4
    <3>2. i - 1 = j - 1
      BY <3>1 DEF IsInjective
    <3> QED BY <1>1, <3>2
  <2> QED BY <2>2, <2>3, <2>4
<1>4. ToSet(d) = ToSet(c) \cup {x}
  <2>1. \A i \in 1..N : i + 1 \in 1..(N + 1)
    BY <1>1
  <2>2. 1 \in 1..(N + 1)
    BY <1>1
  <2>3. \A i \in 1..(N + 1) : d[i] \in ToSet(c) \cup {x}
    <3> SUFFICES ASSUME NEW i \in 1..(N + 1) PROVE d[i] \in ToSet(c) \cup {x}
      OBVIOUS
    <3>1. CASE i = 1
      BY <1>1, <3>1
    <3>2. CASE i # 1
      <4>1. i - 1 \in DOMAIN c /\ d[i] = c[i - 1]
        BY <1>1, <1>2, <3>2
      <4> QED BY <4>1 DEF ToSet
    <3> QED BY <3>1, <3>2
  <2>4. \A i \in 1..N : c[i] \in ToSet(d)
    <3> SUFFICES ASSUME NEW i \in 1..N PROVE c[i] \in ToSet(d)
      OBVIOUS
    <3>1. i + 1 \in DOMAIN d /\ d[i + 1] = c[i]
      BY <1>1, <2>1
    <3> QED BY <3>1 DEF ToSet
  <2>5. x \in ToSet(d)
    BY <1>1, <2>2 DEF ToSet
  <2>6. ToSet(d) \subseteq ToSet(c) \cup {x}
    BY <1>1, <2>3 DEF ToSet
  <2>7. ToSet(c) \subseteq ToSet(d)
    BY <1>1, <2>4 DEF ToSet
  <2> QED BY <2>5, <2>6, <2>7
<1>5. ASSUME NEW n \in MissedOf(d, open, met, k) PROVE n \in MissedOf(c, open, met, k)
  <2>1. n \in open \ Unwanted /\ n \notin ToSet(met)
    BY DEF MissedOf
  <2>2. PICK i \in 1..(N + 1) : i <= k /\ d[i] = n
    BY <1>1 DEF MissedOf
  <2>3. i # 1
    BY <1>1, <2>1, <2>2
  <2>4. i - 1 \in 1..N /\ i - 1 <= k /\ c[i - 1] = n
    BY <1>1, <1>2, <2>2, <2>3
  <2> QED BY <1>1, <2>1, <2>4 DEF MissedOf
<1>6. ASSUME NEW n \in AheadOf(d, met, k) PROVE n \in AheadOf(c, met, k) \cup {c[k]}
  <2>1. n \in ToSet(met)
    BY DEF AheadOf
  <2>2. PICK i \in 1..(N + 1) : i > k /\ d[i] = n
    BY <1>1 DEF AheadOf
  <2>3. i # 1
    BY <1>1, <2>1, <2>2
  <2>4. i - 1 \in 1..N /\ c[i - 1] = n /\ (i - 1 > k \/ i - 1 = k)
    BY <1>1, <1>2, <2>2, <2>3
  <2> QED BY <1>1, <2>1, <2>4 DEF AheadOf
<1> QED BY <1>1, <1>3, <1>4, <1>5, <1>6 DEF d

(* A close draws one entry, at most, forward across the border.            *)
LEMMA ClosingDraws ==
  ASSUME NEW S, NEW c \in Seq(S), NEW l \in DOMAIN c, NEW open, NEW met, NEW k \in Nat,
         IsInjective(c)
  PROVE  LET d == RemoveAt(c, l)
         IN  /\ d \in Seq(S) /\ IsInjective(d) /\ ToSet(c) \ {c[l]} \subseteq ToSet(d)
             /\ MissedOf(d, open \ {c[l]}, met, k) \subseteq MissedOf(c, open, met, k) \cup {c[k + 1]}
             /\ AheadOf(d, met, k) \subseteq AheadOf(c, met, k)
<1> DEFINE d == RemoveAt(c, l)
           N == Len(c)
           from(j) == IF j < l THEN j ELSE j + 1
<1>1. /\ N \in Nat /\ DOMAIN c = 1..N /\ l \in 1..N /\ \A i \in 1..N : c[i] \in S
  OBVIOUS
<1>2. /\ d \in Seq(S) /\ DOMAIN d = 1..(N - 1)
      /\ \A j \in 1..(N - 1) : d[j] = c[from(j)]
  <2> DEFINE a == SubSeq(c, 1, l - 1)
             b == SubSeq(c, l + 1, N)
  <2>1. /\ a \in Seq(S) /\ Len(a) = l - 1 /\ \A j \in 1..(l - 1) : a[j] = c[j]
    BY <1>1
  <2>2. /\ b \in Seq(S) /\ Len(b) = N - l /\ \A j \in 1..(N - l) : b[j] = c[l + j]
    BY <1>1
  <2>3. d = a \o b
    BY DEF RemoveAt
  <2> HIDE DEF a, b, d, N
  <2>4. /\ d \in Seq(S) /\ Len(d) = N - 1 /\ DOMAIN d = 1..(N - 1)
        /\ \A j \in 1..(N - 1) : d[j] = IF j <= l - 1 THEN a[j] ELSE b[j - (l - 1)]
    <3>1. /\ a \o b \in Seq(S) /\ Len(a \o b) = Len(a) + Len(b)
          /\ DOMAIN (a \o b) = 1..(Len(a) + Len(b))
          /\ \A j \in 1..(Len(a) + Len(b)) : (a \o b)[j] = IF j <= Len(a) THEN a[j] ELSE b[j - Len(a)]
      <4>1. a \in Seq(S) /\ b \in Seq(S)
        BY <2>1, <2>2
      <4>2. /\ a \o b \in Seq(S) /\ Len(a \o b) = Len(a) + Len(b)
            /\ \A j \in 1..(Len(a) + Len(b)) : (a \o b)[j] = IF j <= Len(a) THEN a[j] ELSE b[j - Len(a)]
        BY <4>1, ConcatProperties
      <4>3. DOMAIN (a \o b) = 1..Len(a \o b)
        BY <4>2
      <4> QED BY <4>2, <4>3
    <3>2. Len(a) + Len(b) = N - 1
      BY <1>1, <2>1, <2>2
    <3> QED BY <2>1, <2>3, <3>1, <3>2
  <2>5. ASSUME NEW j \in 1..(N - 1) PROVE d[j] = c[from(j)]
    <3>1. CASE j < l
      <4>1. j <= l - 1 /\ j \in 1..(l - 1)
        BY <1>1, <3>1
      <4> QED BY <2>1, <2>4, <3>1, <4>1
    <3>2. CASE ~(j < l)
      <4>1. ~(j <= l - 1) /\ j - (l - 1) \in 1..(N - l) /\ l + (j - (l - 1)) = j + 1
        BY <1>1, <3>2
      <4>2. b[j - (l - 1)] = c[l + (j - (l - 1))]
        BY <2>2, <4>1
      <4> QED BY <2>4, <3>2, <4>1, <4>2
    <3> QED BY <3>1, <3>2
  <2> QED BY <2>4, <2>5
<1> HIDE DEF d, N
<1>3. \A j \in 1..(N - 1) : from(j) \in 1..N /\ from(j) # l /\ (from(j) = j \/ from(j) = j + 1)
  BY <1>1
<1>4. \A i, j \in 1..(N - 1) : from(i) = from(j) => i = j
  BY <1>1
<1>5. \A i \in 1..N : i # l => \E j \in 1..(N - 1) : from(j) = i
  <2> SUFFICES ASSUME NEW i \in 1..N, i # l PROVE \E j \in 1..(N - 1) : from(j) = i
    OBVIOUS
  <2>1. CASE i < l
    <3>1. i \in 1..(N - 1) /\ from(i) = i
      BY <1>1, <2>1
    <3> QED BY <3>1
  <2>2. CASE ~(i < l)
    <3>1. i - 1 \in 1..(N - 1) /\ from(i - 1) = i
      BY <1>1, <2>2
    <3> QED BY <3>1
  <2> QED BY <2>1, <2>2
<1> HIDE DEF from
<1>6. IsInjective(d)
  <2> SUFFICES ASSUME NEW i \in 1..(N - 1), NEW j \in 1..(N - 1), d[i] = d[j] PROVE i = j
    BY <1>2 DEF IsInjective
  <2>1. from(i) = from(j)
    BY <1>1, <1>2, <1>3 DEF IsInjective
  <2> QED BY <1>4, <2>1
<1>7. ToSet(c) \ {c[l]} \subseteq ToSet(d)
  <2> SUFFICES ASSUME NEW i \in 1..N, c[i] # c[l] PROVE c[i] \in ToSet(d)
    BY <1>1 DEF ToSet
  <2>1. PICK j \in 1..(N - 1) : from(j) = i
    BY <1>5
  <2> QED BY <1>2, <2>1 DEF ToSet
<1>8. ASSUME NEW n \in MissedOf(d, open \ {c[l]}, met, k)
      PROVE  n \in MissedOf(c, open, met, k) \cup {c[k + 1]}
  <2>1. n \in open \ Unwanted /\ n \notin ToSet(met)
    BY DEF MissedOf
  <2>2. PICK j \in 1..(N - 1) : j <= k /\ d[j] = n
    BY <1>2 DEF MissedOf
  <2>3. from(j) \in 1..N /\ c[from(j)] = n
    BY <1>2, <1>3, <2>2
  <2>4. from(j) <= k \/ from(j) = k + 1
    BY <1>3, <2>2
  <2> QED BY <1>1, <2>1, <2>3, <2>4 DEF MissedOf
<1>9. ASSUME NEW n \in AheadOf(d, met, k) PROVE n \in AheadOf(c, met, k)
  <2>1. n \in ToSet(met)
    BY DEF AheadOf
  <2>2. PICK j \in 1..(N - 1) : j > k /\ d[j] = n
    BY <1>2 DEF AheadOf
  <2>3. from(j) \in 1..N /\ c[from(j)] = n /\ from(j) > k
    BY <1>2, <1>3, <2>2
  <2> QED BY <1>1, <2>1, <2>3 DEF AheadOf
<1> QED BY <1>2, <1>6, <1>7, <1>8, <1>9 DEF d
(* Two sequences one after the other.                                      *)
LEMMA Joined ==
  ASSUME NEW S, NEW s \in Seq(S), NEW t \in Seq(S)
  PROVE  ToSet(s \o t) = ToSet(s) \cup ToSet(t)
<1> DEFINE u == s \o t
<1>1. /\ Len(s) \in Nat /\ Len(t) \in Nat /\ DOMAIN s = 1..Len(s) /\ DOMAIN t = 1..Len(t)
      /\ DOMAIN u = 1..(Len(s) + Len(t))
  <2>1. u \in Seq(S) /\ Len(u) = Len(s) + Len(t)
    BY ConcatProperties
  <2> QED BY <2>1
<1>2. \A i \in 1..(Len(s) + Len(t)) : u[i] = IF i <= Len(s) THEN s[i] ELSE t[i - Len(s)]
  BY ConcatProperties
<1> HIDE DEF u
<1>3. ASSUME NEW i \in DOMAIN u PROVE u[i] \in ToSet(s) \cup ToSet(t)
  <2>1. CASE i <= Len(s)
    <3>1. i \in DOMAIN s /\ u[i] = s[i]
      BY <1>1, <1>2, <2>1
    <3> QED BY <3>1 DEF ToSet
  <2>2. CASE ~(i <= Len(s))
    <3>1. i - Len(s) \in DOMAIN t /\ u[i] = t[i - Len(s)]
      BY <1>1, <1>2, <2>2
    <3> QED BY <3>1 DEF ToSet
  <2> QED BY <2>1, <2>2
<1>4. ASSUME NEW i \in DOMAIN s PROVE s[i] \in ToSet(u)
  <2>1. i \in DOMAIN u /\ u[i] = s[i]
    BY <1>1, <1>2
  <2> QED BY <2>1 DEF ToSet
<1>5. ASSUME NEW i \in DOMAIN t PROVE t[i] \in ToSet(u)
  <2>1. i + Len(s) \in DOMAIN u /\ u[i + Len(s)] = t[i]
    <3>1. i + Len(s) \in 1..(Len(s) + Len(t)) /\ ~(i + Len(s) <= Len(s)) /\ (i + Len(s)) - Len(s) = i
      BY <1>1
    <3> QED BY <1>1, <1>2, <3>1
  <2> QED BY <2>1 DEF ToSet
<1> QED BY <1>3, <1>4, <1>5 DEF ToSet, u

(* The entries of a listing between two borders.                           *)
Between(listing, k, m) ==
  SubSeq(listing, k + 1, IF m < Len(listing) THEN m ELSE Len(listing))

(* A page holds the entries between its borders, and reading it leaves     *)
(* behind none that is wanted.                                             *)
LEMMA PageIsMet ==
  ASSUME NEW S, NEW c \in Seq(S), IsInjective(c), NEW met \in Seq(S), NEW open,
         NEW k \in Nat, NEW m \in Nat, k <= m
  PROVE  LET W == ToSet(Between(c, k, m)) \ Unwanted
             all == met \o Visited(Between(c, k, m))
         IN  /\ all \in Seq(S) /\ ToSet(all) = ToSet(met) \cup W
             /\ IsFiniteSet(W) /\ Len(all) = Len(met) + Cardinality(W)
             /\ MissedOf(c, open, all, m) \subseteq MissedOf(c, open, met, k)
             /\ ToSet(met) \cap W \subseteq AheadOf(c, met, k)
             /\ AheadOf(c, all, m) \subseteq AheadOf(c, met, k) \ (ToSet(met) \cap W)
<1> DEFINE N == Len(c)
           top == IF m < N THEN m ELSE N
           P == Between(c, k, m)
           W == ToSet(P) \ Unwanted
           V == Visited(P)
           all == met \o V
<1>1. N \in Nat /\ DOMAIN c = 1..N /\ (\A i \in 1..N : c[i] \in S) /\ Len(met) \in Nat
  OBVIOUS
<1>2. top \in Nat /\ top <= N /\ top <= m /\ \A i \in 1..N : i <= m => i <= top
  BY <1>1
<1>3. P = SubSeq(c, k + 1, top)
  BY DEF Between
<1> HIDE DEF top, N, P
<1>a. /\ P \in Seq(S) /\ Len(P) = IF k + 1 <= top THEN top - k ELSE 0
      /\ \A i \in 1..Len(P) : P[i] = c[k + i]
  <2>1. /\ k + 1 \in Int /\ top \in Int /\ \A i \in (k + 1)..top : c[i] \in S
    BY <1>1, <1>2
  <2>2. /\ P \in Seq(S) /\ Len(P) = IF k + 1 <= top THEN top - (k + 1) + 1 ELSE 0
        /\ \A i \in 1..(top - (k + 1) + 1) : P[i] = c[(k + 1) + i - 1]
    BY <1>3, <2>1, SubSeqProperties
  <2>3. top - (k + 1) + 1 = top - k /\ \A i \in 1..(top - k) : (k + 1) + i - 1 = k + i
    BY <1>2
  <2>4. \A i \in 1..Len(P) : i \in 1..(top - k)
    BY <1>2, <2>2
  <2> QED BY <2>2, <2>3, <2>4
<1>b. Len(P) \in Nat /\ DOMAIN P = 1..Len(P)
  BY <1>a
<1>c. \A i \in 1..Len(P) : k + i \in 1..N /\ k + i <= m /\ k < k + i
  BY <1>1, <1>2, <1>a
<1>4. P \in Seq(S) /\ DOMAIN P = 1..Len(P) /\ Len(P) \in Nat
      /\ \A i \in 1..Len(P) : k + i \in 1..N /\ k + i <= m /\ P[i] = c[k + i]
  BY <1>a, <1>b, <1>c
<1>5. \A i \in 1..N : k < i /\ i <= m => i - k \in 1..Len(P) /\ k + (i - k) = i
  <2> SUFFICES ASSUME NEW i \in 1..N, k < i, i <= m PROVE i - k \in 1..Len(P) /\ k + (i - k) = i
    OBVIOUS
  <2>a. i <= top
    BY <1>2
  <2>1. i <= top /\ k + 1 <= top
    BY <1>1, <1>2, <2>a
  <2>2. Len(P) = top - k
    BY <1>a, <2>1
  <2> QED BY <1>1, <1>2, <2>1, <2>2
<1>6. IsInjective(P)
  <2> SUFFICES ASSUME NEW i \in 1..Len(P), NEW j \in 1..Len(P), P[i] = P[j] PROVE i = j
    BY <1>4 DEF IsInjective
  <2>1. k + i \in DOMAIN c /\ k + j \in DOMAIN c /\ c[k + i] = c[k + j]
    BY <1>1, <1>4
  <2>2. k + i = k + j
    BY <2>1 DEF IsInjective
  <2> QED BY <1>4, <2>2
<1>7. V \in Seq(S) /\ ToSet(V) = W /\ IsFiniteSet(W) /\ Len(V) = Cardinality(W)
  BY <1>4, <1>6, VisitedOnce
<1> HIDE DEF V
<1>8. all \in Seq(S) /\ Len(all) = Len(met) + Cardinality(W)
  <2>1. met \in Seq(S) /\ V \in Seq(S)
    BY <1>7
  <2>2. all \in Seq(S) /\ Len(all) = Len(met) + Len(V)
    BY <2>1, ConcatProperties
  <2> QED BY <1>7, <2>2
<1>9. ToSet(all) = ToSet(met) \cup ToSet(V)
  BY <1>7, Joined
<1>10. \A i \in 1..N : k < i /\ i <= m => c[i] \in ToSet(P)
  <2> SUFFICES ASSUME NEW i \in 1..N, k < i, i <= m PROVE c[i] \in ToSet(P)
    OBVIOUS
  <2>1. i - k \in DOMAIN P /\ P[i - k] = c[i]
    BY <1>4, <1>5
  <2> QED BY <2>1 DEF ToSet
<1>11. \A n \in ToSet(P) : \E i \in 1..N : k < i /\ i <= m /\ c[i] = n
  <2> SUFFICES ASSUME NEW n \in ToSet(P) PROVE \E i \in 1..N : k < i /\ i <= m /\ c[i] = n
    OBVIOUS
  <2>1. PICK j \in 1..Len(P) : n = P[j]
    BY <1>4 DEF ToSet
  <2>2. k + j \in 1..N /\ k + j <= m /\ k < k + j
    BY <1>c
  <2>3. c[k + j] = n
    BY <1>4, <2>1
  <2> QED BY <2>2, <2>3
<1> HIDE DEF all
<1>12. ASSUME NEW n \in MissedOf(c, open, all, m) PROVE n \in MissedOf(c, open, met, k)
  <2>1. n \in open \ Unwanted /\ n \notin ToSet(met) /\ n \notin ToSet(P)
    BY <1>7, <1>9 DEF MissedOf
  <2>2. PICK i \in 1..N : i <= m /\ c[i] = n
    BY <1>1 DEF MissedOf
  <2>3. ~(k < i)
    BY <1>10, <2>1, <2>2
  <2>4. i <= k
    BY <1>1, <2>3
  <2> QED BY <1>1, <2>1, <2>2, <2>4 DEF MissedOf
<1>13. ASSUME NEW n \in ToSet(met) \cap W PROVE n \in AheadOf(c, met, k)
  <2>1. PICK i \in 1..N : k < i /\ i <= m /\ c[i] = n
    BY <1>11
  <2>2. i > k
    BY <1>1, <2>1
  <2> QED BY <1>1, <2>1, <2>2 DEF AheadOf
<1>14. ASSUME NEW n \in AheadOf(c, all, m)
       PROVE  n \in AheadOf(c, met, k) /\ n \notin W
  <2>1. n \in ToSet(met) \cup W
    BY <1>7, <1>9 DEF AheadOf
  <2>2. PICK i \in 1..N : i > m /\ c[i] = n
    BY <1>1 DEF AheadOf
  <2>3. n \notin W
    <3> SUFFICES ASSUME n \in W PROVE FALSE
      OBVIOUS
    <3>1. PICK j \in 1..N : k < j /\ j <= m /\ c[j] = n
      BY <1>11
    <3>2. i = j
      BY <1>1, <2>2, <3>1 DEF IsInjective
    <3> QED BY <1>1, <2>2, <3>1, <3>2
  <2>4. i > k
    BY <1>1, <2>2
  <2> QED BY <1>1, <2>1, <2>2, <2>3, <2>4 DEF AheadOf
<1> QED BY <1>7, <1>8, <1>9, <1>12, <1>13, <1>14 DEF all, V, P
(* A sequence over a set is one over any larger set.                       *)
LEMMA Wider == ASSUME NEW S, NEW T, S \subseteq T, NEW s \in Seq(S) PROVE s \in Seq(T)
<1>1. Len(s) \in Nat /\ DOMAIN s = 1..Len(s) /\ \A i \in 1..Len(s) : s[i] \in S
  OBVIOUS
<1>2. s = [i \in 1..Len(s) |-> s[i]]
  OBVIOUS
<1>3. s \in [1..Len(s) -> T]
  BY <1>1, <1>2
<1> QED BY <1>1, <1>3

(* What has been passed, and what may be met again, is finite.             *)
LEMMA Countable ==
  ASSUME NEW c, NEW open, open \subseteq 1..Existing, NEW n \in Nat, NEW met \in Seq(1..n), NEW k
  PROVE  /\ IsFiniteSet(MissedOf(c, open, met, k)) /\ IsFiniteSet(AheadOf(c, met, k))
         /\ IsFiniteSet(ToSet(met))
         /\ Cardinality(MissedOf(c, open, met, k)) \in Nat
         /\ Cardinality(AheadOf(c, met, k)) \in Nat /\ Cardinality(ToSet(met)) \in Nat
<1>1. IsFiniteSet(1..Existing)
  BY FS_Interval
<1>2. MissedOf(c, open, met, k) \subseteq 1..Existing
  BY DEF MissedOf
<1>3. IsFiniteSet(ToSet(met)) /\ AheadOf(c, met, k) \subseteq ToSet(met)
  BY ElementsAreFinite DEF AheadOf
<1>4. IsFiniteSet(MissedOf(c, open, met, k)) /\ IsFiniteSet(AheadOf(c, met, k))
  BY <1>1, <1>2, <1>3, FS_Subset
<1> QED BY <1>3, <1>4, FS_CardinalityType

(* The walk begins on a listing none of which it has passed.               *)
LEMMA InitWalk == Init => WalkCounted
<1> SUFFICES ASSUME Init PROVE Listed /\ Paid
  BY DEF WalkCounted
<1> USE DEF Init
<1>1. /\ Len(collection) = Existing /\ DOMAIN collection = 1..Existing
      /\ \A i \in 1..Existing : collection[i] = Existing + 1 - i /\ collection[i] \in 1..Existing
  OBVIOUS
<1>2. Issued = 1..Existing
  BY DEF Issued
<1>3. collection \in Seq(Issued) /\ IsInjective(collection)
  <2>1. collection \in [1..Existing -> 1..Existing]
    OBVIOUS
  <2>2. collection \in Seq(1..Existing)
    BY <2>1
  <2>3. \A i, j \in 1..Existing : Existing + 1 - i = Existing + 1 - j => i = j
    OBVIOUS
  <2> QED BY <1>1, <1>2, <2>2, <2>3 DEF IsInjective
<1>4. standing \subseteq ToSet(collection)
  <2> SUFFICES ASSUME NEW n \in 1..Existing PROVE n \in ToSet(collection)
    OBVIOUS
  <2>1. Existing + 1 - n \in 1..Existing /\ Existing + 1 - (Existing + 1 - n) = n
    OBVIOUS
  <2> QED BY <1>1, <2>1 DEF ToSet
<1>5. Covered = 0
  BY DEF Covered
<1>6. ToSet(<<>>) = {} /\ <<>> \in Seq(Issued) /\ Len(<<>>) = 0
  BY DEF ToSet
<1>7. /\ MissedOf(collection, standing, result, Covered) = {}
      /\ AheadOf(collection, result, Covered) = {}
  BY <1>1, <1>5, <1>6 DEF MissedOf, AheadOf
<1>8. Cardinality({}) = 0
  BY FS_EmptySet
<1>9. Listed
  <2>1. /\ opened \in Nat /\ closed \in Nat /\ page \in Nat \ {0} /\ result \in Seq(Issued)
        /\ standing \subseteq 1..Existing
    BY <1>6
  <2> QED BY <1>3, <1>4, <2>1 DEF Listed
<1>10. Paid
  <2>1. result = <<>> /\ opened = 0 /\ closed = 0 /\ pc # "listed" /\ ToSet(result) = {} /\ Len(result) = 0
    BY <1>6
  <2>2. Cardinality({}) <= closed /\ Len(result) + Cardinality({}) <= opened + Cardinality({})
    BY <1>8, <2>1
  <2> HIDE DEF Init
  <2> QED BY <1>7, <2>1, <2>2 DEF Paid
<1> QED BY <1>9, <1>10

(* While neither the listing nor the walk moves, nothing is to be counted. *)
LEMMA StandsStill ==
  ASSUME WalkCounted, UNCHANGED <<collected, walk>>, reading' = reading \/ reading' # "page",
         pc' # "done" => pc # "done" /\ (pc' = "listed" <=> pc = "listed")
  PROVE  WalkCounted'
BY DEF WalkCounted, Listed, Paid, Covered, Issued, collected, walk

(* A pull request that opens costs one entry met twice, at most.           *)
LEMMA OpensIsPaid == ASSUME WalkCounted, Opens PROVE WalkCounted'
<1> SUFFICES ASSUME Listed, Paid PROVE Listed' /\ Paid'
  BY DEF WalkCounted, Opens, Walking
<1> DEFINE x == Existing + opened + 1
           n == Existing + opened + 1
           Old == MissedOf(collection, standing, result, Covered)
           New == MissedOf(collection', standing, result, Covered)
           Back == AheadOf(collection, result, Covered)
           Again == AheadOf(collection', result, Covered)
<1>1. /\ collection' = <<x>> \o collection /\ opened' = opened + 1
      /\ standing' = standing /\ closed' = closed /\ result' = result /\ page' = page /\ pc' = pc
      /\ pc # "listed"
  BY DEF Opens, Walking, walk
<1>2. /\ n \in Nat /\ opened \in Nat /\ closed \in Nat /\ Issued \subseteq 1..n /\ Issued' = 1..n
      /\ x \in 1..n /\ x \notin Issued /\ x \notin 1..Existing
  BY <1>1 DEF Listed, Issued
<1>3. collection \in Seq(1..n) /\ result \in Seq(1..n) /\ IsInjective(collection)
  <2>1. collection \in Seq(Issued) /\ result \in Seq(Issued) /\ IsInjective(collection)
    BY DEF Listed
  <2>2. Issued \subseteq 1..n
    BY <1>2
  <2> HIDE DEF n
  <2> QED BY <2>1, <2>2, Wider
<1>4. x \notin standing /\ x \notin ToSet(result) /\ x \notin ToSet(collection)
  <2>1. ToSet(result) \subseteq Issued /\ ToSet(collection) \subseteq Issued
    BY DEF Listed, ToSet
  <2> QED BY <1>2, <2>1 DEF Listed
<1>5. Covered \in Nat /\ Covered' = Covered
  <2>1. page \in Nat /\ page - 1 \in Nat /\ PageSize \in Nat
    BY DEF Listed
  <2>2. (page - 1) * PageSize \in Nat
    BY <2>1
  <2> QED BY <1>1, <2>2 DEF Covered
<1> HIDE DEF x, n
<1>6. /\ collection' \in Seq(1..n) /\ IsInjective(collection')
      /\ ToSet(collection') = ToSet(collection) \cup {x}
      /\ New \subseteq Old /\ Again \subseteq Back \cup {collection[Covered]}
  <2> DEFINE S == 1..n
             K == Covered
  <2>1. collection \in Seq(S) /\ x \in S /\ K \in Nat
    BY <1>2, <1>3, <1>5
  <2> HIDE DEF S, K
  <2>2. LET d == <<x>> \o collection
        IN  /\ d \in Seq(S) /\ IsInjective(d) /\ ToSet(d) = ToSet(collection) \cup {x}
            /\ MissedOf(d, standing, result, K) \subseteq MissedOf(collection, standing, result, K)
            /\ AheadOf(d, result, K) \subseteq AheadOf(collection, result, K) \cup {collection[K]}
    BY <1>3, <1>4, <2>1, OpeningPushes
  <2> QED BY <1>1, <2>2 DEF S, K
<1>7. Listed'
  <2>1. opened' \in Nat /\ closed' \in Nat /\ page' \in Nat \ {0}
    BY <1>1, <1>2 DEF Listed
  <2>2. collection' \in Seq(Issued') /\ IsInjective(collection') /\ result' \in Seq(Issued')
    BY <1>1, <1>2, <1>3, <1>6
  <2>3. standing' \subseteq 1..Existing /\ standing' \subseteq ToSet(collection')
    BY <1>1, <1>6 DEF Listed
  <2> QED BY <2>1, <2>2, <2>3 DEF Listed
<1>8. /\ IsFiniteSet(Old) /\ IsFiniteSet(Back)
      /\ Cardinality(Old) \in Nat /\ Cardinality(Back) \in Nat
      /\ Cardinality(ToSet(result)) \in Nat
  BY <1>2, <1>3, Countable DEF Listed
<1>9. /\ Cardinality(Old) <= closed
      /\ Len(result) + Cardinality(Back) <= opened + Cardinality(ToSet(result))
  BY DEF Paid
<1> HIDE DEF Old, New, Back, Again
<1>10. Cardinality(New) \in Nat /\ Cardinality(New) <= Cardinality(Old)
  BY <1>6, <1>8, FS_Subset, FS_CardinalityType
<1>11. Cardinality(Again) \in Nat /\ Cardinality(Again) <= Cardinality(Back) + 1
  BY <1>6, <1>8, OneMore
<1>12. Len(result) \in Nat
  BY <1>3
<1>13. Cardinality(New) <= closed
  BY <1>2, <1>8, <1>9, <1>10
<1>14. Len(result) + Cardinality(Again) <= (opened + 1) + Cardinality(ToSet(result))
  BY <1>2, <1>8, <1>9, <1>11, <1>12
<1>15. Paid'
  BY <1>1, <1>5, <1>13, <1>14 DEF Paid, New, Again
<1> QED BY <1>7, <1>15

(* One that closes costs one entry missed, at most.                        *)
LEMMA ClosesIsPaid == ASSUME WalkCounted, Closes PROVE WalkCounted'
<1> SUFFICES ASSUME Listed, Paid PROVE Listed' /\ Paid'
  BY DEF WalkCounted, Closes, Walking
<1> PICK l \in DOMAIN collection :
      collection' = RemoveAt(collection, l) /\ standing' = standing \ {collection[l]}
  BY DEF Closes
<1> DEFINE Old == MissedOf(collection, standing, result, Covered)
           New == MissedOf(collection', standing', result, Covered)
           Back == AheadOf(collection, result, Covered)
           Again == AheadOf(collection', result, Covered)
           n == Existing + opened
<1>1. /\ closed' = closed + 1 /\ opened' = opened /\ result' = result /\ page' = page /\ pc' = pc
      /\ pc # "listed"
  BY DEF Closes, Walking, walk
<1>2. /\ n \in Nat /\ opened \in Nat /\ closed \in Nat /\ Issued = 1..n /\ Issued' = 1..n
  BY <1>1 DEF Listed, Issued
<1>3. collection \in Seq(1..n) /\ result \in Seq(1..n) /\ IsInjective(collection)
  BY <1>2 DEF Listed
<1>5. Covered \in Nat /\ Covered' = Covered
  <2>1. page \in Nat /\ page - 1 \in Nat /\ PageSize \in Nat
    BY DEF Listed
  <2>2. (page - 1) * PageSize \in Nat
    BY <2>1
  <2> QED BY <1>1, <2>2 DEF Covered
<1> HIDE DEF n
<1>6. /\ collection' \in Seq(1..n) /\ IsInjective(collection')
      /\ ToSet(collection) \ {collection[l]} \subseteq ToSet(collection')
      /\ New \subseteq Old \cup {collection[Covered + 1]} /\ Again \subseteq Back
  BY <1>2, <1>3, <1>5, ClosingDraws
<1>7. Listed'
  <2>1. opened' \in Nat /\ closed' \in Nat /\ page' \in Nat \ {0}
    BY <1>1, <1>2 DEF Listed
  <2>2. collection' \in Seq(Issued') /\ IsInjective(collection') /\ result' \in Seq(Issued')
    BY <1>1, <1>2, <1>3, <1>6
  <2>3. standing' \subseteq 1..Existing /\ standing' \subseteq ToSet(collection')
    BY <1>1, <1>6 DEF Listed
  <2> QED BY <2>1, <2>2, <2>3 DEF Listed
<1>8. /\ IsFiniteSet(Old) /\ IsFiniteSet(Back)
      /\ Cardinality(Old) \in Nat /\ Cardinality(Back) \in Nat
      /\ Cardinality(ToSet(result)) \in Nat
  BY <1>2, <1>3, Countable DEF Listed
<1>9. /\ Cardinality(Old) <= closed
      /\ Len(result) + Cardinality(Back) <= opened + Cardinality(ToSet(result))
  BY DEF Paid
<1> HIDE DEF Old, New, Back, Again
<1>10. Cardinality(New) \in Nat /\ Cardinality(New) <= Cardinality(Old) + 1
  BY <1>6, <1>8, OneMore
<1>11. Cardinality(Again) \in Nat /\ Cardinality(Again) <= Cardinality(Back)
  BY <1>6, <1>8, FS_Subset, FS_CardinalityType
<1>12. Len(result) \in Nat
  BY <1>3
<1>13. Cardinality(New) <= closed + 1
  BY <1>2, <1>8, <1>9, <1>10
<1>14. Len(result) + Cardinality(Again) <= opened + Cardinality(ToSet(result))
  BY <1>2, <1>8, <1>9, <1>11, <1>12
<1>15. Paid'
  BY <1>1, <1>5, <1>13, <1>14 DEF Paid, New, Again
<1> QED BY <1>7, <1>15

(* A page misses none of its own, and an entry it meets again is one the   *)
(* walk was told of.                                                       *)
LEMMA ReadPageIsPaid == ASSUME IInv, WalkCounted, ReadPage PROVE WalkCounted'
<1> SUFFICES ASSUME Listed, Paid, pc' # "done" PROVE Listed' /\ Paid'
  BY DEF WalkCounted, ReadPage
<1> DEFINE P == PageAt(page)
           W == ToSet(P) \ Unwanted
           all == result \o Visited(P)
           k == (page - 1) * PageSize
           m == page * PageSize
           n == Existing + opened
           Old == MissedOf(collection, standing, result, k)
           New == MissedOf(collection, standing, all, m)
           Back == AheadOf(collection, result, k)
           Again == AheadOf(collection, all, m)
           met == ToSet(result)
<1>1. /\ pc = "read" /\ collection' = collection /\ standing' = standing
      /\ opened' = opened /\ closed' = closed /\ result' = all
      /\ \/ page' = page + 1 /\ pc' = "read"
         \/ page' = page /\ pc' = "listed" /\ Link(page) = 0
  <2>1. PICK link \in {Link(page)} \cup LinkFaults :
          /\ result' = all
          /\ \/ PaginationPathFor(link) = 0 /\ pc' = "listed" /\ UNCHANGED page
             \/ /\ PaginationPathFor(link) \notin {0, -1}
                /\ page' = PaginationPathFor(link) /\ pc' = "read"
    BY DEF ReadPage, ReadErrs, Done, BeginRead
  <2>2. PaginationPathFor(link) = 0 => link = 0
    BY DEF PaginationPathFor, Listed
  <2>3. PaginationPathFor(link) \notin {0, -1} => PaginationPathFor(link) = page + 1
    BY DEF PaginationPathFor
  <2>4. 0 \notin LinkFaults
    OBVIOUS
  <2>5. pc = "read" /\ UNCHANGED <<collection, standing, opened, closed>>
    BY DEF ReadPage, collected
  <2> QED BY <2>1, <2>2, <2>3, <2>4, <2>5
<1>2. /\ n \in Nat /\ opened \in Nat /\ closed \in Nat /\ Issued = 1..n /\ Issued' = 1..n
  BY <1>1 DEF Listed, Issued
<1>3. collection \in Seq(1..n) /\ result \in Seq(1..n) /\ IsInjective(collection)
  BY <1>2 DEF Listed
<1>4. page \in Nat \ {0} /\ page - 1 \in Nat
  BY DEF Listed
<1>5. /\ k \in Nat /\ m \in Nat /\ k <= m /\ k + 1 = (page - 1) * PageSize + 1
      /\ Covered = k /\ Covered' = m
  <2>1. k \in Nat /\ m \in Nat /\ m = k + PageSize
    BY <1>4
  <2>2. Covered = k
    BY <1>1 DEF Covered
  <2>3. Covered' = m
    <3>1. (page + 1) - 1 = page
      BY <1>4
    <3> QED BY <1>1, <3>1 DEF Covered
  <2> QED BY <2>1, <2>2, <2>3
<1>6. P = Between(collection, k, m)
  BY DEF PageAt, Between
<1>7. pc' = "listed" => Len(collection) <= m
  BY <1>1, <1>3, <1>4 DEF Link
<1>8. /\ Cardinality(Old) <= closed
      /\ Len(result) + Cardinality(Back) <= opened + Cardinality(met)
  BY <1>5 DEF Paid
<1> HIDE DEF P, k, m, n
<1>9. /\ all \in Seq(1..n) /\ ToSet(all) = met \cup W
      /\ IsFiniteSet(W) /\ Len(all) = Len(result) + Cardinality(W)
      /\ New \subseteq Old /\ met \cap W \subseteq Back /\ Again \subseteq Back \ (met \cap W)
  <2> DEFINE S == 1..n
  <2>1. collection \in Seq(S) /\ result \in Seq(S)
    BY <1>3
  <2> HIDE DEF S
  <2> DEFINE Q == Between(collection, k, m)
  <2>2. LET U == ToSet(Q) \ Unwanted
            both == result \o Visited(Q)
        IN  /\ both \in Seq(S) /\ ToSet(both) = ToSet(result) \cup U
            /\ IsFiniteSet(U) /\ Len(both) = Len(result) + Cardinality(U)
            /\ MissedOf(collection, standing, both, m) \subseteq MissedOf(collection, standing, result, k)
            /\ ToSet(result) \cap U \subseteq AheadOf(collection, result, k)
            /\ AheadOf(collection, both, m)
                 \subseteq AheadOf(collection, result, k) \ (ToSet(result) \cap U)
    <3>1. k \in Nat /\ m \in Nat /\ k <= m /\ IsInjective(collection)
      BY <1>3, <1>5
    <3> QED BY <2>1, <3>1, PageIsMet
  <2> QED BY <1>6, <2>2 DEF S
<1>10. Listed'
  BY <1>1, <1>2, <1>3, <1>4, <1>9 DEF Listed
<1>11. /\ IsFiniteSet(Old) /\ IsFiniteSet(Back) /\ IsFiniteSet(met)
       /\ Cardinality(Old) \in Nat /\ Cardinality(Back) \in Nat /\ Cardinality(met) \in Nat
  BY <1>2, <1>3, Countable DEF Listed
<1>a. /\ result' = all /\ closed' = closed /\ opened' = opened /\ collection' = collection
      /\ standing' = standing /\ Covered' = m
  BY <1>1, <1>5
<1> HIDE DEF Old, New, Back, Again, all, W, met
<1>12. Cardinality(New) \in Nat /\ Cardinality(New) <= Cardinality(Old)
  BY <1>9, <1>11, FS_Subset, FS_CardinalityType
<1>13. /\ IsFiniteSet(Again)
       /\ Cardinality(Again) + Cardinality(met) + Cardinality(W)
            <= Cardinality(Back) + Cardinality(met \cup W)
  BY <1>9, <1>11, WithoutAndWith
<1>14. /\ Cardinality(Again) \in Nat /\ Cardinality(W) \in Nat /\ Cardinality(met \cup W) \in Nat
       /\ Len(result) \in Nat
  <2>1. IsFiniteSet(met \cup W)
    BY <1>9, <1>11, FS_Union
  <2> QED BY <1>3, <1>9, <1>13, <2>1, FS_CardinalityType
<1>15. Cardinality(New) <= closed
  BY <1>2, <1>8, <1>11, <1>12
<1>16. Len(all) + Cardinality(Again) <= opened + Cardinality(met \cup W)
  <2> DEFINE both == Cardinality(met \cup W)
  <2>1. Len(all) = Len(result) + Cardinality(W) /\ both \in Nat
    BY <1>9, <1>14
  <2>2. Cardinality(Again) + Cardinality(met) + Cardinality(W) <= Cardinality(Back) + both
    BY <1>13
  <2> HIDE DEF both
  <2>3. Len(all) + Cardinality(Again) <= opened + both
    <3> DEFINE r == Len(result)
               a == Cardinality(Again)
               b == Cardinality(Back)
               w == Cardinality(W)
               t == Cardinality(met)
    <3>1. /\ r \in Nat /\ a \in Nat /\ b \in Nat /\ w \in Nat /\ t \in Nat
          /\ r + b <= opened + t /\ a + t + w <= b + both
      BY <1>8, <1>11, <1>14, <2>2
    <3>2. Len(all) = r + w
      BY <2>1
    <3> HIDE DEF r, a, b, w, t
    <3>3. (r + w) + a <= opened + both
      BY <1>2, <2>1, <3>1
    <3> QED BY <3>2, <3>3 DEF a
  <2> QED BY <2>3 DEF both
<1>17. Paid'
  BY <1>a, <1>7, <1>9, <1>15, <1>16 DEF Paid, New, Again
<1> QED BY <1>10, <1>17

(* Every other step leaves listing and walk alone, or ends the walk.       *)
LEMMA WalkStep == ASSUME IInv, WalkCounted, [Next]_vars PROVE WalkCounted'
<1> USE DEF Done
<1>1. CASE Opens
  BY <1>1, OpensIsPaid
<1>2. CASE Closes
  BY <1>2, ClosesIsPaid
<1>3. CASE ReadPage
  BY <1>3, ReadPageIsPaid
<1>4. CASE ReadBlips \/ ReadIsHopeless \/ ReadIsCut \/ Pause
  <2>1. UNCHANGED <<collected, walk, reading>> /\ pc # "done" /\ pc # "listed" /\ pc' # "listed"
    BY <1>4 DEF ReadBlips, ReadIsHopeless, ReadIsCut, Pause, ReadErrs, WaitsFor
  <2> QED BY <2>1, StandsStill
<1>5. CASE ReadState
  <2>1. UNCHANGED <<collected, walk, reading>> /\ pc' = "done"
    BY <1>5 DEF ReadState
  <2> QED BY <2>1, StandsStill
<1>6. CASE HandOver
  BY <1>6 DEF HandOver, WalkCounted
<1>7. CASE ReadBack
  BY <1>7 DEF ReadBack, BeginRead, WalkCounted
<1>8. CASE SendPut \/ Backoff \/ HearsPut
  <2>1. reading' = reading /\ pc \in {"merge", "backoff", "wire"}
    BY <1>8 DEF SendPut, Backoff, HearsPut, Hear, HearMerged, HearHeadModified, HearPending,
                HearRefusal, HearNothing
  <2>2. reading # "page"
    BY <2>1 DEF IInv, OneAtATime
  <2> QED BY <2>1, <2>2 DEF WalkCounted
<1>9. CASE Pushes \/ Computes \/ OthersMerge \/ CarriesOut \/ Refuses \/ Interrupt \/ ReadIsSlow
  <2>1. UNCHANGED <<collected, walk, reading, pc>>
    BY <1>9 DEF Pushes, Computes, OthersMerge, CarriesOut, Refuses, Interrupt, ReadIsSlow
  <2> QED BY <2>1, StandsStill
<1>10. CASE UNCHANGED vars
  <2>1. UNCHANGED <<collected, walk, reading, pc>>
    BY <1>10 DEF vars
  <2> QED BY <2>1, StandsStill
<1> QED BY <1>1, <1>2, <1>3, <1>4, <1>5, <1>6, <1>7, <1>8, <1>9, <1>10
           DEF Next, Program, Environment, Finished, Read

(* What the walk has cost is paid for when the listing is complete.        *)
LEMMA PaidWhenListed == IInv /\ WalkCounted => ListingIsPaidFor
<1> SUFFICES ASSUME IInv, WalkCounted, pc = "listed"
             PROVE  /\ Cardinality((standing \ Unwanted) \ ToSet(result)) <= closed
                    /\ Len(result) - Cardinality(ToSet(result)) <= opened
  BY DEF ListingIsPaidFor
<1> DEFINE n == Existing + opened
           Lost == (standing \ Unwanted) \ ToSet(result)
           Old == MissedOf(collection, standing, result, Covered)
           Back == AheadOf(collection, result, Covered)
<1>1. Listed /\ Paid
  BY DEF WalkCounted, IInv, OneAtATime
<1>2. n \in Nat /\ Issued = 1..n /\ opened \in Nat /\ closed \in Nat
  BY <1>1 DEF Listed, Issued
<1>3. Lost \subseteq Old
  <2> SUFFICES ASSUME NEW x \in Lost PROVE x \in Old
    OBVIOUS
  <2>1. x \in ToSet(collection)
    BY <1>1 DEF Listed
  <2>2. PICK i \in DOMAIN collection : collection[i] = x
    BY <2>1 DEF ToSet
  <2>3. DOMAIN collection = 1..Len(collection) /\ Len(collection) \in Nat
    BY <1>1 DEF Listed
  <2>4. Len(collection) <= Covered /\ Covered = page * PageSize /\ page \in Nat
    BY <1>1 DEF Paid, Listed, Covered
  <2>5. i <= Covered
    BY <2>2, <2>3, <2>4
  <2> QED BY <2>2, <2>5 DEF MissedOf
<1>4. result \in Seq(1..n) /\ Len(result) \in Nat
  BY <1>1, <1>2 DEF Listed
<1> HIDE DEF n
<1>5. /\ IsFiniteSet(Old) /\ Cardinality(Old) \in Nat /\ Cardinality(Back) \in Nat
      /\ Cardinality(ToSet(result)) \in Nat
  BY <1>1, <1>2, <1>4, Countable DEF Listed
<1>6. /\ Cardinality(Old) <= closed
      /\ Len(result) + Cardinality(Back) <= opened + Cardinality(ToSet(result))
  BY <1>1 DEF Paid
<1> HIDE DEF Lost, Old, Back
<1>7. Cardinality(Lost) \in Nat /\ Cardinality(Lost) <= Cardinality(Old)
  BY <1>3, <1>5, FS_Subset, FS_CardinalityType
<1>8. Cardinality(Lost) <= closed
  BY <1>2, <1>5, <1>6, <1>7
<1>9. Len(result) - Cardinality(ToSet(result)) <= opened
  BY <1>2, <1>4, <1>5, <1>6
<1> QED BY <1>8, <1>9 DEF Lost

(* However the pages of a listing shift under its walk, it misses at most  *)
(* as many of the pull requests that stood as were closed, and repeats at  *)
(* most as many entries as were opened.                                    *)
THEOREM EveryEntryIsPaidFor == Spec => []ListingIsPaidFor
<1>1. IInv /\ WalkCounted /\ [Next]_vars => WalkCounted'
  BY WalkStep
<1> QED BY Invariance, InitWalk, <1>1, PaidWhenListed, PTL DEF Spec
=============================================================================
