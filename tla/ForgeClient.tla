----------------------------- MODULE ForgeClient -----------------------------
(***************************************************************************)
(* internal/adapters/github (client.go, paginate.go, pulls.go) on top of   *)
(* internal/retry: the calls that read the forge more than once, or ask it *)
(* more than once.  A run lists the open pull requests page by page while  *)
(* others open and close some, then merges one of them: a PUT that is      *)
(* repeated while the forge computes mergeability, and, when it errs, the  *)
(* read-back of mergeAndWatch on a context that outlives the run's.  A     *)
(* request the client gave up on may still be carried out.                 *)
(***************************************************************************)
EXTENDS Integers, Sequences, FiniteSets, SequencesExt

CONSTANTS
  Existing,             \* pull requests 1..Existing are open at the start
  MaxOpened,            \* bound: pull requests opened during the listing
  Unwanted,             \* those the filter, or their base branch, leaves out
  PageSize, MaxPages, MaxObjects,
  LinkFaults,           \* bound: page numbers a faulty Link header may name;
                        \* one that names none ends the walk
  MergeabilityAttempts, \* PUTs of one merge
  MaxAttempts,          \* GETs of one read
  Delays,               \* Delays[i]: what the wait after the i-th GET can last
  Directed,             \* bound: Retry-After delays a forge may ask for
  MaxRetryAfter,
  OutlivingWindow,
  Late                  \* an abandoned PUT may still be carried out

ASSUME ClientAssumption ==
  /\ Existing \in Nat /\ MaxOpened \in Nat
  /\ PageSize \in Nat \ {0} /\ MaxPages \in Nat /\ MaxObjects \in Nat
  /\ LinkFaults \subseteq Nat \ {0}
  /\ MergeabilityAttempts \in Nat \ {0} /\ MaxAttempts \in Nat \ {0}
  /\ Delays \in [1..(MaxAttempts - 1) -> SUBSET Nat]
  /\ Directed \subseteq Nat \ {0} /\ MaxRetryAfter \in Nat
  /\ OutlivingWindow \in Nat /\ Late \in BOOLEAN

Numbers == 1..(Existing + MaxOpened)   \* the newest has the highest

VARIABLES
  (* the forge *)
  collection,    \* open pull requests, newest first, as it lists them
  mergedAt,      \* set of at most one head: where the pull request merged
  head,          \* "assessed", or "later" once somebody pushed to it
  mergeability,
  wire,          \* where the PUT under way, or its answer, has got to
  orphan,        \* a PUT the client gave up on may still be carried out
  (* the run *)
  pc, cancelled,
  page, result,  \* paginate, ListOpen
  puts,          \* Merge: PUTs answered so far
  reading,       \* what is read: a page, or MergeState
  tries, nap,    \* retry.Schedule.run
  outlives,      \* the read is made on the outliving context
  answer,
  (* ghosts *)
  clock,         \* time spent on the outliving context
  blips,         \* faults worth a retry that the read under way met
  hopeless,      \* it met one that is not
  standing, opened, closed \* since the walk began: still open; counts

collected == <<collection, standing, opened, closed>>
pull == <<mergedAt, head, mergeability>>
wires == <<wire, orphan>>
walk == <<page, result>>
schedule == <<tries, nap, clock, blips, hopeless>>
vars == <<collected, pull, wires, pc, cancelled, walk, puts, reading,
          schedule, outlives, answer>>

Answers == {"none", "unlisted", "merged", "notMerged", "headMoved", "inDoubt"}

TypeOK ==
  /\ collection \in Seq(Numbers) /\ result \in Seq(Numbers)
  /\ mergedAt \in SUBSET {"assessed", "later"} /\ head \in {"assessed", "later"}
  /\ mergeability \in {"computing", "clear", "blocked"}
  /\ wire \in {"empty", "sent", "merged", "notYet", "refused", "moved"}
  /\ orphan \in BOOLEAN /\ cancelled \in BOOLEAN /\ outlives \in BOOLEAN
  /\ pc \in {"read", "pause", "listed", "merge", "wire", "backoff", "readBack", "done"}
  /\ page \in 1..(MaxPages + 1) /\ puts \in 0..MergeabilityAttempts
  /\ reading \in {"page", "state"} /\ answer \in Answers
  /\ tries \in 0..MaxAttempts /\ nap \in Nat
  /\ clock \in 0..OutlivingWindow /\ blips \in 0..MaxAttempts /\ hopeless \in BOOLEAN
  /\ standing \subseteq Numbers /\ opened \in Nat /\ closed \in Nat

Init ==
  /\ collection = [i \in 1..Existing |-> Existing + 1 - i]
  /\ standing = 1..Existing
  /\ opened = 0 /\ closed = 0
  /\ mergedAt = {} /\ head = "assessed"
  /\ mergeability = "computing"
  /\ wire = "empty" /\ orphan = FALSE
  /\ pc = "read" /\ cancelled = FALSE
  /\ page = 1 /\ result = <<>> /\ puts = 0 /\ reading = "page"
  /\ tries = 0 /\ nap = 0 /\ clock = 0 /\ blips = 0 /\ hopeless = FALSE
  /\ outlives = FALSE /\ answer = "none"

-----------------------------------------------------------------------------
(* The forge and everybody else. *)

Walking == reading = "page" /\ pc \in {"read", "pause"}
Merging == ~Walking /\ pc \notin {"listed"}

Opens ==
  /\ Walking /\ opened < MaxOpened
  /\ collection' = <<Existing + opened + 1>> \o collection
  /\ opened' = opened + 1
  /\ UNCHANGED <<standing, closed, pull, wires, pc, cancelled, walk, puts,
                 reading, schedule, outlives, answer>>

Closes ==
  /\ Walking
  /\ \E i \in DOMAIN collection :
       /\ collection' = RemoveAt(collection, i)
       /\ standing' = standing \ {collection[i]}
  /\ closed' = closed + 1
  /\ UNCHANGED <<opened, pull, wires, pc, cancelled, walk, puts, reading,
                 schedule, outlives, answer>>

(* A push to the pull request, or to its base, has mergeability computed   *)
(* again.                                                                  *)
Pushes ==
  /\ Merging /\ mergedAt = {}
  /\ head' \in {head, "later"} /\ mergeability' = "computing"
  /\ UNCHANGED <<collected, mergedAt, wires, pc, cancelled, walk, puts,
                 reading, schedule, outlives, answer>>

Computes ==
  /\ Merging /\ mergeability = "computing"
  /\ mergeability' \in {"clear", "blocked"}
  /\ UNCHANGED <<collected, mergedAt, head, wires, pc, cancelled, walk, puts,
                 reading, schedule, outlives, answer>>

OthersMerge ==
  /\ Merging /\ mergedAt = {} /\ mergeability = "clear"
  /\ mergedAt' = {head}
  /\ UNCHANGED <<collected, head, mergeability, wires, pc, cancelled, walk,
                 puts, reading, schedule, outlives, answer>>

CarriesOut ==
  /\ wire = "sent" \/ orphan
  /\ mergedAt = {} /\ head = "assessed" /\ mergeability = "clear"
  /\ mergedAt' = {head}
  /\ IF wire = "sent" THEN wire' = "merged" /\ UNCHANGED orphan
                      ELSE orphan' = FALSE /\ UNCHANGED wire
  /\ UNCHANGED <<collected, head, mergeability, pc, cancelled, walk, puts,
                 reading, schedule, outlives, answer>>

(* 405 while it computes, and for a pull request that is merged already;   *)
(* 409 for another head; a block may be worded like the former.            *)
Refuses ==
  /\ \/ /\ wire = "sent" /\ UNCHANGED orphan
        /\ \/ mergedAt # {} /\ wire' \in {"notYet", "refused"}
           \/ mergedAt = {} /\ head # "assessed" /\ wire' = "moved"
           \/ mergedAt = {} /\ head = "assessed" /\ mergeability = "computing" /\ wire' = "notYet"
           \/ mergedAt = {} /\ head = "assessed" /\ mergeability = "blocked"
                /\ wire' \in {"notYet", "refused"}
     \/ orphan /\ orphan' = FALSE /\ UNCHANGED wire
  /\ UNCHANGED <<collected, pull, pc, cancelled, walk, puts, reading,
                 schedule, outlives, answer>>

Interrupt ==
  /\ ~cancelled /\ pc # "done"
  /\ cancelled' = TRUE
  /\ UNCHANGED <<collected, pull, wires, pc, walk, puts, reading, schedule,
                 outlives, answer>>

-----------------------------------------------------------------------------
(* One read, by the schedule of internal/retry. *)

Done(a) == pc' = "done" /\ answer' = a
Expired == IF outlives THEN clock >= OutlivingWindow ELSE cancelled
BeginRead(what) ==
  /\ pc' = "read" /\ reading' = what
  /\ tries' = 0 /\ nap' = 0 /\ clock' = 0 /\ blips' = 0 /\ hopeless' = FALSE

(* Mutant of ReadErrs: a read-back that errs is taken for a refusal. *)
MutReadErrsAsRefused ==
  Done(IF reading = "page" THEN "unlisted" ELSE "notMerged") /\ UNCHANGED nap

(* An unread page fails the listing, an unread state leaves it in doubt. *)
ReadErrs ==
  Done(IF reading = "page" THEN "unlisted" ELSE "inDoubt") /\ UNCHANGED nap

LastTry == tries + 1 >= MaxAttempts
Capped(delay) == IF delay > MaxRetryAfter THEN MaxRetryAfter ELSE delay
FitsBeforeDeadline(delay) == outlives => OutlivingWindow - clock > delay

WaitsFor(delay) == pc' = "pause" /\ nap' = delay /\ UNCHANGED answer

(* A status or a transport fault worth another GET, with or without the    *)
(* delay the forge asks for.                                               *)
ReadBlips ==
  /\ pc = "read" /\ ~Expired
  /\ tries' = tries + 1 /\ blips' = blips + 1
  /\ \/ LastTry /\ ReadErrs
     \/ ~LastTry /\ \E d \in Delays[tries + 1] : WaitsFor(d)
     \/ ~LastTry /\ \E d \in Directed :
          IF FitsBeforeDeadline(Capped(d)) THEN WaitsFor(Capped(d)) ELSE ReadErrs
  /\ UNCHANGED <<collected, pull, wires, cancelled, walk, puts, reading,
                 clock, hopeless, outlives>>

(* Any other status, a timeout, a body that cannot be read. *)
ReadIsHopeless ==
  /\ pc = "read" /\ ~Expired
  /\ ReadErrs /\ hopeless' = TRUE
  /\ UNCHANGED <<collected, pull, wires, cancelled, walk, puts, reading,
                 tries, clock, blips, outlives>>

(* The context ends before, in or between the GETs. *)
ReadIsCut ==
  /\ pc \in {"read", "pause"} /\ Expired
  /\ ReadErrs
  /\ UNCHANGED <<collected, pull, wires, cancelled, walk, puts, reading,
                 tries, clock, blips, hopeless, outlives>>

(* A GET of the read-back takes its time. *)
ReadIsSlow ==
  /\ pc = "read" /\ outlives /\ clock < OutlivingWindow
  /\ clock' = clock + 1
  /\ UNCHANGED <<collected, pull, wires, pc, cancelled, walk, puts, reading,
                 tries, nap, blips, hopeless, outlives, answer>>

(* sleep: its timer, or the deadline, whichever comes first. *)
Pause ==
  /\ pc = "pause" /\ ~Expired
  /\ IF outlives /\ clock + nap > OutlivingWindow
       THEN ReadErrs /\ clock' = OutlivingWindow
       ELSE /\ pc' = "read" /\ nap' = 0 /\ UNCHANGED answer
            /\ clock' = IF outlives THEN clock + nap ELSE clock
  /\ UNCHANGED <<collected, pull, wires, cancelled, walk, puts, reading,
                 tries, blips, hopeless, outlives>>

-----------------------------------------------------------------------------
(* ListOpen over paginate. *)

PageAt(p) == SubSeq(collection, (p - 1) * PageSize + 1,
                    IF p * PageSize < Len(collection) THEN p * PageSize ELSE Len(collection))
Link(p) == IF Len(collection) > p * PageSize THEN p + 1 ELSE 0

(* Mutant of PaginationPathFor: the cursor is followed wherever it points. *)
MutPaginationPathForAny(link) == link

(* The page to read next, 0 for none; a cursor that is not the next page is*)
(* an error (-1), like one beyond maxPages.                                *)
PaginationPathFor(link) ==
  IF link = 0 THEN 0
  ELSE IF link # page + 1 \/ link > MaxPages THEN -1
  ELSE link

(* The entries of a page that the filter, and their branch, let through.   *)
Visited(entries) ==
  LET kept[i \in 0..Len(entries)] ==
        IF i = 0 THEN <<>>
        ELSE IF entries[i] \in Unwanted THEN kept[i - 1]
        ELSE Append(kept[i - 1], entries[i])
  IN  kept[Len(entries)]

ReadPage ==
  /\ pc = "read" /\ reading = "page" /\ ~Expired
  /\ \E link \in {Link(page)} \cup LinkFaults :
     LET found == result \o Visited(PageAt(page))
         next == PaginationPathFor(link)
     IN  IF Len(found) > MaxObjects \/ next = -1
           THEN ReadErrs /\ hopeless' = TRUE /\ UNCHANGED <<walk, reading, tries, clock, blips>>
           ELSE /\ result' = found
                /\ IF next = 0
                     THEN /\ pc' = "listed"
                          /\ UNCHANGED <<page, reading, schedule>>
                     ELSE page' = next /\ BeginRead("page")
                /\ UNCHANGED answer
  /\ UNCHANGED <<collected, pull, wires, cancelled, puts, outlives>>

(* The listing is handed to the queue; one of it passes the gate. *)
HandOver ==
  /\ pc = "listed"
  /\ pc' = "merge" /\ reading' = "state"
  /\ page' = 1 /\ result' = <<>> /\ collection' = <<>> /\ standing' = {}
  /\ opened' = 0 /\ closed' = 0
  /\ tries' = 0 /\ nap' = 0 /\ blips' = 0
  /\ UNCHANGED <<pull, wires, cancelled, puts, clock, hopeless, outlives, answer>>

-----------------------------------------------------------------------------
(* Client.Merge, and what mergeAndWatch asks when it errs. *)

(* On a cancelled context nothing is sent. *)
SendPut ==
  /\ pc = "merge"
  /\ IF cancelled THEN pc' = "readBack" /\ UNCHANGED wire
                  ELSE pc' = "wire" /\ wire' = "sent"
  /\ UNCHANGED <<collected, pull, orphan, cancelled, walk, puts, reading,
                 schedule, outlives, answer>>

Hear == pc = "wire" /\ wire' = "empty"

HearMerged ==
  /\ Hear /\ wire = "merged" /\ Done("merged")
  /\ UNCHANGED <<collected, pull, orphan, cancelled, walk, puts, reading,
                 schedule, outlives>>

HearHeadModified ==
  /\ Hear /\ wire = "moved" /\ Done("headMoved")
  /\ UNCHANGED <<collected, pull, orphan, cancelled, walk, puts, reading,
                 schedule, outlives>>

HearPending ==
  /\ Hear /\ wire = "notYet" /\ pc' = "backoff"
  /\ UNCHANGED <<collected, pull, orphan, cancelled, walk, puts, reading,
                 schedule, outlives, answer>>

HearRefusal ==
  /\ Hear /\ wire = "refused" /\ pc' = "readBack"
  /\ UNCHANGED <<collected, pull, orphan, cancelled, walk, puts, reading,
                 schedule, outlives, answer>>

(* Mutant of HearNothing: what was not heard is asked for again. *)
MutHearNothingAsksAgain ==
  /\ Hear /\ pc' = "backoff"
  /\ orphan' = (orphan \/ (Late /\ wire = "sent"))
  /\ UNCHANGED <<collected, pull, cancelled, walk, puts, reading, schedule,
                 outlives, answer>>

(* A timeout, a broken connection, a gateway's status, an unreadable body. *)
HearNothing ==
  /\ Hear /\ pc' = "readBack"
  /\ orphan' = (orphan \/ (Late /\ wire = "sent"))
  /\ UNCHANGED <<collected, pull, cancelled, walk, puts, reading, schedule,
                 outlives, answer>>

(* The select takes either branch when both are ready. *)
Backoff ==
  /\ pc = "backoff" /\ puts' = puts + 1
  /\ \/ pc' = IF puts' < MergeabilityAttempts THEN "merge" ELSE "readBack"
     \/ cancelled /\ pc' = "readBack"
  /\ UNCHANGED <<collected, pull, wires, cancelled, walk, reading, schedule,
                 outlives, answer>>

(* outliving *)
ReadBack ==
  /\ pc = "readBack"
  /\ outlives' = cancelled
  /\ BeginRead("state")
  /\ UNCHANGED <<collected, pull, wires, cancelled, walk, puts, answer>>

(* MergeState *)
ReadState ==
  /\ pc = "read" /\ reading = "state" /\ ~Expired
  /\ Done(IF mergedAt = {} THEN "notMerged" ELSE "merged")
  /\ UNCHANGED <<collected, pull, wires, cancelled, walk, puts, reading,
                 schedule, outlives>>

Finished == pc = "done" /\ UNCHANGED vars

Read == ReadBlips \/ ReadIsHopeless \/ ReadIsCut \/ Pause \/ ReadPage \/ ReadState
HearsPut ==
  HearMerged \/ HearHeadModified \/ HearPending \/ HearRefusal \/ HearNothing
Program == Read \/ HandOver \/ SendPut \/ HearsPut \/ Backoff \/ ReadBack
Environment ==
  \/ Opens \/ Closes \/ Pushes \/ Computes \/ OthersMerge
  \/ CarriesOut \/ Refuses \/ Interrupt \/ ReadIsSlow

Next == Program \/ Environment \/ Finished

(* One goroutine; the timeout of the HTTP client ends every request.       *)
Spec == Init /\ [][Next]_vars /\ WF_vars(Program)

-----------------------------------------------------------------------------
(* The calls keep MergeCall's promise: the mapping forgets how often the   *)
(* forge was asked and how its answer was read.                            *)
Call == INSTANCE MergeCall WITH
  Assessed <- "assessed",
  ordered <- wire = "sent" \/ orphan,
  answer <- IF answer = "unlisted" THEN "none" ELSE answer
KeepsPromise == Call!Spec

(* A merge is never asked for a second time while an earlier request of    *)
(* the same call may have been, or may yet be, carried out: only an answer *)
(* that refused it is waited out ("other write failures are returned       *)
(* without replay", Adapters and Integrations.md).                         *)
Unheard == orphan \/ wire \in {"sent", "merged"}
NoReplay == [][pc = "merge" /\ pc' = "wire" => ~Unheard /\ puts < MergeabilityAttempts]_vars

(* A read that fails on a context without a deadline met a fault no retry  *)
(* could cure, or as many curable ones as the schedule has attempts:       *)
(* fewer "blips" never cost a listing or leave a merge in doubt.           *)
BlipsAreAbsorbed ==
  pc = "done" /\ answer \in {"unlisted", "inDoubt"} /\ ~cancelled =>
    hopeless \/ blips = MaxAttempts

(* Whoever was open during the whole walk and is not on its list was       *)
(* pushed across a page boundary by a close, and whoever is listed twice   *)
(* by a new pull request: each close or opening costs one entry at most.   *)
ListingIsPaidFor ==
  pc = "listed" =>
    /\ Cardinality((standing \ Unwanted) \ ToSet(result)) <= closed
    /\ Len(result) - Cardinality(ToSet(result)) <= opened
=============================================================================
