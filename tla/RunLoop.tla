------------------------------- MODULE RunLoop -------------------------------
(***************************************************************************)
(* internal/run/run.go (Run, finish, closeSuperseded, process): one run    *)
(* over the queue, from discovery to its last event, with what it leaves   *)
(* behind in internal/history and internal/events when either store fails  *)
(* or the process dies.  What happens to one pull request is left to Gate  *)
(* and MergeAndRepair; here it only has one of the endings MergeAndRepair  *)
(* is shown to have (AttemptEndings).                                      *)
(***************************************************************************)
EXTENDS Queue, AttemptEndings, FiniteSets, SequencesExt

CONSTANTS
  Listings,      \* bound: the listings considered
  Outcomes,      \* bound: the endings of an attempt considered
  Faulty,        \* TRUE when calls may fail and the run may be interrupted
  StoreFaults    \* bound: writes to the history or the stream that fail

ASSUME LoopAssumption ==
  /\ \A listing \in Listings : listing \in Seq(ToSet(listing))
  /\ Outcomes \subseteq Endings
  /\ Faulty \in BOOLEAN /\ StoreFaults \in Nat

(* What a candidate's version is, once parsed. *)
ASSUME CandidateAssumption ==
  \A listing \in Listings : \A i \in DOMAIN listing :
    listing[i].aside \in BOOLEAN /\ Readable(listing[i].version)

VARIABLES
  queue,         \* the listing, in order
  dryRun,
  status,        \* what became of each pull request on the forge
  cancelled,
  pc, position,
  superseded,    \* the candidates the discovery marked as such
  attempts,      \* Run.Attempts, as handed to the recorder
  halted,        \* Run.Halted is set
  stream,        \* the events emitted that tell of the run and its writes
  sink, latched, \* those on file; the emitter has failed once
  row, recorded, \* the run's row, and the attempts with one
  faults         \* ghost: writes that failed

told == <<stream, sink, latched>>
history == <<row, recorded>>
vars == <<queue, dryRun, status, cancelled, pc, position, superseded,
          attempts, halted, told, history, faults>>

Numbers == DOMAIN queue
Attempted(n, ending) == [number |-> n, ending |-> ending]
Event(kind, n) == [kind |-> kind, number |-> n]

Skipped == Ending("skipped", FALSE, "open")
Failed == Ending("error", FALSE, "open")
WouldMerge == Ending("would_merge", FALSE, "open")

Tellable ==
  [kind : {"run_started", "skipped", "closed", "assessed", "merged", "reverted",
           "halted", "run_finished"},
   number : Numbers \cup {0}]

TypeOK ==
  /\ queue \in Listings
  /\ dryRun \in BOOLEAN /\ cancelled \in BOOLEAN /\ halted \in BOOLEAN
  /\ status \in [DOMAIN queue -> {"open", "merged", "closed"}]
  /\ pc \in {"start", "discover", "loop", "record", "tell", "close", "next",
             "finish", "finishRow", "end", "done", "dead"}
  /\ position \in 1..(Len(queue) + 1) /\ superseded \in SUBSET DOMAIN queue
  /\ attempts \in Seq([number : Numbers, ending : Endings \cup {WouldMerge}])
  /\ stream \in Seq(Tellable) /\ sink \in Seq(Tellable) /\ latched \in BOOLEAN
  /\ row \in {"none", "started", "finished", "halted"}
  /\ recorded \in SUBSET Numbers /\ faults \in 0..StoreFaults

Init ==
  /\ queue \in Listings
  /\ dryRun \in BOOLEAN
  /\ status = [i \in DOMAIN queue |-> "open"]
  /\ cancelled = FALSE
  /\ pc = "start" /\ position = 1 /\ superseded = Superseded(queue)
  /\ attempts = <<>> /\ halted = FALSE
  /\ stream = <<>> /\ sink = <<>> /\ latched = FALSE
  /\ row = "none" /\ recorded = {} /\ faults = 0

Interrupt ==
  /\ Faulty /\ ~cancelled /\ pc \notin {"done", "dead"}
  /\ cancelled' = TRUE
  /\ UNCHANGED <<queue, dryRun, status, pc, position, superseded, attempts,
                 halted, told, history, faults>>

-----------------------------------------------------------------------------
(* The two stores.                                                         *)

StoreFails == faults < StoreFaults /\ faults' = faults + 1
StoreWorks == UNCHANGED faults

(* Mutant of Emit: a failed write costs only its own event. *)
MutEmitUnlatched(events) ==
  /\ stream' = stream \o events
  /\ \/ StoreWorks /\ sink' = sink \o events /\ UNCHANGED latched
     \/ /\ StoreFails /\ latched' = TRUE
        /\ sink' = sink \o SubSeq(events, 2, Len(events))

(* Emitter.Emit: after its first failed write it drops everything. *)
Emit(events) ==
  /\ stream' = stream \o events
  /\ \/ StoreWorks /\ sink' = sink \o (IF latched THEN <<>> ELSE events)
        /\ UNCHANGED latched
     \/ /\ ~latched /\ StoreFails /\ latched' = TRUE
        /\ \E k \in 0..(Len(events) - 1) : sink' = sink \o SubSeq(events, 1, k)

(* StartRun, on the run's own context: a cancelled one writes nothing.     *)
StartRun ==
  /\ pc = "start" /\ pc' = "discover"
  /\ \/ ~cancelled /\ row' = "started" /\ Emit(<<Event("run_started", 0)>>)
     \/ cancelled /\ UNCHANGED row /\ Emit(<<Event("run_started", 0)>>)
     \/ /\ ~cancelled /\ StoreFails /\ UNCHANGED <<row, latched>>
        /\ stream' = <<Event("run_started", 0)>> /\ sink' = stream'
  /\ UNCHANGED <<queue, dryRun, status, cancelled, position, superseded,
                 attempts, halted, recorded>>

(* Mutant of Outliving: the run's own context, which may be cancelled. *)
MutOutlivingNot == ~cancelled

(* outliving: a write that starts after an interrupt has a context of its  *)
(* own.                                                                    *)
Outliving == TRUE

Aside == queue[position].aside \/ position \in superseded

(* record: best effort.  Without the run's row the foreign key refuses the *)
(* attempt, and an interrupt that arrives during the write may cut it.     *)
Record ==
  /\ pc = "record"
  /\ \/ /\ StoreWorks /\ UNCHANGED cancelled
        /\ recorded' = IF row # "none" /\ Outliving THEN recorded \cup {position}
                                                    ELSE recorded
     \/ row # "none" /\ StoreFails /\ UNCHANGED <<recorded, cancelled>>
     \/ /\ Faulty /\ ~cancelled /\ cancelled' = TRUE
        /\ row # "none" /\ StoreFails /\ UNCHANGED recorded
  /\ pc' = IF Aside THEN "tell" ELSE "next"
  /\ UNCHANGED <<queue, dryRun, status, position, superseded, attempts, halted,
                 told, row>>

-----------------------------------------------------------------------------
(* The queue is classified once, when it is listed; the classification     *)
(* reads nothing but the listing, so Init holds it already.                *)
Discover ==
  /\ pc = "discover"
  /\ \/ ~cancelled /\ pc' = "loop"
     \/ Faulty /\ pc' = "finish"
  /\ UNCHANGED <<queue, dryRun, status, cancelled, position, superseded, attempts, halted,
                 told, history, faults>>

AtCandidate == pc = "loop" /\ ~cancelled /\ position \in DOMAIN queue
GoOn == pc' = "loop" /\ position' = position + 1

(* The queue is drained, or the context is cancelled. *)
LeaveLoop ==
  /\ pc = "loop" /\ (cancelled \/ position \notin DOMAIN queue)
  /\ pc' = "finish"
  /\ UNCHANGED <<queue, dryRun, superseded, status, cancelled, position, attempts,
                 halted, told, history, faults>>

(* A candidate that is not processed is still accounted for ... *)
SkipCandidate ==
  /\ AtCandidate /\ Aside
  /\ attempts' = Append(attempts, Attempted(position, Skipped))
  /\ pc' = "record"
  /\ UNCHANGED <<queue, dryRun, superseded, status, cancelled, position, halted,
                 told, history, faults>>

Closes == position \in superseded /\ ~dryRun

(* ... and told of once it is recorded. *)
TellSkipped ==
  /\ pc = "tell"
  /\ Emit(<<Event("skipped", position)>>)
  /\ IF Closes THEN pc' = "close" /\ UNCHANGED position ELSE GoOn
  /\ UNCHANGED <<queue, dryRun, superseded, status, cancelled, attempts, halted,
                 history>>

ForgeCloses == status' = [status EXCEPT ![position] = "closed"]

(* closeSuperseded; its comment is best effort. *)
CloseSuperseded ==
  /\ pc = "close" /\ ~cancelled
  /\ ForgeCloses
  /\ Emit(<<Event("closed", position)>>)
  /\ GoOn
  /\ UNCHANGED <<queue, dryRun, superseded, cancelled, attempts, halted,
                 history>>

(* Mutant of CloseFails: the event is emitted before the answer is looked at.*)
MutCloseFailsTold ==
  /\ pc = "close" /\ Faulty
  /\ UNCHANGED status
  /\ Emit(<<Event("closed", position)>>)
  /\ GoOn
  /\ UNCHANGED <<queue, dryRun, superseded, cancelled, attempts, halted,
                 history>>

(* Not worth failing the run over; the close may have landed all the same. *)
CloseFails ==
  /\ pc = "close" /\ Faulty
  /\ UNCHANGED status \/ ForgeCloses
  /\ GoOn
  /\ UNCHANGED <<queue, dryRun, superseded, cancelled, attempts, halted,
                 told, history, faults>>

-----------------------------------------------------------------------------
(* process: the gate, and what follows when it says merge. *)

(* A merge whose answer was lost for good need not be told of; an          *)
(* attempt set aside because the head moved is told of as a skipped one.   *)
Told(e) ==
  LET assessed == <<Event("assessed", position)>>
      merged == assessed \o <<Event("merged", position)>>
  IN  IF e.request # "merged"
        THEN {assessed} \cup
             (IF e = Skipped /\ ~dryRun THEN {assessed \o <<Event("skipped", position)>>}
              ELSE {})
      ELSE IF e.verdict = "error" THEN {assessed, merged}
      ELSE IF e.verdict = "reverted"
             THEN {merged \o <<Event("reverted", position)>>}
      ELSE {merged}

(* How the pull request of an attempt stands when the attempt ends. *)
SoFar(request) == IF request = "merged" THEN "merged" ELSE "open"

Process ==
  /\ AtCandidate /\ ~Aside
  /\ \E e \in IF dryRun THEN {WouldMerge, Skipped, Failed} ELSE Outcomes :
       /\ e.halted \/ e.verdict = "error" => Faulty
       /\ attempts' = Append(attempts, Attempted(position, e))
       /\ status' = [status EXCEPT ![position] = SoFar(e.request)]
       /\ \E events \in Told(e) : Emit(events)
  /\ pc' = "record"
  /\ UNCHANGED <<queue, dryRun, superseded, cancelled, position, halted, history>>

(* A merge the client gave up on is carried out late, whatever the run has *)
(* come to by then.                                                        *)
Unanswered == {k \in DOMAIN attempts : attempts[k].ending.request = "underway"}

UnansweredLands ==
  /\ \E k \in Unanswered :
       status[k] = "open" /\ status' = [status EXCEPT ![k] = "merged"]
  /\ UNCHANGED <<queue, dryRun, superseded, cancelled, pc, position, attempts,
                 halted, told, history, faults>>

(* The process dies, between two writes or in the middle of an attempt,    *)
(* which may have merged and told of it by then.                           *)
Crash ==
  /\ Faulty /\ pc \notin {"done", "dead"}
  /\ pc' = "dead"
  /\ \/ UNCHANGED <<status, told, faults>>
     \/ /\ AtCandidate /\ ~Aside /\ ~dryRun
        /\ status' \in {status, [status EXCEPT ![position] = "merged"]}
        /\ Emit(IF status' = status THEN <<Event("assessed", position)>>
                ELSE <<Event("assessed", position), Event("merged", position)>>)
     \/ /\ AtCandidate /\ ~Aside /\ ~dryRun
        /\ status' = [status EXCEPT ![position] = "merged"]
        /\ Emit(<<Event("assessed", position)>>)
  /\ UNCHANGED <<queue, dryRun, cancelled, position, superseded,
                 attempts, halted, history>>

(* A halted attempt ends the loop, any other moves it on. *)
AfterAttempt ==
  /\ pc = "next"
  /\ IF attempts[Len(attempts)].ending.halted
       THEN pc' = "finish" /\ halted' = TRUE /\ UNCHANGED position
       ELSE GoOn /\ UNCHANGED halted
  /\ UNCHANGED <<queue, dryRun, superseded, status, cancelled, attempts, told,
                 history, faults>>

-----------------------------------------------------------------------------
(* finish: the only end a run has. *)

Finish ==
  /\ pc = "finish"
  /\ IF halted THEN Emit(<<Event("halted", 0)>>) ELSE UNCHANGED <<told, faults>>
  /\ pc' = "finishRow"
  /\ UNCHANGED <<queue, dryRun, superseded, status, cancelled, position, attempts,
                 halted, history>>

(* FinishRun: there may be no row to finish. *)
FinishRun ==
  /\ pc = "finishRow" /\ pc' = "end"
  /\ \/ /\ StoreWorks
        /\ row' = IF row = "none" \/ ~Outliving THEN row
                  ELSE IF halted THEN "halted" ELSE "finished"
     \/ row # "none" /\ StoreFails /\ UNCHANGED row
  /\ UNCHANGED <<queue, dryRun, superseded, status, cancelled, position, attempts,
                 halted, told, recorded>>

LastWord ==
  /\ pc = "end" /\ pc' = "done"
  /\ Emit(<<Event("run_finished", 0)>>)
  /\ UNCHANGED <<queue, dryRun, superseded, status, cancelled, position, attempts,
                 halted, history>>

Finished == pc \in {"done", "dead"} /\ UNCHANGED vars

Program ==
  \/ StartRun \/ Discover \/ LeaveLoop \/ SkipCandidate \/ TellSkipped
  \/ CloseSuperseded \/ CloseFails \/ Process \/ Record \/ AfterAttempt
  \/ Finish \/ FinishRun \/ LastWord

Next == Program \/ UnansweredLands \/ Interrupt \/ Crash \/ Finished

(* One goroutine; every call it makes is bounded by a deadline or by the   *)
(* operator's answer (see Gate and MergeAndRepair).                        *)
Spec == Init /\ [][Next]_vars /\ WF_vars(Program)

-----------------------------------------------------------------------------
(* Closing is a write the run cannot undo.  Whatever it closed, the queue  *)
(* held an offer of the same deployment which it did not close: a strictly *)
(* newer one ("keeps only the newest target version", markSuperseded)      *)
(* wherever the numbers of the queue's versions fit an int; where one does *)
(* not, compareIdentifier is no order and the offer that stays may be the  *)
(* older one, but no deployment loses its last update.                     *)
NoUpdateIsLost ==
  \A i \in DOMAIN queue : status[i] = "closed" =>
    \E j \in DOMAIN queue :
      /\ status[j] # "closed" /\ Rivals(queue[i], queue[j])
      /\ (\A k \in DOMAIN queue : Fits(queue[k].version)) => ReplacedBy(queue[i], queue[j])

(* Attempts account for the queue in its order, without a gap; a run that  *)
(* was neither halted nor stopped accounts for all of it, and only the     *)
(* last attempt of a run can be a halted one.                              *)
QueueIsAccountedFor ==
  /\ \A k \in DOMAIN attempts :
       /\ attempts[k].number = k
       /\ attempts[k].ending.halted =>
            k = Len(attempts) /\ (halted \/ pc \in {"record", "next", "dead"})
  /\ pc = "done" /\ ~halted /\ ~cancelled /\ attempts # <<>> =>
       Len(attempts) = Len(queue)

(* A dry run writes nothing to the forge. *)
DryRunWritesNothing == [][dryRun => UNCHANGED status]_vars

(* The stream claims no write that was not made; of a run neither halted   *)
(* nor killed it misses no merge but one carried out after the attempt had *)
(* given up on it; and its last words say how the run ended.               *)
Telling(events, kind) ==
  {events[k].number : k \in {m \in DOMAIN events : events[m].kind = kind}}
On(state) == {i \in DOMAIN queue : status[i] = state}
StreamIsTheRecord ==
  /\ Telling(stream, "closed") \subseteq On("closed")
  /\ Telling(stream, "merged") \subseteq On("merged")
  /\ pc = "done" /\ ~halted => On("merged") \ Unanswered \subseteq Telling(stream, "merged")
  /\ pc = "done" =>
       /\ stream[Len(stream)].kind = "run_finished"
       /\ halted <=> stream[Len(stream) - 1].kind = "halted"

(* What is on file has no hole: whoever reads an event there has every     *)
(* event emitted before it, and all of them unless a write failed.         *)
FileHasNoHole ==
  /\ IsPrefix(sink, stream)
  /\ ~latched => sink = stream

(* The history misses no more attempts than writes failed, an interrupt at *)
(* any point included, and names no attempt of a run it does not know;     *)
(* only a run whose own row failed is missing as a whole.                  *)
HistoryMissesOnlyFaults ==
  /\ recorded \subseteq {attempts[k].number : k \in DOMAIN attempts}
  /\ row = "none" => recorded = {}
  /\ pc \notin {"record", "dead"} /\ Len(attempts) - Cardinality(recorded) > faults =>
       row = "none" /\ faults > 0

(* In the history an unfinished run is one whose process died or whose     *)
(* finish could not be written, and a finished one halted as its row says. *)
UnfinishedMeansDied ==
  /\ pc = "done" /\ row = "started" => faults > 0
  /\ row = "halted" => halted
  /\ row = "finished" => ~halted
=============================================================================
