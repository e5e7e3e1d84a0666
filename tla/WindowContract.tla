--------------------------- MODULE WindowContract ---------------------------
(***************************************************************************)
(* What the run is promised by the three questions it asks the observer    *)
(* (run.ClusterObserver in internal/run/ports.go).  ClusterWatch shows that *)
(* the window code keeps this promise; MergeAndRepair relies on it alone.   *)
(***************************************************************************)

(* A window ends with a result, the objects it names, or an error with     *)
(* neither.  "objects" is failuresOf(outcome): Failures, else Pending.      *)
Window(result, objects) == [result |-> result, objects |-> objects]

NoWindow == Window("none", {})
Unreadable == Window("error", {})

Windows(all) ==
  [result : {"none", "error", "pass", "fail", "stalled"}, objects : SUBSET all]

(* A pass and an error name nothing. *)
Silent(w) == w.result \in {"pass", "error"} /\ w.objects = {}

(* Watch with a revision; a result in "blind" may come with no object. *)
WatchReturns(all, blind) ==
  {w \in Windows(all) :
     \/ Silent(w)
     \/ w.result \in {"fail", "stalled"} /\ w.objects # {}
     \/ w.result \in blind}

(* Restored over the named objects; "stalled" is its "did not recover".     *)
(* Over no objects it is a Watch that asks for no revision.                *)
RestoredReturns(all, broken) ==
  IF broken = {}
    THEN WatchReturns(all, {})
    ELSE {w \in Windows(broken) :
            \/ Silent(w)
            \/ w.result = "stalled" /\ w.objects # {}}
=============================================================================
