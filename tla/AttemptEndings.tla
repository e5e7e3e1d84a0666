--------------------------- MODULE AttemptEndings ---------------------------
(***************************************************************************)
(* How one attempt may end, as far as the run that goes on after it can    *)
(* tell (the results of process in internal/run/run.go), and how the pull  *)
(* request then stands: open, merged, or open with a merge underway that   *)
(* the client gave up on and the forge may still carry out.                *)
(* MergeAndRepair is shown to end in one of these; RunLoop relies on that  *)
(* alone.                                                                  *)
(***************************************************************************)
Ending(verdict, halted, request) ==
  [verdict |-> verdict, halted |-> halted, request |-> request]

(* The run goes on: nothing was merged so far, or what was is explained. *)
Accounted(verdict, request) ==
  \/ request = "open" /\ verdict \in {"error", "skipped"}
  \/ request = "underway" /\ verdict = "error"
  \/ request = "merged" /\ verdict \in {"merged", "fixed", "kept", "reverted"}

(* The run stops: nobody can say, or the cluster is not what it was. *)
Stopped(verdict, request) ==
  \/ verdict = "error"
  \/ verdict = "reverted" /\ request = "merged"

Endings ==
  {e \in [verdict : {"error", "skipped", "merged", "fixed", "kept", "reverted"},
          halted : BOOLEAN, request : {"open", "underway", "merged"}] :
     IF e.halted THEN Stopped(e.verdict, e.request)
                 ELSE Accounted(e.verdict, e.request)}
=============================================================================
