----------------------- MODULE QueueImplementsService -----------------------
(***************************************************************************)
(* The queue implements ReviewService: the status column is the phase, and *)
(* the dirty flag rereview_requested does the work of the two counters.    *)
(* It does so where no ticket is given up and no crash empties the         *)
(* cooldown cache; the runs named lost_* show what happens otherwise.      *)
(***************************************************************************)
EXTENDS ReviewQueue

PhaseOf(t) ==
    CASE t.status \in Queued  -> "owed"
      [] t.status = "running" -> "reviewing"
      [] OTHER                -> "idle"

Service ==
    INSTANCE ReviewService WITH
        phase <- [p \in PRs |-> PhaseOf(row[p])],
        asked <- pushes, started <- claimed, covered <- reviewed

(* Every behaviour of the queue is one of the service: no push is forgotten,
   none is reviewed twice, and reviews are one at a time. *)
ImplementsService == Service!ServiceSpec
=============================================================================
