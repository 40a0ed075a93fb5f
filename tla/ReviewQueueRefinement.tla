----------------------- MODULE ReviewQueueRefinement -----------------------
(***************************************************************************)
(* Where no attempt fails and no process dies, the queue keeps what        *)
(* ReviewService promises, and loses no push: for any number of pull       *)
(* requests, pushes, closes, rate limits and caps, and any configuration.  *)
(***************************************************************************)
EXTENDS ReviewQueueSafety, QueueImplementsService

USE DEF clockVars, dbVars, githubVars, memoryVars, ticketVars, taskVars, boundVars,
        arrivalVars, servedVars, historyVars

-----------------------------------------------------------------------------
(* A running row is owned. *)

(* The database answers and holds a usable cooldown. *)
SoundDatabase == Troubles \cap {"database", "cooldown"} = {}

(* From the refresh of a claimed ticket on, the cooldown is in memory:
   finalize_review does not raise. *)
Refreshed == pc \in Working \ {"refresh"} => cooldown_cached

(* One of the three statements of discard_skipped_ticket matches. *)
Discarding ==
    /\ pc = "rearm" =>
          row[pr].rereview_requested \/ row[pr].last_reviewed_at # Null
    /\ pc = "revert" => row[pr].last_reviewed_at # Null

OInv == RunningIsOwned /\ Refreshed /\ Discarding

(* Nothing runs between two tickets. *)
LEMMA NothingRuns ==
    ASSUME OInv, pc \notin Working, pc # "down"
    PROVE  \A p \in PRs : row[p].status # "running"
BY DEF OInv, RunningIsOwned

(* What keeps OInv: no row becomes running, the dispatcher keeps its ticket
   while that runs, and discard_skipped_ticket is where it was. *)
LEMMA OwnedKeeps ==
    ASSUME OInv,
           \A p \in PRs : row'[p].status = "running" =>
              /\ row[p].status = "running"
              /\ pc = "down" => pc' = "down"
              /\ p = pr /\ pc \in Working => pc' = "down" \/ (pr' = pr /\ pc' \in Working),
           pc' \in Working \ {"refresh"} => cooldown_cached',
           pc' \in {"rearm", "revert"} =>
              /\ pc' = pc /\ pr' = pr
              /\ row'[pr].last_reviewed_at = row[pr].last_reviewed_at
              /\ row[pr].rereview_requested => row'[pr].rereview_requested
    PROVE  OInv'
<1>1. RunningIsOwned' /\ Refreshed'
  BY DEF OInv, RunningIsOwned, Refreshed
<1>2. Discarding'
  BY DEF OInv, Discarding
<1> QED
  BY <1>1, <1>2 DEF OInv

(* The attempt goes on and no row changes. *)
LEMMA OwnedGoesOn ==
    ASSUME OInv, UNCHANGED row, pc \in Working, pr' = pr,
           pc' \in Working \ {"refresh", "rearm", "revert"}, cooldown_cached'
    PROVE  OInv'
<1> pc # "down"
  BY DEF Working
<1> QED
  BY OwnedKeeps

(* The attempt ends, and its row no longer runs. *)
LEMMA OwnedLeaves ==
    ASSUME IInv, OInv, pc \in Working, NEW u, u.status # "running",
           row' = [row EXCEPT ![pr] = u], pc' \notin Working
    PROVE  OInv'
<1>1. \A p \in PRs : row'[p] = IF p = pr THEN u ELSE row[p]
  BY DEF IInv, TypeOK
<1>2. pc # "down" /\ pc' \notin {"rearm", "revert"}
  BY DEF Working
<1>3. \A p \in PRs : row'[p].status # "running"
  BY <1>1, <1>2 DEF OInv, RunningIsOwned
<1> QED
  BY <1>2, <1>3, OwnedKeeps

(* Between tickets. *)
LEMMA OwnedBetween ==
    ASSUME OInv, pc \notin Working, pc # "down", pc' \notin Working,
           \A p \in PRs : row'[p].status = row[p].status
    PROVE  OInv'
<1>1. \A p \in PRs : row'[p].status # "running"
  BY NothingRuns
<1>2. pc' \notin {"rearm", "revert"}
  BY DEF Working
<1> QED
  BY <1>1, <1>2, OwnedKeeps

-----------------------------------------------------------------------------
(* Whoever writes a row beside the dispatcher sets none running. *)
LEMMA OwnedAside ==
    ASSUME IInv, OInv, NEW q \in PRs, NEW u,
           row' = row \/ row' = [row EXCEPT ![q] = u],
           UNCHANGED <<pc, pr, cooldown_cached>>,
           u.status = "running" =>
              /\ row[q].status = "running"
              /\ u.last_reviewed_at = row[q].last_reviewed_at
              /\ row[q].rereview_requested => u.rereview_requested,
           row[q].status = "running" => u.status = "running"
    PROVE  OInv'
<1>1. row' = row \/ \A p \in PRs : row'[p] = IF p = q THEN u ELSE row[p]
  BY DEF IInv, TypeOK
<1>2. pc \in {"rearm", "revert"} => pr \in PRs /\ row[pr].status = "running"
  BY AtWork DEF Working
<1>3. pc' \in Working \ {"refresh"} => cooldown_cached'
  BY DEF OInv, Refreshed
<1> QED
  BY <1>1, <1>2, <1>3, OwnedKeeps

(* GitHub and the clock touch no row and not the dispatcher. *)
LEMMA OwnedWorld == OInv /\ (World \/ UNCHANGED vars) => OInv'
<1> SUFFICES ASSUME OInv, World \/ UNCHANGED vars PROVE OInv'
  OBVIOUS
<1>1. UNCHANGED <<row, pc, pr, cooldown_cached>>
  BY DEF World, Tick, Push, ClosePR, Happens, DeleteComment, vars
<1> QED
  BY <1>1 DEF OInv, RunningIsOwned, Refreshed, Discarding

(* The handlers never set a row running, nor take a running one away. *)
LEMMA OwnedWebhooks == IInv /\ OInv /\ Webhooks => OInv'
<1> SUFFICES ASSUME IInv, OInv, Webhooks PROVE OInv'
  OBVIOUS
<1>1. UNCHANGED <<pc, pr, cooldown_cached>>
  BY DEF Webhooks, WebhookRaises, HandlePush, HandleClose, StripCancelled, ClearCancelled, Handler
<1>2. CASE UNCHANGED row
  BY <1>1, <1>2 DEF OInv, RunningIsOwned, Refreshed, Discarding
<1>3. ASSUME NEW d \in inbox, HandlePush(d) PROVE OInv'
  <2> DEFINE t == row[d.pr]
             u == EnqueueOrUpdate(t, nextId, clock)
  <2>1. d.pr \in PRs /\ t \in Row /\ nextId \in Nat /\ clock \in Nat
    BY DEF IInv, TypeOK, Delivery
  <2>2. /\ u.status = "running" => t.status = "running"
        /\ t.status = "running" =>
              /\ u.status = "running" /\ u.last_reviewed_at = t.last_reviewed_at
    BY <2>1, EnqueueRow DEF SameWork
  <2>3. t.status = "running" => u.rereview_requested
    <3> SUFFICES ASSUME t.status = "running" PROVE u.rereview_requested
      OBVIOUS
    <3>1. u = [t EXCEPT !.rereview_requested = TRUE]
      BY DEF EnqueueOrUpdate, Queued, Waiting
    <3> HIDE DEF u
    <3> QED
      BY <2>1, <3>1 DEF Row
  <2> HIDE DEF u
  <2>4. row' = row \/ row' = [row EXCEPT ![d.pr] = u]
    BY <1>3 DEF HandlePush, u
  <2> QED
    BY <1>1, <2>1, <2>2, <2>3, <2>4, OwnedAside
<1>4. ASSUME NEW d \in inbox, HandleClose(d) PROVE OInv'
  <2> DEFINE t == row[d.pr]
             u == CancelTicket(t)
  <2>1. d.pr \in PRs /\ t \in Row
    BY DEF IInv, TypeOK, Delivery
  <2>2. (t.status = "running" => u = t) /\ u.status \in {"cancelled", t.status}
    BY <2>1, CancelRow
  <2> HIDE DEF u
  <2>3. row' = [row EXCEPT ![d.pr] = u]
    BY <1>4 DEF HandleClose, u
  <2> QED
    BY <1>1, <2>1, <2>2, <2>3, OwnedAside
<1>5. ASSUME NEW s \in stripping, ClearCancelled(s) PROVE OInv'
  <2> DEFINE t == row[s.pr]
             u == IF t.id = s.id THEN ClearNotice(t) ELSE t
  <2>1. s.pr \in PRs /\ t \in Row
    BY DEF IInv, TypeOK, Stripping
  <2>2. /\ u.status = t.status /\ u.last_reviewed_at = t.last_reviewed_at
        /\ u.rereview_requested = t.rereview_requested
    BY <2>1 DEF ClearNotice, Row
  <2> HIDE DEF u
  <2>3. row' = [row EXCEPT ![s.pr] = u]
    BY <1>5 DEF ClearCancelled, u
  <2> QED
    BY <1>1, <2>1, <2>2, <2>3, OwnedAside
<1> QED
  BY <1>2, <1>3, <1>4, <1>5 DEF Webhooks, WebhookRaises, StripCancelled

-----------------------------------------------------------------------------
(* The dispatcher's steps. *)
LEMMA OwnedClaim ==
    ASSUME IInv, OInv, NEW p \in PRs, ClaimNextDue(p)
    PROVE  OInv'
<1>1. pc = "claim" /\ pc' = "refresh" /\ pr' = p /\ row' = [row EXCEPT ![p] = Claim(row[p])]
  BY DEF ClaimNextDue, Task
<1>2. \A q \in PRs : row'[q].status = "running" => q = p
  BY <1>1, NothingRuns DEF IInv, TypeOK, Working
<1> QED
  BY <1>1, <1>2 DEF OInv, RunningIsOwned, Refreshed, Discarding, Working

(* From one await of the attempt to the next. *)
LEMMA OwnedAwaits ==
    ASSUME SoundDatabase, IInv, OInv,
           \/ RefreshConfig \/ StripNotice \/ Proceed \/ Reviewed \/ AttemptFails
           \/ ReviewSkipped \/ ReviewRateLimited \/ PostReview \/ PostFailureNotice
    PROVE  OInv'
<1>1. /\ UNCHANGED <<row, pr>> /\ pc \in Working
      /\ pc' \in Working \ {"refresh", "rearm", "revert"}
  BY DEF RefreshConfig, StripNotice, Proceed, Reviewed, AttemptFails, ReviewSkipped,
         ReviewRateLimited, Attempt, PostReview, PostFailureNotice, Task, Working,
         Goto, GotoWith, EditThen
<1>2. cooldown_cached'
  BY DEF OInv, Refreshed, SoundDatabase, Trouble, RefreshConfig, StripNotice, Proceed, Reviewed,
         AttemptFails, ReviewSkipped, ReviewRateLimited, Attempt, PostReview,
         PostFailureNotice, Task, Working
<1> QED
  BY <1>1, <1>2, OwnedGoesOn

(* A row is written and the attempt goes on. *)
LEMMA OwnedRecords ==
    ASSUME IInv, OInv, RecordStrip \/ RecordNotice
    PROVE  OInv'
<1>1. /\ pc \in Working /\ pr' = pr /\ pc' \in Working \ {"refresh", "rearm", "revert"}
      /\ pc # "refresh" /\ pc # "down" /\ UNCHANGED cooldown_cached
  BY DEF RecordStrip, RecordNotice, Task, Working, Goto, GotoWith
<1>2. cooldown_cached'
  BY <1>1 DEF OInv, Refreshed
<1>3. PICK u : row' = [row EXCEPT ![pr] = u]
  BY DEF RecordStrip, RecordNotice, Write
<1>4. \A p \in PRs : row'[p].status = "running" => p = pr
  BY <1>1, <1>3 DEF OInv, RunningIsOwned, IInv, TypeOK
<1>5. row[pr].status = "running"
  BY <1>1, AtWork
<1> QED
  BY <1>1, <1>2, <1>4, <1>5, OwnedKeeps

(* The ways out of an attempt leave the row in another status. *)
LEMMA OwnedEnds ==
    ASSUME IInv, OInv,
           \/ TuningUnavailable \/ CapReached \/ Blocked \/ RecordRateLimit
           \/ RetryLater \/ MarkTicketFailed \/ NoticeNotPosted \/ Finalize
    PROVE  OInv'
<1>1. pc \in Working /\ pr \in PRs /\ row[pr] \in Row
  BY AtWork DEF TuningUnavailable, CapReached, Blocked, RecordRateLimit, RetryLater, MarkTicketFailed,
         NoticeNotPosted, Finalize, Task, Working
<1>2. ASSUME NEW u, DeferTo(u), u.status # "running" PROVE OInv'
  <2>1. row' = [row EXCEPT ![pr] = u] /\ pc' \notin Working
    BY <1>2 DEF DeferTo, Write, EndStep, Goto, GotoWith, Working
  <2> QED
    BY <1>1, <1>2, <2>1, OwnedLeaves
<1>3. ASSUME NEW u, Write(u), EndStep, u.status # "running" PROVE OInv'
  <2>1. row' = [row EXCEPT ![pr] = u] /\ pc' \notin Working
    BY <1>3 DEF Write, EndStep, Working
  <2> QED
    BY <1>1, <1>3, <2>1, OwnedLeaves
<1>4. CASE TuningUnavailable \/ CapReached \/ Blocked \/ RecordRateLimit
  <2>1. \A until : /\ DeferRateLimited(row[pr], until).status = "deferred"
                   /\ DeferUsageCapped(row[pr], until).status = "deferred"
    BY <1>1 DEF DeferRateLimited, DeferUsageCapped, Row
  <2>2. PICK u : DeferTo(u) /\ u.status # "running"
    BY <1>4, <2>1 DEF TuningUnavailable, CapReached, Blocked, RecordRateLimit
  <2> QED
    BY <1>2, <2>2
<1>5. CASE RetryLater \/ MarkTicketFailed \/ NoticeNotPosted
  <2>1. MarkFailed(row[pr]).status = "failed"
    BY <1>1 DEF MarkFailed, Row
  <2>2. \A until : DeferFailed(row[pr], until).status = "retrying"
    BY <1>1 DEF DeferFailed, Row
  <2>3. PICK u : Write(u) /\ EndStep /\ u.status # "running"
    BY <1>5, <2>1, <2>2 DEF RetryLater, MarkTicketFailed, NoticeNotPosted, BackOff
  <2> QED
    BY <1>3, <2>3
<1>6. CASE Finalize
  <2>1. cooldown_cached
    BY <1>6 DEF OInv, Refreshed, Finalize, Task, Working
  <2> DEFINE until == now + effective_cooldown(ticket.cooldown_level)
             level == next_cooldown_level(ticket.cooldown_level)
             u == FinalizeReview(row[pr], now, until, level, posted)
  <2>2. u.status # "running"
    <3>1. /\ now \in Nat /\ posted \in Nat \cup {Null}
          /\ ticket.cooldown_level \in 0..MaxCooldownLevel
      BY DEF IInv, TypeOK, Row
    <3>2. /\ effective_cooldown(ticket.cooldown_level) \in Nat
          /\ effective_cooldown(ticket.cooldown_level) >= CooldownBase
      BY <3>1, EffectiveCooldown
    <3>3. until \in Nat /\ until >= now + CooldownBase
      BY <3>1, <3>2, CooldownAssumption
    <3>4. level \in 0..MaxCooldownLevel
      BY <3>1, NextLevel
    <3> QED
      BY <1>1, <3>1, <3>3, <3>4, FinalizeRow
  <2> HIDE DEF u
  <2>3. Write(u) /\ EndStep
    BY <1>6, <2>1 DEF Finalize, u
  <2> QED
    BY <1>3, <2>2, <2>3
<1> QED
  BY <1>4, <1>5, <1>6

(* The statements of discard_skipped_ticket: the last one matches if neither
   of the others did. *)
LEMMA OwnedDiscard ==
    ASSUME IInv, OInv, DiscardSkipped
    PROVE  OInv'
<1>1. /\ pc \in {"delete", "rearm", "revert"} /\ pc \in Working
      /\ UNCHANGED cooldown_cached
  BY DEF DiscardSkipped, Discard, Task, Working
<1>2. pr \in PRs /\ row[pr] \in Row
  BY <1>1, AtWork
<1>3. ASSUME NEW u, Write(u), EndStep, u.status # "running" PROVE OInv'
  <2>1. row' = [row EXCEPT ![pr] = u] /\ pc' \notin Working
    BY <1>3 DEF Write, EndStep, Working
  <2> QED
    BY <1>1, <1>3, <2>1, OwnedLeaves
<1>4. ASSUME UNCHANGED row, Goto("rearm") \/ Goto("revert"), Discarding' PROVE OInv'
  <2>1. pr' = pr /\ pc' \in Working /\ cooldown_cached'
    BY <1>1, <1>4 DEF Goto, GotoWith, Working, OInv, Refreshed
  <2>2. pc # "down"
    BY <1>1
  <2> QED
    BY <1>4, <2>1, <2>2 DEF OInv, RunningIsOwned, Refreshed
<1>5. CASE Discard("delete", DiscardDeletes(row[pr]), NoRow, "rearm")
  <2>1. CASE DiscardDeletes(row[pr])
    BY <1>3, <1>5, <2>1 DEF Discard, NoRow
  <2>2. CASE ~DiscardDeletes(row[pr])
    <3>1. UNCHANGED row /\ Goto("rearm")
      BY <1>5, <2>2 DEF Discard
    <3>2. Discarding'
      BY <2>2, <3>1 DEF Discarding, DiscardDeletes, Goto, GotoWith
    <3> QED
      BY <1>4, <3>1, <3>2
  <2> QED
    BY <2>1, <2>2
<1>6. CASE Discard("rearm", DiscardRearms(row[pr]), DiscardRearm(row[pr]), "revert")
  <2>1. CASE DiscardRearms(row[pr])
    <3>1. DiscardRearm(row[pr]).status # "running"
      BY <1>2, DiscardRow
    <3> QED
      BY <1>3, <1>6, <2>1, <3>1 DEF Discard
  <2>2. CASE ~DiscardRearms(row[pr])
    <3>1. UNCHANGED row /\ Goto("revert") /\ pc = "rearm"
      BY <1>6, <2>2 DEF Discard, Task
    <3>2. Discarding'
      BY <2>2, <3>1 DEF OInv, Discarding, DiscardRearms, Goto, GotoWith
    <3> QED
      BY <1>4, <3>1, <3>2
  <2> QED
    BY <2>1, <2>2
<1>7. CASE Discard("revert", DiscardReverts(row[pr]), DiscardRevert(row[pr]), "sweep")
  <2>1. DiscardReverts(row[pr])
    BY <1>7 DEF OInv, Discarding, DiscardReverts, Discard, Task
  <2>2. DiscardRevert(row[pr]).status # "running"
    BY <1>2, DiscardRow
  <2> QED
    BY <1>3, <1>7, <2>1, <2>2 DEF Discard
<1> QED
  BY <1>5, <1>6, <1>7 DEF DiscardSkipped

(* After a deferral, and in the sweep. *)
LEMMA OwnedElsewhere ==
    ASSUME IInv, OInv,
           \/ NothingDue \/ PostPlaceholder \/ SaveCommentId \/ SweepRead
           \/ \E s \in todo : AppendNotice(s) \/ RecordAppend(s)
    PROVE  OInv'
<1>1. pc \notin Working /\ pc # "down" /\ pc' \notin Working
  BY DEF NothingDue, PostPlaceholder, SaveCommentId, SweepRead, AppendNotice, RecordAppend, Task,
         Working, Goto, GotoWith, EditThen, EndStep, Rest
<1>2. CASE UNCHANGED row
  BY <1>1, <1>2, OwnedBetween
<1>3. CASE SaveCommentId
  <2>1. pr \in PRs /\ row[pr] \in Row /\ posted \in Nat \cup {Null}
    BY <1>3 DEF SaveCommentId, Task, IInv, HeldTicket, TypeOK, Deferred
  <2> DEFINE u == SetCommentId(row[pr], posted)
  <2>2. u.status = row[pr].status
    BY <2>1, BookkeepingRow DEF Bookkeeping, SameWork
  <2>3. row' = [row EXCEPT ![pr] = u]
    BY <1>3 DEF SaveCommentId, Write
  <2> HIDE DEF u
  <2> QED
    BY <1>1, <2>1, <2>2, <2>3, OwnedBetween DEF IInv, TypeOK
<1>4. ASSUME NEW s \in todo, RecordAppend(s) PROVE OInv'
  <2>1. s.pr \in PRs
    BY DEF IInv, TypeOK, Notice
  <2>2. PICK u : Bookkeeping(row[s.pr], u) /\ row' = [row EXCEPT ![s.pr] = u]
    BY <1>4, AppendIsBookkeeping
  <2> QED
    BY <1>1, <2>1, <2>2, OwnedBetween DEF Bookkeeping, SameWork, IInv, TypeOK
<1> QED
  BY <1>2, <1>3, <1>4 DEF NothingDue, PostPlaceholder, SweepRead, AppendNotice

(* So every step of the dispatcher preserves OInv... *)
LEMMA OwnedDispatcher == SoundDatabase /\ IInv /\ OInv /\ Dispatcher => OInv'
BY OwnedClaim, OwnedAwaits, OwnedRecords, OwnedEnds, OwnedDiscard, OwnedElsewhere
   DEF Dispatcher, ProcessNextDue, PostPendingNotices

(* A crash, and the boot that recovers what it left. *)
LEMMA OwnedBoots == IInv /\ OInv /\ (Crash \/ Restart) => OInv'
<1> SUFFICES ASSUME IInv, OInv, Crash \/ Restart PROVE OInv'
  OBVIOUS
<1>1. CASE Crash
  BY <1>1 DEF Crash, OInv, RunningIsOwned, Refreshed, Discarding, Working
<1>2. CASE Restart
  <2>1. pc' = "claim" /\ \A p \in PRs : row'[p].status # "running"
    BY <1>2, RecoverRow DEF Restart, Task, Goto, GotoWith, IInv, TypeOK
  <2> QED
    BY <2>1 DEF OInv, RunningIsOwned, Refreshed, Discarding, Working
<1> QED
  BY <1>1, <1>2

(* ...and, when no statement fails, every step of the queue. *)
LEMMA NextOInv == SoundDatabase /\ IInv /\ OInv /\ [Next]_vars => OInv'
<1>1. SoundDatabase => ~DatabaseFails
  BY DEF SoundDatabase, DatabaseFails, Trouble
<1> QED
  BY <1>1, OwnedWorld, OwnedWebhooks, OwnedDispatcher, OwnedBoots DEF Next

(* An empty queue runs nothing. *)
LEMMA InitOInv == Init => OInv
BY DEF Init, OInv, RunningIsOwned, Refreshed, Discarding, Working, NoRow

(* While the database answers, no way out of process_next_due leaves a row
   running behind: whatever pushes, failures, skips, rate limits, failing calls
   to GitHub and crashes interleave. *)
THEOREM RunningStaysOwned == ASSUME SoundDatabase PROVE Spec => []RunningIsOwned
<1>1. IInv /\ OInv /\ [Next]_vars => OInv'
  BY NextOInv
<1>2. OInv => RunningIsOwned
  BY DEF OInv
<1> QED
  BY <1>1, <1>2, InitOInv, Invariance, PTL DEF Spec

-----------------------------------------------------------------------------
(* The refinement. *)

(* The troubles that run queue_service admits. *)
MildTroubles == Troubles \subseteq {"limited", "capped", "tuning", "deleted"}

(* The awaits that are left. *)
Ugly == {"failure", "noticed", "unnotified", "markFailed", "delete", "rearm", "revert", "down"}

(* No push is answered 500: what needs the cooldown was reviewed after a claim
   had read it. *)
Configured == \A p \in PRs : row[p].last_reviewed_at # Null => cooldown_cached

(* Where no push is owed, the claim followed the last one; while the ticket
   runs, the dirty flag tells. *)
Covered ==
    \A p \in PRs :
        /\ row[p].status # "failed"
        /\ row[p].status \in {"none", "done"} => claimed[p] = pushes[p]
        /\ row[p].status = "running" /\ ~row[p].rereview_requested =>
              claimed[p] = pushes[p]

MInv == pc \notin Ugly /\ Configured /\ Covered

Phase == [p \in PRs |-> PhaseOf(row[p])]
Implements == [Service!ServiceNext]_(Service!serviceVars)

(* One row changes, and with it one phase. *)
LEMMA PhaseMoves ==
    ASSUME IInv, NEW p \in PRs, NEW u, row' = [row EXCEPT ![p] = u]
    PROVE  /\ Phase' = [Phase EXCEPT ![p] = PhaseOf(u)]
           /\ Phase[p] = PhaseOf(row[p])
           /\ row'[p] = u /\ \A q \in PRs \ {p} : row'[q] = row[q]
<1>1. row'[p] = u /\ \A q \in PRs \ {p} : row'[q] = row[q]
  BY DEF IInv, TypeOK
<1>2. Phase' = [q \in PRs |-> PhaseOf(row'[q])]
  BY DEF Phase, PhaseOf
<1>3. [Phase EXCEPT ![p] = PhaseOf(u)] = [q \in PRs |-> IF q = p THEN PhaseOf(u) ELSE PhaseOf(row[q])]
  BY DEF Phase
<1>4. Phase' = [Phase EXCEPT ![p] = PhaseOf(u)]
  BY <1>1, <1>2, <1>3
<1> QED
  BY <1>1, <1>4 DEF Phase

(* The phase in terms of the status column. *)
LEMMA PhaseValues ==
    ASSUME NEW t
    PROVE  /\ PhaseOf(t) = "owed" <=> t.status \in Queued
           /\ PhaseOf(t) = "reviewing" <=> t.status = "running"
           /\ PhaseOf(t) = "idle" <=> t.status \notin Active
BY DEF PhaseOf, Active, Queued, Waiting

(* The service does not notice. *)
LEMMA MildQuiet ==
    ASSUME MInv, UNCHANGED <<row, pushes, claimed, reviewed>>, pc' \notin Ugly,
           cooldown_cached => cooldown_cached'
    PROVE  MInv' /\ Implements
<1>1. MInv'
  BY DEF MInv, Configured, Covered
<1>2. UNCHANGED Service!serviceVars
  BY DEF Service!serviceVars
<1> QED
  BY <1>1, <1>2 DEF Implements

(* A row is put off, withdrawn, or changed in a way the service does not
   notice. *)
LEMMA MildReplaces ==
    ASSUME IInv, MInv, NEW p \in PRs, NEW u, row' = [row EXCEPT ![p] = u],
           UNCHANGED <<pushes, claimed, reviewed>>, pc' \notin Ugly,
           cooldown_cached => cooldown_cached',
           u.last_reviewed_at \in {row[p].last_reviewed_at, Null},
           u.status \in {row[p].status, "deferred", "cancelled"},
           u.status = "running" => u.rereview_requested = row[p].rereview_requested,
           \/ u.status = row[p].status
           \/ row[p].status = "running" /\ u.status = "deferred"
           \/ row[p].status \in Queued /\ u.status = "cancelled"
    PROVE  MInv' /\ Implements
<1>1. row'[p] = u /\ \A q \in PRs \ {p} : row'[q] = row[q]
  BY PhaseMoves
<1>2. MInv'
  BY <1>1 DEF MInv, Configured, Covered
<1>3. Phase' = [Phase EXCEPT ![p] = PhaseOf(u)] /\ Phase[p] = PhaseOf(row[p])
  BY PhaseMoves
<1>4. CASE u.status = row[p].status
  <2>1. PhaseOf(u) = PhaseOf(row[p])
    BY <1>4 DEF PhaseOf
  <2>2. Phase' = Phase
    BY <1>3, <2>1 DEF Phase
  <2>3. UNCHANGED Service!serviceVars
    BY <2>2 DEF Service!serviceVars, Phase
  <2> QED
    BY <1>2, <2>3 DEF Implements
<1>5. CASE row[p].status = "running" /\ u.status = "deferred"
  <2>1. Phase[p] = "reviewing" /\ PhaseOf(u) = "owed"
    BY <1>3, <1>5, PhaseValues DEF Queued, Waiting
  <2>2. Service!PutOff(p)
    BY <1>3, <2>1 DEF Service!PutOff, Service!Moves, Phase
  <2> QED
    BY <1>2, <2>2 DEF Implements, Service!ServiceNext
<1>6. CASE row[p].status \in Queued /\ u.status = "cancelled"
  <2>1. Phase[p] = "owed" /\ PhaseOf(u) = "idle"
    BY <1>3, <1>6, PhaseValues DEF Active, Queued, Waiting
  <2>2. Service!Withdraw(p)
    BY <1>3, <2>1 DEF Service!Withdraw, Service!Moves, Phase
  <2> QED
    BY <1>2, <2>2 DEF Implements, Service!ServiceNext
<1> QED
  BY <1>4, <1>5, <1>6

(* enqueue_or_update forgets no review and invents none. *)
LEMMA EnqueueKeepsReview ==
    ASSUME NEW t \in Row, NEW id \in Nat, NEW at \in Nat
    PROVE  EnqueueOrUpdate(t, id, at).last_reviewed_at \in {t.last_reviewed_at, Null}
<1> DEFINE u == EnqueueOrUpdate(t, id, at)
           v == DueAfterCooldown(t, at)
<1> SUFFICES u.last_reviewed_at \in {t.last_reviewed_at, Null}
  OBVIOUS
<1>1. CASE t.status = "none"
  <2>1. u = [NoRow EXCEPT !.id = id, !.status = "pending"]
    BY <1>1 DEF EnqueueOrUpdate, Queued, Waiting
  <2> HIDE DEF u
  <2>2. NoRow \in Row /\ NoRow.last_reviewed_at = Null
    BY NoRowIsRow DEF NoRow
  <2> QED
    BY <2>1, <2>2 DEF Row
<1>2. CASE t.status = "running"
  <2>1. u = [t EXCEPT !.rereview_requested = TRUE]
    BY <1>2 DEF EnqueueOrUpdate, Queued, Waiting
  <2> HIDE DEF u
  <2> QED
    BY <2>1 DEF Row
<1>3. CASE t.status \in Queued
  BY <1>3 DEF EnqueueOrUpdate, Queued, Waiting
<1>4. CASE t.status \notin Active \cup {"none"}
  <2>1. u = [v EXCEPT !.attempts = 0, !.rereview_requested = FALSE, !.defer_reason = "none"]
    BY <1>4 DEF EnqueueOrUpdate, Active, Queued, Waiting
  <2>2. v \in Row /\ v.last_reviewed_at = t.last_reviewed_at
    BY DueAfterCooldownRow
  <2> HIDE DEF u, v
  <2> QED
    BY <2>1, <2>2 DEF Row
<1> QED
  BY <1>1, <1>2, <1>3, <1>4 DEF Active

(* The columns about the comment are nothing to the service. *)
LEMMA MildBookkeeping ==
    ASSUME IInv, MInv, NEW p \in PRs, NEW u, Bookkeeping(row[p], u),
           row' = [row EXCEPT ![p] = u], UNCHANGED <<pushes, claimed, reviewed>>,
           pc' \notin Ugly, cooldown_cached => cooldown_cached'
    PROVE  MInv' /\ Implements
BY MildReplaces DEF Bookkeeping, SameWork

-----------------------------------------------------------------------------
(* A push asks: it queues the ticket or sets the dirty flag, and it is never
   refused for want of a configuration. *)
LEMMA MildPush ==
    ASSUME IInv, SInv, MInv, NEW d \in inbox, HandlePush(d)
    PROVE  MInv' /\ Implements
<1> DEFINE p == d.pr
           t == row[p]
           u == EnqueueOrUpdate(t, nextId, clock)
<1>1. /\ p \in PRs /\ t \in Row /\ nextId \in Nat /\ clock \in Nat
      /\ \A q \in PRs : pushes[q] \in Nat /\ claimed[q] \in Nat
  BY DEF IInv, TypeOK, Delivery
<1>2. /\ u \in Row /\ u.status \in Active
      /\ t.status = "running" <=> u.status = "running"
      /\ t.status = "running" => u.last_reviewed_at = t.last_reviewed_at
  <2>1. /\ u \in Row /\ u.status \in Active
        /\ t.status = "running" => SameWork(t, u) /\ u.last_reviewed_at = t.last_reviewed_at
        /\ u.status = "running" => t.status = "running"
    <3> HIDE DEF p
    <3> QED
      BY <1>1, EnqueueRow
  <2> HIDE DEF u, t
  <2> QED
    BY <2>1 DEF SameWork
<1>3. t.status = "running" => u.rereview_requested
  <2> SUFFICES ASSUME t.status = "running" PROVE u.rereview_requested
    OBVIOUS
  <2>1. u = [t EXCEPT !.rereview_requested = TRUE]
    BY DEF EnqueueOrUpdate, Queued, Waiting
  <2> HIDE DEF u
  <2> QED
    BY <1>1, <2>1 DEF Row
<1>4. u.last_reviewed_at \in {t.last_reviewed_at, Null}
  BY <1>1, EnqueueKeepsReview
<1>5. row' = [row EXCEPT ![p] = u]
  BY <1>1 DEF HandlePush, MInv, Configured, NeedsCooldown
<1> HIDE DEF u
<1>6. /\ pushes' = [pushes EXCEPT ![p] = pushes[p] + 1]
      /\ UNCHANGED <<claimed, reviewed, pc, cooldown_cached>>
  BY DEF HandlePush, Arrives, Handler
<1>7. /\ row'[p] = u /\ \A q \in PRs \ {p} : row'[q] = row[q]
      /\ Phase' = [Phase EXCEPT ![p] = PhaseOf(u)] /\ Phase[p] = PhaseOf(t)
  BY <1>1, <1>5, PhaseMoves
<1>8. \A q \in PRs \ {p} : pushes'[q] = pushes[q]
  BY <1>6 DEF IInv, TypeOK
<1>9. MInv'
  <2>1. Configured'
    BY <1>4, <1>6, <1>7 DEF MInv, Configured
  <2>2. Covered'
    BY <1>2, <1>3, <1>6, <1>7, <1>8 DEF MInv, Covered, Active, Queued, Waiting
  <2> QED
    BY <1>6, <2>1, <2>2 DEF MInv
<1>10. PhaseOf(u) = IF Phase[p] = "idle" THEN "owed" ELSE Phase[p]
  <2>1. CASE t.status = "running"
    BY <1>2, <1>7, <2>1, PhaseValues
  <2>2. CASE t.status \in Queued
    <3>1. u.status \in Queued
      BY <1>2, <2>2 DEF Active, Queued, Waiting
    <3> QED
      BY <1>7, <2>2, <3>1, PhaseValues
  <2>3. CASE t.status \notin Active
    <3>1. u.status \in Queued
      BY <1>2, <2>3 DEF Active
    <3> QED
      BY <1>7, <2>3, <3>1, PhaseValues
  <2> QED
    BY <2>1, <2>2, <2>3 DEF Active
<1>11. Service!Ask(p)
  BY <1>6, <1>7, <1>10 DEF Service!Ask, Service!Moves, Phase
<1> QED
  BY <1>1, <1>9, <1>11 DEF Implements, Service!ServiceNext

(* A close withdraws a waiting ticket. *)
LEMMA MildClose ==
    ASSUME IInv, MInv, NEW d \in inbox, HandleClose(d)
    PROVE  MInv' /\ Implements
<1> DEFINE t == row[d.pr]
           u == CancelTicket(t)
<1>1. d.pr \in PRs /\ t \in Row
  BY DEF IInv, TypeOK, Delivery
<1>2. u.last_reviewed_at = t.last_reviewed_at /\ u.rereview_requested = t.rereview_requested
  BY <1>1 DEF CancelTicket, Row
<1>3. \/ t.status \in Queued /\ u.status = "cancelled"
      \/ u = t
  BY <1>1 DEF CancelTicket, Row
<1> HIDE DEF u
<1>4. /\ row' = [row EXCEPT ![d.pr] = u]
      /\ UNCHANGED <<pushes, claimed, reviewed, pc, cooldown_cached>>
  BY DEF HandleClose, Handler, u
<1>5. u.status = "running" => t.status = "running" /\ u.rereview_requested = t.rereview_requested
  BY <1>2, <1>3
<1> QED
  BY <1>1, <1>2, <1>3, <1>4, <1>5, MildReplaces DEF MInv

(* A claim starts a review: it is owed, and none is under way. *)
LEMMA MildClaim ==
    ASSUME IInv, SInv, OInv, MInv, NEW p \in PRs, ClaimNextDue(p)
    PROVE  MInv' /\ Implements
<1> DEFINE t == row[p]
           u == Claim(t)
<1>1. /\ t \in Row /\ clock \in Nat /\ IsDue(t, clock)
      /\ \A q \in PRs : pushes[q] \in Nat /\ claimed[q] \in Nat /\ reviewed[q] \in Nat
  BY DEF ClaimNextDue, Due, IInv, TypeOK
<1>2. /\ u.status = "running" /\ t.status \in Queued
      /\ u.last_reviewed_at = t.last_reviewed_at
  BY <1>1, ClaimRow
<1> HIDE DEF u
<1>3. /\ row' = [row EXCEPT ![p] = u] /\ pc = "claim" /\ pc' = "refresh"
      /\ claimed' = [claimed EXCEPT ![p] = pushes[p]]
      /\ UNCHANGED <<pushes, reviewed, cooldown_cached>>
  BY DEF ClaimNextDue, Task, u
<1>4. /\ row'[p] = u /\ \A q \in PRs \ {p} : row'[q] = row[q]
      /\ Phase' = [Phase EXCEPT ![p] = PhaseOf(u)] /\ Phase[p] = PhaseOf(t)
  BY <1>3, PhaseMoves
<1>5. claimed'[p] = pushes[p] /\ \A q \in PRs \ {p} : claimed'[q] = claimed[q]
  BY <1>3 DEF IInv, TypeOK
<1>6. MInv'
  <2>1. Configured'
    BY <1>2, <1>3, <1>4 DEF MInv, Configured
  <2>2. Covered'
    BY <1>2, <1>3, <1>4, <1>5 DEF MInv, Covered
  <2> QED
    BY <1>3, <2>1, <2>2 DEF MInv, Ugly
<1>7. \A q \in PRs : Phase[q] # "reviewing"
  BY <1>3, NothingRuns, PhaseValues DEF Phase, Working
<1>8. Phase[p] = "owed" /\ PhaseOf(u) = "reviewing"
  BY <1>2, <1>4, PhaseValues
<1>9. pushes[p] > reviewed[p]
  BY <1>2 DEF SInv, Owed
<1>10. Service!Start(p)
  BY <1>3, <1>4, <1>7, <1>8, <1>9 DEF Service!Start, Service!Moves, Phase
<1> QED
  BY <1>6, <1>10 DEF Implements, Service!ServiceNext

(* finalize_review completes it: the dirty flag says exactly whether a push
   came after the claim. *)
LEMMA MildFinalize ==
    ASSUME IInv, SInv, OInv, MInv, Finalize
    PROVE  MInv' /\ Implements
<1> DEFINE until == now + effective_cooldown(ticket.cooldown_level)
           level == next_cooldown_level(ticket.cooldown_level)
           t == row[pr]
           u == FinalizeReview(t, now, until, level, posted)
<1>1. /\ pc = "finalize" /\ pc' = "sweep" /\ UNCHANGED <<pushes, claimed, cooldown_cached>>
      /\ pc \in Working
  BY DEF Finalize, Task, EndStep, Working
<1>2. cooldown_cached
  BY <1>1 DEF OInv, Refreshed
<1>3. row' = [row EXCEPT ![pr] = u] /\ reviewed' = [reviewed EXCEPT ![pr] = claimed[pr]]
  BY <1>2 DEF Finalize, Write
<1>4. /\ pr \in PRs /\ t \in Row /\ t.status = "running"
      /\ now \in Nat /\ posted \in Nat \cup {Null}
      /\ ticket.cooldown_level \in 0..MaxCooldownLevel
      /\ \A q \in PRs : pushes[q] \in Nat /\ claimed[q] \in Nat
  BY <1>1, AtWork DEF IInv, TypeOK, Row
<1>5. /\ effective_cooldown(ticket.cooldown_level) \in Nat
      /\ effective_cooldown(ticket.cooldown_level) >= CooldownBase
  BY <1>4, EffectiveCooldown
<1>6. until \in Nat /\ until >= now + CooldownBase
  BY <1>4, <1>5, CooldownAssumption
<1>7. level \in 0..MaxCooldownLevel
  BY <1>4, NextLevel
<1>8. /\ u.status \in {"deferred", "done"}
      /\ u.status = "deferred" <=> t.rereview_requested
  BY <1>4, <1>6, <1>7, FinalizeRow
<1> HIDE DEF u
<1>9. t.rereview_requested <=> pushes[pr] > claimed[pr]
  BY <1>4 DEF SInv, Owed, MInv, Covered
<1>10. /\ row'[pr] = u /\ \A q \in PRs \ {pr} : row'[q] = row[q]
       /\ Phase' = [Phase EXCEPT ![pr] = PhaseOf(u)] /\ Phase[pr] = PhaseOf(t)
  BY <1>3, <1>4, PhaseMoves
<1>11. MInv'
  <2>1. pushes[pr] >= claimed[pr]
    BY <1>4 DEF SInv, Owed
  <2>2. u.status = "done" => claimed[pr] = pushes[pr]
    BY <1>4, <1>8, <1>9, <2>1
  <2>3. Covered'
    BY <1>1, <1>8, <1>10, <2>2 DEF MInv, Covered
  <2> QED
    BY <1>1, <1>2, <2>3 DEF MInv, Configured, Ugly
<1>12. Phase[pr] = "reviewing"
  BY <1>4, <1>10, PhaseValues
<1>13. PhaseOf(u) = IF pushes[pr] > claimed[pr] THEN "owed" ELSE "idle"
  BY <1>8, <1>9, PhaseValues DEF Active, Queued, Waiting
<1>14. Service!Complete(pr)
  BY <1>1, <1>3, <1>10, <1>12, <1>13 DEF Service!Complete, Service!Moves, Phase
<1> QED
  BY <1>4, <1>11, <1>14 DEF Implements, Service!ServiceNext

-----------------------------------------------------------------------------
(* The rest of the steps. *)

(* Every deferral puts the review off. *)
LEMMA MildDeferrals ==
    ASSUME MildTroubles, IInv, MInv,
           TuningUnavailable \/ CapReached \/ Blocked \/ RecordRateLimit
    PROVE  MInv' /\ Implements
<1>1. /\ pc \in Working /\ UNCHANGED <<pushes, claimed, reviewed>>
      /\ cooldown_cached => cooldown_cached'
  BY DEF TuningUnavailable, CapReached, Blocked, RecordRateLimit, Task, Working
<1>2. pr \in PRs /\ row[pr] \in Row /\ row[pr].status = "running"
  BY <1>1, AtWork
<1>3. PICK until : \/ DeferTo(DeferRateLimited(row[pr], until))
                  \/ DeferTo(DeferUsageCapped(row[pr], until))
  BY DEF TuningUnavailable, CapReached, Blocked, RecordRateLimit
<1>4. PICK u : /\ DeferTo(u) /\ u.status = "deferred"
               /\ u.last_reviewed_at = row[pr].last_reviewed_at
  <2>1. ASSUME NEW u \in {DeferRateLimited(row[pr], until), DeferUsageCapped(row[pr], until)}
        PROVE  u.status = "deferred" /\ u.last_reviewed_at = row[pr].last_reviewed_at
    BY <1>2 DEF DeferRateLimited, DeferUsageCapped, Row
  <2> QED
    BY <1>3, <2>1
<1>5. row' = [row EXCEPT ![pr] = u] /\ pc' \notin Ugly
  BY <1>4 DEF DeferTo, Write, EndStep, Goto, GotoWith, Ugly
<1> QED
  BY <1>1, <1>2, <1>4, <1>5, MildReplaces

(* GitHub, the clock, and the steps that write no row. *)
LEMMA MildSilence ==
    ASSUME MildTroubles, MInv,
           \/ World \/ UNCHANGED vars
           \/ NothingDue \/ RefreshConfig \/ StripNotice \/ Proceed
           \/ Reviewed \/ ReviewRateLimited \/ PostReview \/ PostPlaceholder
           \/ SweepRead \/ \E s \in todo : AppendNotice(s)
           \/ \E s \in stripping : StripCancelled(s)
    PROVE  MInv' /\ Implements
<1>1. /\ ~Trouble("github") /\ ~Trouble("cooldown")
      /\ pc \notin Ugly
  BY DEF MildTroubles, Trouble, MInv
<1>2. CASE World \/ UNCHANGED vars \/ \E s \in stripping : StripCancelled(s)
  <2>1. UNCHANGED <<row, pushes, claimed, reviewed, pc, cooldown_cached>>
    BY <1>2 DEF World, Tick, Push, ClosePR, Happens, DeleteComment, vars,
                StripCancelled, Handler
  <2> QED
    BY <1>1, <2>1, MildQuiet
<1>3. CASE \/ NothingDue \/ RefreshConfig \/ StripNotice \/ Proceed
           \/ Reviewed \/ ReviewRateLimited \/ PostReview \/ PostPlaceholder
           \/ SweepRead \/ \E s \in todo : AppendNotice(s)
  <2>1. /\ UNCHANGED <<row, pushes, claimed, reviewed>>
        /\ cooldown_cached => cooldown_cached'
    BY <1>1, <1>3 DEF NothingDue, RefreshConfig, StripNotice, Proceed, Reviewed,
         ReviewRateLimited, Attempt, PostReview, PostPlaceholder, SweepRead,
         AppendNotice, Task
  <2>2. pc' \notin Ugly
    BY <1>1, <1>3 DEF NothingDue, RefreshConfig, StripNotice, Proceed, Reviewed,
         ReviewRateLimited, Attempt, PostReview, PostPlaceholder, SweepRead,
         AppendNotice, Goto, GotoWith, EditThen, Ugly
  <2> QED
    BY <2>1, <2>2, MildQuiet
<1> QED
  BY <1>2, <1>3

(* The steps that write only bookkeeping columns. *)
LEMMA MildRecords ==
    ASSUME IInv, MInv,
           \/ RecordStrip \/ SaveCommentId
           \/ \E s \in todo : RecordAppend(s)
           \/ \E s \in stripping : ClearCancelled(s)
    PROVE  MInv' /\ Implements
<1>1. CASE RecordStrip \/ SaveCommentId
  <2>1. /\ pr \in PRs /\ row[pr] \in Row /\ posted \in Nat \cup {Null}
        /\ UNCHANGED <<pushes, claimed, reviewed, cooldown_cached>> /\ pc' \notin Ugly
    <3>1. pr \in PRs
      BY <1>1, AtWork DEF RecordStrip, SaveCommentId, Task, Working, Deferred, IInv, HeldTicket
    <3> QED
      BY <1>1, <3>1 DEF RecordStrip, SaveCommentId, Task, Goto, GotoWith, EndStep, Ugly,
                        IInv, TypeOK
  <2>2. CASE RecordStrip
    <3> DEFINE v == Recorded(row[pr], posted)
               u == ClearNotice(v)
    <3>1. v \in Row /\ Bookkeeping(row[pr], v)
      BY <2>1, RecordedRow DEF Bookkeeping
    <3>2. u \in Row /\ Bookkeeping(v, u)
      BY <3>1, BookkeepingRow DEF Bookkeeping
    <3>3. row' = [row EXCEPT ![pr] = u]
      BY <2>2 DEF RecordStrip, Write
    <3> HIDE DEF u, v
    <3>4. Bookkeeping(row[pr], u)
      BY <2>1, <3>1, <3>2, BookkeepingChain
    <3> QED
      BY <2>1, <3>3, <3>4, MildBookkeeping
  <2>3. CASE SaveCommentId
    <3> DEFINE u == SetCommentId(row[pr], posted)
    <3>1. Bookkeeping(row[pr], u) /\ row' = [row EXCEPT ![pr] = u]
      BY <2>1, <2>3, BookkeepingRow DEF SaveCommentId, Write
    <3> HIDE DEF u
    <3> QED
      BY <2>1, <3>1, MildBookkeeping
  <2> QED
    BY <1>1, <2>2, <2>3
<1>2. ASSUME NEW s \in todo, RecordAppend(s) PROVE MInv' /\ Implements
  <2>1. s.pr \in PRs
    BY DEF IInv, TypeOK, Notice
  <2>2. PICK u : Bookkeeping(row[s.pr], u) /\ row' = [row EXCEPT ![s.pr] = u]
    BY <1>2, AppendIsBookkeeping
  <2>3. UNCHANGED <<pushes, claimed, reviewed, cooldown_cached>> /\ pc' \notin Ugly
    BY <1>2 DEF RecordAppend, Task, Rest, GotoWith, Ugly
  <2> QED
    BY <2>1, <2>2, <2>3, MildBookkeeping
<1>3. ASSUME NEW s \in stripping, ClearCancelled(s) PROVE MInv' /\ Implements
  <2> DEFINE t == row[s.pr]
             u == IF t.id = s.id THEN ClearNotice(t) ELSE t
  <2>1. s.pr \in PRs /\ t \in Row
    BY DEF IInv, TypeOK, Stripping
  <2>2. Bookkeeping(t, u)
    BY <2>1, BookkeepingRow
  <2> HIDE DEF u
  <2>3. row' = [row EXCEPT ![s.pr] = u]
    BY <1>3 DEF ClearCancelled, u
  <2>4. UNCHANGED <<pushes, claimed, reviewed, pc, cooldown_cached>>
    BY <1>3 DEF ClearCancelled, Handler
  <2>5. pc' \notin Ugly
    BY <2>4 DEF MInv
  <2> QED
    BY <2>1, <2>2, <2>3, <2>4, <2>5, MildBookkeeping
<1> QED
  BY <1>1, <1>2, <1>3

(* What does not happen under these troubles. *)
LEMMA MildExcludes ==
    ASSUME MildTroubles, MInv
    PROVE  /\ ~AttemptFails /\ ~ReviewSkipped /\ ~DatabaseFails /\ ~WebhookRaises
           /\ ~Crash /\ ~Restart /\ ~DiscardSkipped
           /\ ~RetryLater /\ ~PostFailureNotice /\ ~RecordNotice
           /\ ~MarkTicketFailed /\ ~NoticeNotPosted
<1>1. \A k \in {"failed", "skipped", "database", "crash"} : k \notin Troubles
  BY DEF MildTroubles
<1>2. ~AttemptFails /\ ~ReviewSkipped /\ ~DatabaseFails /\ ~WebhookRaises /\ ~Crash
  BY <1>1 DEF AttemptFails, ReviewSkipped, DatabaseFails, WebhookRaises, Crash, Trouble
<1>3. /\ ~Restart /\ ~DiscardSkipped /\ ~RetryLater /\ ~PostFailureNotice
      /\ ~RecordNotice /\ ~MarkTicketFailed /\ ~NoticeNotPosted
  BY DEF MInv, Ugly, Restart, DiscardSkipped, Discard, RetryLater, PostFailureNotice,
         RecordNotice, MarkTicketFailed, NoticeNotPosted, Task
<1> QED
  BY <1>2, <1>3

(* Each step of the queue is one of the service, or none. *)
LEMMA NextImplements ==
    ASSUME MildTroubles, IInv, SInv, OInv, MInv, [Next]_vars
    PROVE  MInv' /\ Implements
<1>1. CASE World \/ UNCHANGED vars
  BY <1>1, MildSilence
<1>2. CASE Webhooks
  BY <1>2, MildExcludes, MildPush, MildClose, MildSilence, MildRecords DEF Webhooks
<1>3. CASE Dispatcher
  BY <1>3, MildExcludes, MildClaim, MildSilence, MildDeferrals, MildRecords, MildFinalize
     DEF Dispatcher, ProcessNextDue, PostPendingNotices
<1> QED
  BY <1>1, <1>2, <1>3, MildExcludes DEF Next

(* An empty queue owes nothing. *)
LEMMA InitImplements == Init => MInv /\ Service!ServiceInit
<1> SUFFICES ASSUME Init PROVE MInv /\ Service!ServiceInit
  OBVIOUS
<1>1. MInv
  BY DEF Init, MInv, Ugly, Configured, Covered, NoRow
<1>2. Service!ServiceInit
  BY DEF Init, Service!ServiceInit, PhaseOf, NoRow, Queued, Waiting
<1> QED
  BY <1>1, <1>2

(* MInv is invariant, next to the invariants proved so far. *)
LEMMA MildInvariance == ASSUME MildTroubles PROVE Spec => []MInv
<1>1. SoundDatabase
  BY DEF MildTroubles, SoundDatabase
<1>2. IInv /\ SInv /\ OInv /\ MInv /\ [Next]_vars => MInv'
  BY NextImplements
<1>3. IInv /\ OInv /\ [Next]_vars => OInv'
  BY <1>1, NextOInv
<1>4. Init => OInv /\ MInv
  BY InitOInv, InitImplements
<1> QED
  BY <1>2, <1>3, <1>4, Invariance, SafetyInvariance, PTL DEF Spec

(* No push is lost: while no attempt fails, no configuration is missing and no
   process dies, a ticket that is settled or deleted has been claimed since the
   last push to its pull request. *)
THEOREM NoPushIsLost == ASSUME MildTroubles PROVE Spec => []NoLostPush
<1>1. MInv => NoLostPush
  BY DEF MInv, Covered, NoLostPush
<1> QED
  BY <1>1, MildInvariance, PTL

(* The queue keeps what ReviewService promises, row by row and counter by
   counter, for every number of pull requests and every configuration. *)
THEOREM QueueRefinesService == ASSUME MildTroubles PROVE Spec => ImplementsService
<1>1. SoundDatabase
  BY DEF MildTroubles, SoundDatabase
<1>2. IInv /\ SInv /\ OInv /\ MInv /\ [Next]_vars
          => [Service!ServiceNext]_(Service!serviceVars)
  BY NextImplements DEF Implements
<1>3. IInv /\ OInv /\ [Next]_vars => OInv'
  BY <1>1, NextOInv
<1>4. Init => OInv /\ Service!ServiceInit
  BY InitOInv, InitImplements
<1> QED
  BY <1>2, <1>3, <1>4, MildInvariance, Invariance, SafetyInvariance, PTL
     DEF Spec, ImplementsService, Service!ServiceSpec
=============================================================================
