------------------------- MODULE ReviewQueueProofs -------------------------
(***************************************************************************)
(* The queue's invariants, for any number of pull requests, any bounds and *)
(* any configuration that QueueAssumption and CooldownAssumption admit.    *)
(*                                                                         *)
(* First what the statements of review_queue/store.py preserve, for every  *)
(* row and every cooldown configuration: each returns a row, and the       *)
(* lemmas say which columns it leaves alone.                               *)
(***************************************************************************)
EXTENDS ReviewQueue, TLAPS

Statuses == Active \cup Terminal \cup {"none"}

(* A row that is due, or under way, or waits, is (will be) past its cooldown. *)
CooldownOK(t, at) ==
    /\ t.status \in {"pending", "running", "retrying"} => CooldownElapsed(t, at)
    /\ t.status = "deferred" => CooldownElapsed(t, t.not_before)

(* The columns a claimed ticket's snapshot is trusted for. *)
SameWork(t, u) ==
    /\ u.status = t.status /\ u.id = t.id /\ u.attempts = t.attempts

-----------------------------------------------------------------------------
(* The cooldown is a duration, and never below its base: effective_cooldown's
   max(base, ...). *)
LEMMA EffectiveCooldown ==
    ASSUME NEW level \in 0..MaxCooldownLevel
    PROVE  effective_cooldown(level) \in Nat /\ effective_cooldown(level) >= CooldownBase
<1> DEFINE x == CooldownFactor ^ Least(level, MaxCooldownLevel)
<1>1. Least(level, MaxCooldownLevel) \in 0..MaxCooldownLevel
  BY CooldownAssumption DEF Least
<1>2. x \in Nat
  BY <1>1, CooldownAssumption
<1>3. effective_cooldown(level) = Greatest(CooldownBase, Least(CooldownBase * x, CooldownCap))
  BY DEF effective_cooldown
<1> HIDE DEF x
<1>4. CooldownBase * x \in Nat
  BY <1>2, CooldownAssumption
<1> QED
  BY <1>3, <1>4, CooldownAssumption DEF Least, Greatest

(* next_cooldown_level stays within _MAX_COOLDOWN_LEVEL. *)
LEMMA NextLevel ==
    ASSUME NEW level \in 0..MaxCooldownLevel
    PROVE  next_cooldown_level(level) \in 0..MaxCooldownLevel
BY CooldownAssumption DEF next_cooldown_level, Least

(* The row that is not there is a row as well. *)
LEMMA NoRowIsRow == NoRow \in Row
BY CooldownAssumption DEF NoRow, Row, Null, Instant, Active, Queued, Waiting, Terminal

(* Re-arming: due at the end of the cooldown, or at once when that is over. *)
LEMMA DueAfterCooldownRow ==
    ASSUME NEW t \in Row, NEW time \in Nat
    PROVE  LET u == DueAfterCooldown(t, time)
           IN  /\ u \in Row
               /\ u.status \in {"pending", "deferred"}
               /\ u.last_reviewed_at = t.last_reviewed_at
               /\ CooldownOK(u, time)
<1> DEFINE due == DueAt(t)
           u == DueAfterCooldown(t, time)
<1>1. /\ t.cooldown_level \in 0..MaxCooldownLevel
      /\ t.last_reviewed_at \in Nat \cup {Null}
  BY DEF Row, Instant
<1>2. ASSUME t.last_reviewed_at # Null
      PROVE  due \in Nat /\ due >= t.last_reviewed_at + CooldownBase
  BY <1>1, <1>2, EffectiveCooldown, CooldownAssumption DEF DueAt
<1>3. next_cooldown_level(t.cooldown_level) \in 0..MaxCooldownLevel
  BY <1>1, NextLevel
<1> HIDE DEF due
<1>4. CASE t.last_reviewed_at # Null /\ time < due
  <2>1. u = [t EXCEPT !.status = "deferred", !.not_before = due,
                      !.cooldown_level = next_cooldown_level(t.cooldown_level)]
    BY <1>4 DEF DueAfterCooldown, due
  <2>2. u \in Row
    BY <2>1, <1>2, <1>3, <1>4 DEF Row, Instant, Active, Queued, Waiting
  <2>3. /\ u.status = "deferred" /\ u.not_before = due
        /\ u.last_reviewed_at = t.last_reviewed_at
    BY <2>1 DEF Row
  <2> HIDE DEF u
  <2> QED
    BY <2>2, <2>3, <1>2, <1>4 DEF CooldownOK, CooldownElapsed, u
<1>5. CASE ~(t.last_reviewed_at # Null /\ time < due)
  <2>1. u = [t EXCEPT !.status = "pending", !.not_before = Null, !.cooldown_level = 0]
    BY <1>5 DEF DueAfterCooldown, due
  <2>2. u \in Row
    <3>1. Null \in Instant /\ 0 \in 0..MaxCooldownLevel
      BY CooldownAssumption DEF Instant
    <3> QED
      BY <2>1, <3>1 DEF Row, Active, Queued
  <2>3. u.status = "pending" /\ u.last_reviewed_at = t.last_reviewed_at
    BY <2>1 DEF Row
  <2>4. CooldownElapsed(u, time)
    BY <2>3, <1>1, <1>2, <1>5, CooldownAssumption DEF CooldownElapsed, Null
  <2> QED
    BY <2>2, <2>3, <2>4 DEF CooldownOK
<1> QED
  BY <1>4, <1>5


(* A push: a running row is only marked, a waiting one rides its wait out, a
   settled one is re-armed no earlier than its cooldown allows. *)
LEMMA EnqueueRow ==
    ASSUME NEW t \in Row, NEW id \in Nat, NEW time \in Nat
    PROVE  LET u == EnqueueOrUpdate(t, id, time)
           IN  /\ u \in Row
               /\ u.status \in Active
               /\ u.attempts <= t.attempts
               /\ t.status = "running" =>
                      /\ SameWork(t, u)
                      /\ u.last_reviewed_at = t.last_reviewed_at
               /\ u.status = "running" => t.status = "running"
               /\ CooldownOK(t, time) => CooldownOK(u, time)
<1> DEFINE u == EnqueueOrUpdate(t, id, time)
<1>1. CASE t.status = "none"
  <2>1. u = [NoRow EXCEPT !.id = id, !.status = "pending"]
    BY <1>1 DEF EnqueueOrUpdate, Queued, Waiting
  <2> HIDE DEF u
  <2>2. u \in Row
    BY <2>1, NoRowIsRow DEF Row, Active, Queued
  <2>3. u.status = "pending" /\ u.last_reviewed_at = Null /\ u.attempts = 0
    BY <2>1 DEF NoRow
  <2>4. t.attempts \in Nat
    BY DEF Row
  <2> QED
    BY <1>1, <2>2, <2>3, <2>4 DEF Active, Queued, CooldownOK, CooldownElapsed, u
<1>2. CASE t.status = "running"
  <2>1. u = [t EXCEPT !.rereview_requested = TRUE]
    BY <1>2 DEF EnqueueOrUpdate, Queued, Waiting
  <2> HIDE DEF u
  <2>2. u \in Row /\ SameWork(t, u) /\ u.last_reviewed_at = t.last_reviewed_at
    BY <2>1 DEF Row, SameWork
  <2>3. CooldownOK(t, time) => CooldownOK(u, time)
    BY <1>2, <2>2 DEF SameWork, CooldownOK, CooldownElapsed
  <2>4. t.attempts \in Nat
    BY DEF Row
  <2> QED
    BY <1>2, <2>2, <2>3, <2>4 DEF SameWork, Active, u
<1>3. CASE t.status \in Queued
  <2>1. u = t
    BY <1>3 DEF EnqueueOrUpdate, Queued, Waiting
  <2> HIDE DEF u
  <2>2. t.attempts \in Nat
    BY DEF Row
  <2> QED
    BY <1>3, <2>1, <2>2 DEF Active, Queued, Waiting, u
<1>4. CASE t.status \in Terminal
  <2> DEFINE v == DueAfterCooldown(t, time)
  <2>1. /\ v \in Row
        /\ v.status \in {"pending", "deferred"}
        /\ CooldownOK(v, time)
    BY DueAfterCooldownRow
  <2>2. u = [v EXCEPT !.attempts = 0, !.rereview_requested = FALSE, !.defer_reason = "none"]
    BY <1>4 DEF EnqueueOrUpdate, Terminal, Queued, Waiting
  <2> HIDE DEF u
  <2> HIDE DEF v
  <2>3. u \in Row
    BY <2>1, <2>2 DEF Row
  <2>4. /\ u.status = v.status /\ u.attempts = 0
        /\ u.last_reviewed_at = v.last_reviewed_at /\ u.not_before = v.not_before
    BY <2>1, <2>2 DEF Row
  <2>5. CooldownOK(u, time)
    BY <2>1, <2>4 DEF CooldownOK, CooldownElapsed
  <2>6. t.attempts \in Nat
    BY DEF Row
  <2> QED
    BY <1>4, <2>1, <2>3, <2>4, <2>5, <2>6 DEF Active, Queued, Waiting, Terminal, u
<1> QED
  BY <1>1, <1>2, <1>3, <1>4 DEF Row, Active

(* Claiming takes a row whose cooldown is over. *)
LEMMA ClaimRow ==
    ASSUME NEW t \in Row
    PROVE  LET u == Claim(t)
           IN  /\ u \in Row
               /\ u.status = "running" /\ u.id = t.id /\ u.attempts = t.attempts
               /\ u.last_reviewed_at = t.last_reviewed_at
               /\ ~u.rereview_requested
               /\ \A time \in Nat : IsDue(t, time) =>
                      /\ t.status \in Queued
                      /\ CooldownOK(t, time) => CooldownElapsed(u, time)
<1> DEFINE u == Claim(t)
<1>1. /\ u \in Row
      /\ u.status = "running" /\ u.id = t.id /\ u.attempts = t.attempts
      /\ u.last_reviewed_at = t.last_reviewed_at /\ ~u.rereview_requested
  BY DEF Claim, Row, Active
<1>2. ASSUME NEW time \in Nat, IsDue(t, time)
      PROVE  /\ t.status \in Queued
             /\ CooldownOK(t, time) => CooldownElapsed(u, time)
  <2>1. t.status \in Queued
    BY <1>2 DEF IsDue, Queued
  <2>2. CooldownOK(t, time) => CooldownElapsed(t, time)
    BY <1>2, CooldownAssumption
       DEF IsDue, Waiting, CooldownOK, CooldownElapsed, Row, Instant, Null
  <2> HIDE DEF u
  <2> QED
    BY <2>1, <2>2, <1>1 DEF CooldownElapsed
<1> QED
  BY <1>1, <1>2

(* The two deferrals: the wait ends after `until', attempts do not count. *)
LEMMA DeferRow ==
    ASSUME NEW t \in Row, NEW until \in Nat,
           NEW u \in {DeferRateLimited(t, until), DeferUsageCapped(t, until)}
    PROVE  /\ u \in Row
           /\ u.status = "deferred" /\ u.attempts = t.attempts
           /\ \A at \in Nat :
                 at <= until /\ CooldownElapsed(t, at) => CooldownElapsed(u, u.not_before)
<1>1. until \in Instant
  BY DEF Instant
<1>2. /\ u \in Row
      /\ u.status = "deferred" /\ u.attempts = t.attempts
      /\ u.not_before = until /\ u.last_reviewed_at = t.last_reviewed_at
  BY <1>1 DEF DeferRateLimited, DeferUsageCapped, Row, Active, Queued, Waiting
<1>3. t.last_reviewed_at # Null => t.last_reviewed_at \in Nat
  BY DEF Row, Instant
<1> QED
  BY <1>2, <1>3, CooldownAssumption DEF CooldownElapsed

(* defer_failed: one attempt more, and a wait that ends after `until'. *)
LEMMA DeferFailedRow ==
    ASSUME NEW t \in Row, NEW until \in Nat
    PROVE  LET u == DeferFailed(t, until)
           IN  /\ u \in Row
               /\ u.status = "retrying" /\ u.attempts = t.attempts + 1
               /\ u.last_reviewed_at = t.last_reviewed_at
<1> DEFINE u == DeferFailed(t, until)
<1>1. until \in Instant /\ t.attempts + 1 \in Nat
  BY DEF Instant, Row
<1>2. u = [t EXCEPT !.status = "retrying", !.not_before = until, !.attempts = t.attempts + 1]
  BY DEF DeferFailed
<1> HIDE DEF u
<1>3. u \in Row
  BY <1>1, <1>2 DEF Row, Active, Queued, Waiting
<1>4. /\ u.status = "retrying" /\ u.attempts = t.attempts + 1
      /\ u.last_reviewed_at = t.last_reviewed_at
  BY <1>2 DEF Row
<1> QED
  BY <1>3, <1>4 DEF u

(* mark_failed settles the row; the review it may carry stays on record. *)
LEMMA MarkFailedRow ==
    ASSUME NEW t \in Row
    PROVE  LET u == MarkFailed(t)
           IN  u \in Row /\ u.status = "failed" /\ u.attempts = t.attempts
BY DEF MarkFailed, Row, Terminal

(* finalize_review: the re-review that a push asked for waits out the cooldown
   from the review just recorded. *)
LEMMA FinalizeRow ==
    ASSUME NEW t \in Row, NEW time \in Nat, NEW until \in Nat,
           NEW level \in 0..MaxCooldownLevel, NEW cid \in Nat \cup {Null},
           until >= time + CooldownBase
    PROVE  LET u == FinalizeReview(t, time, until, level, cid)
           IN  /\ u \in Row
               /\ u.status \in {"deferred", "done"}
               /\ u.status = "deferred" <=> t.rereview_requested
               /\ u.attempts <= t.attempts
               /\ \A at \in Nat : CooldownOK(u, at)
<1> DEFINE u == FinalizeReview(t, time, until, level, cid)
           record == [SetCommentId(t, cid) EXCEPT
                           !.last_reviewed_at = time, !.rereview_requested = FALSE,
                           !.defer_reason = "none"]
<1>1. time \in Instant /\ until \in Instant /\ Null \in Instant /\ t.attempts \in Nat
  BY DEF Instant, Row
<1>2. SetCommentId(t, cid) \in Row /\ SetCommentId(t, cid).attempts = t.attempts
  BY DEF SetCommentId, Row
<1>3. /\ record \in Row
      /\ record.last_reviewed_at = time /\ record.attempts = t.attempts
  BY <1>1, <1>2 DEF Row
<1>4. u = IF t.rereview_requested
          THEN [record EXCEPT !.status = "deferred", !.not_before = until,
                                !.attempts = 0, !.cooldown_level = level]
          ELSE [record EXCEPT !.status = "done", !.not_before = Null]
  BY DEF FinalizeReview
<1> HIDE DEF u, record
<1>5. CASE t.rereview_requested
  <2>1. u \in Row
    BY <1>1, <1>3, <1>4, <1>5 DEF Row, Active, Queued, Waiting
  <2>2. /\ u.status = "deferred" /\ u.not_before = until /\ u.attempts = 0
        /\ u.last_reviewed_at = time
    BY <1>3, <1>4, <1>5 DEF Row
  <2> QED
    BY <1>1, <1>5, <2>1, <2>2 DEF u, CooldownOK, CooldownElapsed
<1>6. CASE ~t.rereview_requested
  <2>1. u \in Row
    BY <1>1, <1>3, <1>4, <1>6 DEF Row, Terminal
  <2>2. u.status = "done" /\ u.attempts = t.attempts
    BY <1>3, <1>4, <1>6 DEF Row
  <2> QED
    BY <1>1, <1>6, <2>1, <2>2 DEF u, CooldownOK
<1> QED
  BY <1>5, <1>6

-----------------------------------------------------------------------------
(* The columns about the bot's comment.  Their statements leave the status, the
   wait, the dirty flag and the attempts alone, and forget a review at most. *)
Bookkeeping(t, u) ==
    /\ u \in Row
    /\ SameWork(t, u) /\ u.not_before = t.not_before
    /\ u.rereview_requested = t.rereview_requested
    /\ u.last_reviewed_at \in {t.last_reviewed_at, Null}

(* set_comment_id, clear_visible_review, mark_notice_posted and clear_notice
   write bookkeeping columns only. *)
LEMMA BookkeepingRow ==
    ASSUME NEW t \in Row
    PROVE  /\ Bookkeeping(t, t)
           /\ \A cid \in Nat \cup {Null} : Bookkeeping(t, SetCommentId(t, cid))
           /\ Bookkeeping(t, ClearVisibleReview(t))
           /\ Bookkeeping(t, ClearNotice(t))
           /\ \A until \in Instant : Bookkeeping(t, MarkNoticePosted(t, until))
<1> Null \in Instant
  BY DEF Instant
<1>1. Bookkeeping(t, t)
  BY DEF Bookkeeping, SameWork
<1>2. ASSUME NEW cid \in Nat \cup {Null} PROVE Bookkeeping(t, SetCommentId(t, cid))
  BY DEF SetCommentId, Row, Bookkeeping, SameWork
<1>3. Bookkeeping(t, ClearVisibleReview(t))
  BY DEF ClearVisibleReview, Row, Bookkeeping, SameWork
<1>4. Bookkeeping(t, ClearNotice(t))
  BY DEF ClearNotice, Row, Bookkeeping, SameWork
<1>5. ASSUME NEW until \in Instant PROVE Bookkeeping(t, MarkNoticePosted(t, until))
  BY DEF MarkNoticePosted, Row, Bookkeeping, SameWork
<1> QED
  BY <1>1, <1>2, <1>3, <1>4, <1>5

(* So does one of them after another. *)
LEMMA BookkeepingChain ==
    ASSUME NEW t \in Row, NEW u \in Row, NEW v, Bookkeeping(t, u), Bookkeeping(u, v)
    PROVE  Bookkeeping(t, v)
BY DEF Bookkeeping, SameWork

(* And a cooldown that was respected is respected after them. *)
LEMMA BookkeepingKeepsCooldown ==
    ASSUME NEW t \in Row, NEW u, Bookkeeping(t, u), NEW at \in Nat
    PROVE  /\ CooldownElapsed(t, at) => CooldownElapsed(u, at)
           /\ CooldownOK(t, at) => CooldownOK(u, at)
BY DEF Bookkeeping, SameWork, CooldownElapsed, CooldownOK

-----------------------------------------------------------------------------
(* Statements that settle a ticket or send it back. *)
LEMMA CancelRow ==
    ASSUME NEW t \in Row
    PROVE  LET u == CancelTicket(t)
           IN  /\ u \in Row /\ u.attempts = t.attempts
               /\ t.status = "running" => u = t
               /\ u.status \in {"cancelled", t.status}
               /\ u.status \notin Queued
               /\ \A at \in Nat : CooldownOK(t, at) => CooldownOK(u, at)
<1> DEFINE u == CancelTicket(t)
<1>1. CASE t.status \in Queued
  <2>1. u = [t EXCEPT !.status = "cancelled"]
    BY <1>1 DEF CancelTicket
  <2> HIDE DEF u
  <2>2. u \in Row /\ u.attempts = t.attempts /\ u.status = "cancelled"
    BY <2>1 DEF Row, Terminal
  <2> QED
    BY <1>1, <2>2 DEF u, Queued, Waiting, CooldownOK
<1>2. CASE t.status \notin Queued
  BY <1>2 DEF CancelTicket
<1> QED
  BY <1>1, <1>2

(* recover_on_startup sends a running row back to the queue and leaves every
   other alone. *)
LEMMA RecoverRow ==
    ASSUME NEW t \in Row
    PROVE  LET u == RecoverOnStartup(t)
           IN  /\ u \in Row /\ u.attempts = t.attempts
               /\ u.status = IF t.status = "running" THEN "pending" ELSE t.status
               /\ \A at \in Nat : CooldownOK(t, at) => CooldownOK(u, at)
<1> DEFINE u == RecoverOnStartup(t)
<1>1. CASE t.status = "running"
  <2>1. u = [t EXCEPT !.status = "pending", !.rereview_requested = FALSE]
    BY <1>1 DEF RecoverOnStartup
  <2> HIDE DEF u
  <2>2. u \in Row
    BY <2>1 DEF Row, Active, Queued
  <2>3. /\ u.attempts = t.attempts /\ u.status = "pending"
        /\ u.last_reviewed_at = t.last_reviewed_at
    BY <2>1 DEF Row
  <2> QED
    BY <1>1, <2>2, <2>3 DEF u, CooldownOK, CooldownElapsed
<1>2. CASE t.status # "running"
  BY <1>2 DEF RecoverOnStartup
<1> QED
  BY <1>1, <1>2

(* discard_skipped_ticket deletes, re-arms or reverts the row, and never gives
   it an attempt more. *)
LEMMA DiscardRow ==
    ASSUME NEW t \in Row
    PROVE  /\ DiscardRearm(t) \in Row /\ DiscardRevert(t) \in Row
           /\ DiscardRearm(t).status = "pending" /\ DiscardRevert(t).status = "done"
           /\ DiscardRearm(t).attempts = 0 /\ DiscardRevert(t).attempts = t.attempts
           /\ DiscardRearm(t).last_reviewed_at = t.last_reviewed_at
<1> Null \in Instant
  BY DEF Instant
<1>1. DiscardRearm(t) \in Row
  BY DEF DiscardRearm, Row, Active, Queued
<1>2. DiscardRevert(t) \in Row
  BY DEF DiscardRevert, Row, Terminal
<1> QED
  BY <1>1, <1>2 DEF DiscardRearm, DiscardRevert, Row

-----------------------------------------------------------------------------
(* The inductive invariant of the queue. *)

(* After a deferral the dispatcher still holds the ticket. *)
HeldTicket == pc \in Deferred => pr \in PRs

(* The inductive invariant.  A backoff is a duration (TypeOK) because the
   attempts are bounded, which is because the snapshot's attempts are the
   row's (WorkIsRunning). *)
IInv == TypeOK /\ WorkIsRunning /\ HeldTicket /\ AttemptsBounded

(* A process that has just booted on an empty database satisfies IInv. *)
LEMMA InitIInv == Init => IInv
<1> SUFFICES ASSUME Init PROVE IInv
  OBVIOUS
<1>1. NoRow \in Row /\ NoComment \in Comment
  BY NoRowIsRow DEF NoComment, Comment, Bodies, Notes
<1>2. TypeOK
  BY <1>1 DEF Init, TypeOK, Between, Null
<1>3. WorkIsRunning /\ HeldTicket
  BY DEF Init, WorkIsRunning, HeldTicket, Working, Deferred
<1>4. AttemptsBounded
  BY QueueAssumption DEF Init, AttemptsBounded, NoRow
<1> QED
  BY <1>2, <1>3, <1>4 DEF IInv

-----------------------------------------------------------------------------
USE DEF clockVars, dbVars, githubVars, memoryVars, ticketVars, taskVars, boundVars,
        arrivalVars, servedVars, historyVars

(* What the invariant says of the ticket at hand. *)
LEMMA AtWork ==
    ASSUME IInv, pc \in Working
    PROVE  /\ pr \in PRs
           /\ row[pr] \in Row /\ row[pr].status = "running"
           /\ row[pr].attempts = ticket.attempts
           /\ ticket.attempts \in Nat /\ ticket.attempts <= MaxFailures + MaxNoticePosts - 2
BY DEF IInv, TypeOK, WorkIsRunning, AttemptsBounded, Row

(* What Upsert, Append and Strip return is a comment. *)
LEMMA CommentEdits ==
    ASSUME NEW c \in Comment, nextComment \in Nat
    PROVE  /\ \A body \in Bodies : Upsert(c, body) \in Comment
           /\ \A note \in Notes : Append(c, note) \in Comment
           /\ Strip(c) \in Comment
BY DEF Upsert, Append, Strip, Exists, Comment, Bodies, Notes

(* A step that leaves the dispatcher and the rows alone keeps the invariant's
   last three parts. *)
LEMMA Aside ==
    ASSUME IInv, UNCHANGED <<row, pc, pr, ticket>>
    PROVE  WorkIsRunning' /\ HeldTicket' /\ AttemptsBounded'
BY DEF IInv, WorkIsRunning, HeldTicket, AttemptsBounded

(* GitHub and the clock do not touch the rows or the dispatcher. *)
LEMMA WorldStep == IInv /\ World => IInv'
<1> SUFFICES ASSUME IInv, World PROVE IInv'
  OBVIOUS
<1>1. CASE Tick
  <2>1. TypeOK'
    BY <1>1 DEF IInv, TypeOK, Tick
  <2> QED
    BY <1>1, <2>1, Aside DEF IInv, Tick
<1>2. ASSUME NEW p \in PRs, Push(p) \/ ClosePR(p) PROVE IInv'
  <2>1. \A k \in {"push", "close"} : [pr |-> p, kind |-> k, n |-> events] \in Delivery
    BY DEF IInv, TypeOK, Delivery
  <2>2. /\ open' \in [PRs -> BOOLEAN]
        /\ inbox' \subseteq Delivery /\ events' \in Nat
    <3>1. open' \in [PRs -> BOOLEAN]
      BY <1>2 DEF IInv, TypeOK, Push, ClosePR
    <3>2. inbox' \subseteq Delivery
      BY <1>2, <2>1 DEF IInv, TypeOK, Push, ClosePR, Happens
    <3>3. events' \in Nat
      BY <1>2 DEF IInv, TypeOK, Push, ClosePR, Happens
    <3> QED
      BY <3>1, <3>2, <3>3
  <2>3. TypeOK'
    BY <1>2, <2>2 DEF IInv, TypeOK, Push, ClosePR, Happens
  <2> QED
    BY <1>2, <2>3, Aside DEF IInv, Push, ClosePR, Happens
<1>3. ASSUME NEW p \in PRs, DeleteComment(p) PROVE IInv'
  <2>1. NoComment \in Comment
    BY DEF NoComment, Comment, Bodies, Notes
  <2>2. TypeOK'
    BY <1>3, <2>1 DEF IInv, TypeOK, DeleteComment, Trouble
  <2> QED
    BY <1>3, <2>2, Aside DEF IInv, DeleteComment
<1> QED
  BY <1>1, <1>2, <1>3 DEF World

-----------------------------------------------------------------------------
(* The webhook handlers never touch a running row, except to mark it. *)
LEMMA HandlePushStep ==
    ASSUME IInv, NEW d \in inbox, HandlePush(d)
    PROVE  IInv'
<1> DEFINE t == row[d.pr]
           u == EnqueueOrUpdate(t, nextId, clock)
<1>1. d.pr \in PRs /\ t \in Row /\ nextId \in Nat /\ clock \in Nat
  BY DEF IInv, TypeOK, Delivery
<1>2. /\ u \in Row /\ u.attempts <= t.attempts
      /\ t.status = "running" => SameWork(t, u)
  BY <1>1, EnqueueRow
<1> HIDE DEF u
<1>3. row' = row \/ row' = [row EXCEPT ![d.pr] = u]
  BY DEF HandlePush, u
<1>4. row' \in [PRs -> Row]
  BY <1>1, <1>2, <1>3 DEF IInv, TypeOK
<1>5. TypeOK'
  <2>1. pushes' \in [PRs -> Nat] /\ inactive' \in [PRs -> BOOLEAN]
    BY <1>1 DEF IInv, TypeOK, HandlePush, Arrives
  <2>2. nextId' \in Nat /\ inbox' \subseteq Delivery
    BY <1>1 DEF IInv, TypeOK, HandlePush, Took
  <2> QED
    BY <1>4, <2>1, <2>2 DEF IInv, TypeOK, HandlePush, Handler, Took, Fine
<1>6. UNCHANGED <<pc, pr, ticket>>
  BY DEF HandlePush, Handler
<1>7. WorkIsRunning'
  BY <1>1, <1>2, <1>3, <1>6 DEF IInv, TypeOK, WorkIsRunning, SameWork
<1>8. AttemptsBounded'
  <2>1. \A p \in PRs : row'[p].attempts <= row[p].attempts
    BY <1>1, <1>2, <1>3 DEF IInv, TypeOK, Row
  <2> QED
    BY <2>1, <1>4, QueueAssumption DEF IInv, TypeOK, AttemptsBounded, Row
<1> QED
  BY <1>5, <1>6, <1>7, <1>8 DEF IInv, HeldTicket

(* A close cancels waiting rows only. *)
LEMMA HandleCloseStep ==
    ASSUME IInv, NEW d \in inbox, HandleClose(d)
    PROVE  IInv'
<1> DEFINE t == row[d.pr]
           u == CancelTicket(t)
<1>1. d.pr \in PRs /\ t \in Row
  BY DEF IInv, TypeOK, Delivery
<1>2. u \in Row /\ u.attempts = t.attempts /\ (t.status = "running" => u = t)
  BY <1>1, CancelRow
<1> HIDE DEF u
<1>3. row' = [row EXCEPT ![d.pr] = u]
  BY DEF HandleClose, u
<1>4. row' \in [PRs -> Row]
  BY <1>1, <1>2, <1>3 DEF IInv, TypeOK
<1>5. stripping' \subseteq Stripping
  <2>1. [pr |-> d.pr, id |-> t.id, done |-> FALSE] \in Stripping
    BY <1>1 DEF Stripping, Row
  <2> QED
    BY <2>1 DEF HandleClose, IInv, TypeOK
<1>6. TypeOK'
  BY <1>1, <1>4, <1>5 DEF IInv, TypeOK, HandleClose, Handler, Took, Fine
<1>7. UNCHANGED <<pc, pr, ticket>>
  BY DEF HandleClose, Handler
<1>8. WorkIsRunning'
  BY <1>1, <1>2, <1>3, <1>7 DEF IInv, TypeOK, WorkIsRunning
<1>9. AttemptsBounded'
  BY <1>1, <1>2, <1>3 DEF IInv, TypeOK, AttemptsBounded
<1> QED
  BY <1>6, <1>7, <1>8, <1>9 DEF IInv, HeldTicket

(* The close handler's call to GitHub writes no row. *)
LEMMA StripCancelledStep ==
    ASSUME IInv, NEW s \in stripping, StripCancelled(s)
    PROVE  IInv'
<1>1. s \in Stripping /\ [s EXCEPT !.done = TRUE] \in Stripping
  BY DEF IInv, TypeOK, Stripping
<1>2. Strip(comment[s.pr]) \in Comment
  BY <1>1, CommentEdits DEF IInv, TypeOK, Stripping
<1>3. TypeOK'
  <2>1. comment' \in [PRs -> Comment]
    BY <1>1, <1>2 DEF IInv, TypeOK, StripCancelled
  <2>2. stripping' \subseteq Stripping
    BY <1>1 DEF IInv, TypeOK, StripCancelled
  <2>3. troubles' \in Nat
    BY DEF IInv, TypeOK, StripCancelled, Fine, Trouble
  <2> QED
    BY <2>1, <2>2, <2>3 DEF IInv, TypeOK, StripCancelled, Handler
<1> QED
  BY <1>3, Aside DEF IInv, StripCancelled, Handler

(* The close handler's clear_notice writes one bookkeeping column. *)
LEMMA ClearCancelledStep ==
    ASSUME IInv, NEW s \in stripping, ClearCancelled(s)
    PROVE  IInv'
<1> DEFINE t == row[s.pr]
           u == IF t.id = s.id THEN ClearNotice(t) ELSE t
<1>1. s.pr \in PRs /\ t \in Row
  BY DEF IInv, TypeOK, Stripping
<1>2. Bookkeeping(t, u)
  BY <1>1, BookkeepingRow
<1> HIDE DEF u
<1>3. row' = [row EXCEPT ![s.pr] = u]
  BY DEF ClearCancelled, u
<1>4. row' \in [PRs -> Row]
  BY <1>1, <1>2, <1>3 DEF IInv, TypeOK, Bookkeeping
<1>5. TypeOK'
  BY <1>4 DEF IInv, TypeOK, ClearCancelled, Handler, Fine
<1>6. UNCHANGED <<pc, pr, ticket>>
  BY DEF ClearCancelled, Handler
<1>7. WorkIsRunning'
  BY <1>1, <1>2, <1>3, <1>6 DEF IInv, TypeOK, WorkIsRunning, Bookkeeping, SameWork
<1>8. AttemptsBounded'
  BY <1>1, <1>2, <1>3 DEF IInv, TypeOK, AttemptsBounded, Bookkeeping, SameWork
<1> QED
  BY <1>5, <1>6, <1>7, <1>8 DEF IInv, HeldTicket

(* A statement that raises in a handler writes no row. *)
LEMMA WebhookRaisesStep ==
    ASSUME IInv, WebhookRaises
    PROVE  IInv'
<1>1. UNCHANGED <<clock, row, nextId, open, taskVars, blocked_until, cooldown_cached,
                  events, comment, nextComment, servedVars>>
  BY DEF WebhookRaises, Handler, Took
<1>2. inbox' \subseteq Delivery /\ stripping' \subseteq Stripping /\ troubles' \in Nat
  BY DEF WebhookRaises, Took, Trouble, IInv, TypeOK
<1>3. pushes' \in [PRs -> Nat] /\ inactive' \in [PRs -> BOOLEAN]
  <2>1. \A d \in inbox : d.pr \in PRs
    BY DEF IInv, TypeOK, Delivery
  <2>2. UNCHANGED arrivalVars \/ \E p \in PRs : Arrives(p)
    BY <2>1 DEF WebhookRaises
  <2>3. ASSUME NEW p \in PRs, Arrives(p)
        PROVE  pushes' \in [PRs -> Nat] /\ inactive' \in [PRs -> BOOLEAN]
    BY <2>3 DEF Arrives, IInv, TypeOK
  <2> QED
    BY <2>2, <2>3 DEF IInv, TypeOK
<1>4. TypeOK'
  BY <1>1, <1>2, <1>3 DEF IInv, TypeOK
<1> QED
  BY <1>1, <1>4, Aside DEF IInv

(* Every webhook step preserves IInv. *)
LEMMA WebhooksStep == IInv /\ Webhooks => IInv'
BY WebhookRaisesStep, HandlePushStep, HandleCloseStep, StripCancelledStep,
   ClearCancelledStep DEF Webhooks

-----------------------------------------------------------------------------
(* The dispatcher's moves from one await to the next. *)
TaskTyped ==
    /\ pc \in Working \cup Deferred \cup Between
    /\ pr \in PRs \cup {NoPR} /\ ticket \in Row /\ now \in Nat
    /\ retry_after \in Nat /\ posted \in Nat \cup {Null}

(* When process_next_due returns or raises, no ticket is held. *)
LEMMA Ends ==
    ASSUME EndStep
    PROVE  TaskTyped' /\ WorkIsRunning' /\ HeldTicket' /\ pc' = "sweep"
<1>1. TaskTyped'
  BY NoRowIsRow DEF EndStep, ForgetTicket, TaskTyped, Between, Null
<1> QED
  BY <1>1 DEF EndStep, WorkIsRunning, HeldTicket, Working, Deferred

(* On to the next await: the ticket held is the same. *)
LEMMA Goes ==
    ASSUME IInv, NEW label \in Working \cup Deferred \cup Between,
           NEW found \in Nat \cup {Null}, GotoWith(label, found)
    PROVE  TaskTyped' /\ pc' = label /\ UNCHANGED <<pr, ticket, now, retry_after>>
BY DEF IInv, TypeOK, GotoWith, TaskTyped

(* The same without an id returned by GitHub. *)
LEMMA GoesOn ==
    ASSUME IInv, NEW label \in Working \cup Deferred \cup Between, Goto(label)
    PROVE  TaskTyped' /\ pc' = label /\ UNCHANGED <<pr, ticket, now, retry_after>>
BY DEF IInv, TypeOK, Goto, GotoWith, TaskTyped

(* A statement on the row of the ticket at hand. *)
LEMMA Writes ==
    ASSUME IInv, pr \in PRs, NEW new \in Row,
           new.attempts <= MaxFailures + MaxNoticePosts - 2, Write(new)
    PROVE  /\ row' \in [PRs -> Row] /\ nextId' = nextId
           /\ row'[pr] = new
           /\ AttemptsBounded'
<1>1. row' = [row EXCEPT ![pr] = new] /\ nextId' = nextId
  BY DEF Write
<1> QED
  BY <1>1 DEF IInv, TypeOK, AttemptsBounded

(* A ticket that is still at work, its row changed in the bookkeeping columns
   only. *)
LEMMA WorksOn ==
    ASSUME IInv, pc \in Working, NEW new \in Row, SameWork(row[pr], new),
           Write(new), UNCHANGED <<pr, ticket>>
    PROVE  WorkIsRunning' /\ HeldTicket' /\ AttemptsBounded' /\ row' \in [PRs -> Row]
<1>1. pr \in PRs /\ row[pr] \in Row
  BY AtWork
<1>2. new.attempts <= MaxFailures + MaxNoticePosts - 2
  BY <1>1 DEF IInv, AttemptsBounded, SameWork
<1>3. row' \in [PRs -> Row] /\ row'[pr] = new /\ AttemptsBounded'
  BY <1>1, <1>2, Writes
<1> QED
  BY <1>1, <1>3 DEF IInv, WorkIsRunning, HeldTicket, SameWork

(* A deferral: the ticket leaves the attempt, with a placeholder to post or
   without. *)
LEMMA DefersTo ==
    ASSUME IInv, pc \in Working, NEW new \in Row, new.attempts = row[pr].attempts,
           DeferTo(new)
    PROVE  /\ TaskTyped' /\ WorkIsRunning' /\ HeldTicket' /\ AttemptsBounded'
           /\ row' \in [PRs -> Row] /\ nextId' = nextId
           /\ row'[pr] = new /\ pc' \notin Working
<1>1. pr \in PRs
  BY AtWork
<1>2. row' \in [PRs -> Row] /\ nextId' = nextId /\ row'[pr] = new /\ AttemptsBounded'
  BY <1>1, Writes DEF DeferTo, IInv, AttemptsBounded
<1>3. CASE EndStep
  BY <1>2, <1>3, Ends DEF Working
<1>4. CASE Goto("placeholder")
  <2>1. TaskTyped' /\ pc' = "placeholder" /\ UNCHANGED <<pr, ticket, now, retry_after>>
    BY <1>4, GoesOn DEF Deferred
  <2> QED
    BY <1>1, <1>2, <2>1 DEF WorkIsRunning, HeldTicket, Working
<1> QED
  BY <1>3, <1>4 DEF DeferTo

(* The failure backoff, while the attempts stay below the ceiling. *)
LEMMA BackoffIsDuration ==
    ASSUME IInv, pc \in Working, next_attempt <= MaxFailures + MaxNoticePosts - 2
    PROVE  \A j \in 0..MaxJitter : now + compute_backoff(next_attempt) + j \in Nat
<1>1. ticket.attempts \in Nat
  BY AtWork
<1>2. compute_backoff(next_attempt) \in Nat
  <2> DEFINE x == 2 ^ ticket.attempts
  <2>1. ticket.attempts \in 0..(MaxFailures + MaxNoticePosts)
    BY <1>1, QueueAssumption DEF next_attempt
  <2>2. x \in Nat
    BY <2>1, QueueAssumption
  <2>3. next_attempt - 1 = ticket.attempts
    BY <1>1 DEF next_attempt
  <2>4. compute_backoff(next_attempt) = Least(BackoffBase * x, BackoffCap)
    BY <2>3 DEF compute_backoff
  <2> HIDE DEF x
  <2>5. BackoffBase * x \in Nat
    BY <2>2, QueueAssumption
  <2> QED
    BY <2>4, <2>5, QueueAssumption DEF Least
<1> QED
  BY <1>2, QueueAssumption DEF IInv, TypeOK

(* The backoff records one failure more, which the ceiling must allow. *)
LEMMA BacksOff ==
    ASSUME IInv, pc \in Working, next_attempt <= MaxFailures + MaxNoticePosts - 2, BackOff
    PROVE  /\ TaskTyped' /\ WorkIsRunning' /\ HeldTicket' /\ AttemptsBounded'
           /\ row' \in [PRs -> Row] /\ nextId' = nextId
<1>1. /\ pr \in PRs /\ row[pr] \in Row /\ row[pr].attempts = ticket.attempts
      /\ ticket.attempts \in Nat
  BY AtWork
<1>2. PICK until \in BackoffEnds : Write(DeferFailed(row[pr], until))
  BY DEF BackOff
<1>3. until \in Nat
  BY BackoffIsDuration DEF BackoffEnds
<1>4. /\ DeferFailed(row[pr], until) \in Row
      /\ DeferFailed(row[pr], until).attempts = next_attempt
  BY <1>1, <1>3, DeferFailedRow DEF next_attempt
<1>5. row' \in [PRs -> Row] /\ nextId' = nextId /\ AttemptsBounded'
  BY <1>1, <1>2, <1>4, Writes
<1> QED
  BY <1>5, Ends DEF BackOff

-----------------------------------------------------------------------------
(* process_next_due up to the review. *)
LEMMA ClaimStep ==
    ASSUME IInv, NEW p \in PRs, ClaimNextDue(p)
    PROVE  IInv'
<1> DEFINE u == Claim(row[p])
<1>1. /\ row[p] \in Row /\ u \in Row
      /\ u.status = "running" /\ u.attempts = row[p].attempts
  BY ClaimRow DEF IInv, TypeOK
<1> HIDE DEF u
<1>2. row' = [row EXCEPT ![p] = u] /\ pr' = p /\ ticket' = u /\ pc' = "refresh"
  BY DEF ClaimNextDue, u
<1>3. row' \in [PRs -> Row] /\ row'[p] = u
  BY <1>1, <1>2 DEF IInv, TypeOK
<1>4. claimed' \in [PRs -> Nat]
  BY DEF ClaimNextDue, IInv, TypeOK
<1>5. TaskTyped'
  BY <1>1, <1>2 DEF ClaimNextDue, TaskTyped, Working, IInv, TypeOK, Null
<1>6. TypeOK'
  BY <1>3, <1>4, <1>5 DEF ClaimNextDue, Task, Fine, TaskTyped, IInv, TypeOK
<1>7. AttemptsBounded'
  BY <1>1, <1>2 DEF IInv, TypeOK, AttemptsBounded
<1> QED
  BY <1>1, <1>2, <1>3, <1>6, <1>7 DEF IInv, WorkIsRunning, HeldTicket, Deferred

(* An empty claim changes no row. *)
LEMMA NothingDueStep == IInv /\ NothingDue => IInv'
<1> SUFFICES ASSUME IInv, NothingDue PROVE IInv'
  OBVIOUS
<1>1. TaskTyped' /\ pc' = "sweep" /\ UNCHANGED <<pr, ticket, now, retry_after>>
  BY GoesOn DEF NothingDue, Between
<1>2. TypeOK'
  BY <1>1 DEF NothingDue, Task, Fine, TaskTyped, IInv, TypeOK
<1> QED
  BY <1>1, <1>2 DEF NothingDue, IInv, WorkIsRunning, HeldTicket, AttemptsBounded, Working, Deferred

(* From one await of an attempt to another, no statement in between. *)
LEMMA Proceeds ==
    ASSUME IInv, pc \in Working, TaskTyped', pc' \in Working,
           UNCHANGED <<row, pr, ticket>>
    PROVE  WorkIsRunning' /\ HeldTicket' /\ AttemptsBounded'
BY DEF IInv, WorkIsRunning, HeldTicket, AttemptsBounded, Working, Deferred

(* Refreshing the configuration writes no row. *)
LEMMA RefreshStep == IInv /\ RefreshConfig => IInv'
<1> SUFFICES ASSUME IInv, RefreshConfig PROVE IInv'
  OBVIOUS
<1>1. \E label \in {"strip", "gate"} : Goto(label)
  BY DEF RefreshConfig
<1>2. TaskTyped' /\ pc' \in {"strip", "gate"} /\ UNCHANGED <<pr, ticket, now, retry_after>>
  BY <1>1, GoesOn DEF Working
<1>3. cooldown_cached' \in BOOLEAN
  BY DEF RefreshConfig
<1>4. troubles' \in Nat
  BY DEF RefreshConfig, Fine, Trouble, IInv, TypeOK
<1>5. TypeOK'
  BY <1>2, <1>3, <1>4 DEF RefreshConfig, Task, TaskTyped, IInv, TypeOK
<1> QED
  BY <1>2, <1>5, Proceeds DEF RefreshConfig, Task, IInv, Working

(* Without a usable tuning configuration the ticket is deferred. *)
LEMMA TuningStep == IInv /\ TuningUnavailable => IInv'
<1> SUFFICES ASSUME IInv, TuningUnavailable PROVE IInv'
  OBVIOUS
<1> DEFINE u == DeferRateLimited(row[pr], now + UnconfiguredWait)
<1>1. pc \in Working /\ now + UnconfiguredWait \in Nat
  BY QueueAssumption DEF TuningUnavailable, Task, Working, IInv, TypeOK
<1>2. u \in Row /\ u.attempts = row[pr].attempts
  BY <1>1, AtWork, DeferRow
<1> HIDE DEF u
<1>3. /\ TaskTyped' /\ WorkIsRunning' /\ HeldTicket' /\ AttemptsBounded'
      /\ row' \in [PRs -> Row] /\ nextId' = nextId
  BY <1>1, <1>2, DefersTo DEF TuningUnavailable, u
<1>4. TypeOK'
  BY <1>3 DEF TuningUnavailable, Task, Trouble, TaskTyped, IInv, TypeOK
<1> QED
  BY <1>3, <1>4 DEF IInv

(* Stripping the schedule notice writes no row. *)
LEMMA StripStep == IInv /\ StripNotice => IInv'
<1> SUFFICES ASSUME IInv, StripNotice PROVE IInv'
  OBVIOUS
<1>1. pc \in Working
  BY DEF StripNotice, Task, Working
<1>2. pr \in PRs /\ comment[pr] \in Comment /\ comment[pr].id \in Nat \cup {Null}
  BY <1>1, AtWork DEF IInv, TypeOK, Comment
<1>3. Strip(comment[pr]) \in Comment
  BY <1>2, CommentEdits DEF IInv, TypeOK
<1>4. comment' \in [PRs -> Comment]
  BY <1>2, <1>3 DEF StripNotice, IInv, TypeOK
<1>5. GotoWith("stripped", comment[pr].id) \/ Goto("gate")
  BY DEF StripNotice
<1>6. TaskTyped' /\ pc' \in {"stripped", "gate"} /\ UNCHANGED <<pr, ticket, now, retry_after>>
  BY <1>2, <1>5, Goes, GoesOn DEF Working
<1>7. troubles' \in Nat
  BY DEF StripNotice, Fine, Trouble, IInv, TypeOK
<1>8. TypeOK'
  BY <1>4, <1>6, <1>7 DEF StripNotice, Task, TaskTyped, IInv, TypeOK
<1> QED
  BY <1>1, <1>6, <1>8, Proceeds DEF StripNotice, IInv, Working

(* What a call found goes into the bookkeeping columns. *)
LEMMA RecordedRow ==
    ASSUME NEW t \in Row, NEW found \in Nat \cup {Null}
    PROVE  Bookkeeping(t, Recorded(t, found))
<1> DEFINE v == SetCommentId(t, found)
<1>1. v \in Row /\ Bookkeeping(t, v)
  BY BookkeepingRow DEF Bookkeeping
<1>2. ClearVisibleReview(v) \in Row /\ Bookkeeping(v, ClearVisibleReview(v))
  BY <1>1, BookkeepingRow DEF Bookkeeping
<1>3. Bookkeeping(t, ClearVisibleReview(v))
  BY <1>1, <1>2, BookkeepingChain
<1> QED
  BY <1>1, <1>3 DEF Recorded

(* What the strip found goes into bookkeeping columns. *)
LEMMA RecordStripStep == IInv /\ RecordStrip => IInv'
<1> SUFFICES ASSUME IInv, RecordStrip PROVE IInv'
  OBVIOUS
<1> DEFINE v == Recorded(row[pr], posted)
           u == ClearNotice(v)
<1>1. pc \in Working
  BY DEF RecordStrip, Task, Working
<1>2. pr \in PRs /\ row[pr] \in Row
  BY <1>1, AtWork
<1>3. v \in Row /\ Bookkeeping(row[pr], v)
  BY <1>2, RecordedRow DEF IInv, TypeOK, Bookkeeping
<1>4. u \in Row /\ Bookkeeping(v, u)
  BY <1>3, BookkeepingRow DEF Bookkeeping
<1> HIDE DEF v
<1>5. Bookkeeping(row[pr], u)
  BY <1>2, <1>3, <1>4, BookkeepingChain
<1> HIDE DEF u
<1>6. Write(u) /\ Goto("gate")
  BY DEF RecordStrip, u, v
<1>7. TaskTyped' /\ UNCHANGED <<pr, ticket, now, retry_after>>
  BY <1>6, GoesOn DEF Working
<1>8. WorkIsRunning' /\ HeldTicket' /\ AttemptsBounded' /\ row' \in [PRs -> Row]
  BY <1>1, <1>4, <1>5, <1>6, <1>7, WorksOn DEF Bookkeeping
<1>9. TypeOK'
  BY <1>6, <1>7, <1>8 DEF RecordStrip, Write, Task, Fine, TaskTyped, IInv, TypeOK
<1> QED
  BY <1>8, <1>9 DEF IInv

(* The usage cap and the blocked provider defer the ticket. *)
LEMMA GateStep == IInv /\ (CapReached \/ Blocked \/ Proceed) => IInv'
<1> SUFFICES ASSUME IInv, CapReached \/ Blocked \/ Proceed PROVE IInv'
  OBVIOUS
<1>1. pc \in Working
  BY DEF CapReached, Blocked, Proceed, Task, Working
<1>2. pr \in PRs /\ row[pr] \in Row
  BY <1>1, AtWork
<1>3. CASE CapReached
  <2>1. PICK w \in CapWaits : DeferTo(DeferUsageCapped(row[pr], now + w))
    BY <1>3 DEF CapReached
  <2> DEFINE u == DeferUsageCapped(row[pr], now + w)
  <2>2. now + w \in Nat
    BY QueueAssumption DEF IInv, TypeOK
  <2>3. u \in Row /\ u.attempts = row[pr].attempts
    BY <1>2, <2>2, DeferRow
  <2> HIDE DEF u
  <2>4. /\ TaskTyped' /\ WorkIsRunning' /\ HeldTicket' /\ AttemptsBounded'
        /\ row' \in [PRs -> Row] /\ nextId' = nextId
    BY <1>1, <2>1, <2>3, DefersTo DEF u
  <2>5. TypeOK'
    BY <1>3, <2>4 DEF CapReached, Task, Trouble, TaskTyped, IInv, TypeOK
  <2> QED
    BY <2>4, <2>5 DEF IInv
<1>4. CASE Blocked
  <2> DEFINE u == DeferRateLimited(row[pr], blocked_until)
  <2>1. u \in Row /\ u.attempts = row[pr].attempts
    BY <1>2, DeferRow DEF IInv, TypeOK
  <2> HIDE DEF u
  <2>2. /\ TaskTyped' /\ WorkIsRunning' /\ HeldTicket' /\ AttemptsBounded'
        /\ row' \in [PRs -> Row] /\ nextId' = nextId
    BY <1>1, <1>4, <2>1, DefersTo DEF Blocked, u
  <2>3. TypeOK'
    BY <1>4, <2>2 DEF Blocked, Task, Fine, TaskTyped, IInv, TypeOK
  <2> QED
    BY <2>2, <2>3 DEF IInv
<1>5. CASE Proceed
  <2>1. TaskTyped' /\ pc' = "attempt" /\ UNCHANGED <<pr, ticket, now, retry_after>>
    BY <1>5, GoesOn DEF Proceed, Working
  <2>2. TypeOK'
    BY <1>5, <2>1 DEF Proceed, Task, Fine, TaskTyped, IInv, TypeOK
  <2> QED
    BY <1>1, <1>5, <2>1, <2>2, Proceeds DEF Proceed, IInv, Working
<1> QED
  BY <1>3, <1>4, <1>5

(* attempt_review's outcomes, and the hard-failure handler's first lines. *)
LEMMA AttemptStep ==
    IInv /\ (Reviewed \/ AttemptFails \/ ReviewSkipped \/ ReviewRateLimited) => IInv'
<1> SUFFICES ASSUME IInv, Reviewed \/ AttemptFails \/ ReviewSkipped \/ ReviewRateLimited
             PROVE  IInv'
  OBVIOUS
<1>1. pc \in Working /\ Attempt
  BY DEF Reviewed, AttemptFails, ReviewSkipped, ReviewRateLimited, Attempt, Task, Working
<1>2. CASE Reviewed \/ AttemptFails \/ ReviewSkipped
  <2>1. \E label \in {"post", "failure", "delete"} : Goto(label)
    BY <1>2 DEF Reviewed, AttemptFails, ReviewSkipped
  <2>2. /\ TaskTyped' /\ pc' \in {"post", "failure", "delete"}
        /\ UNCHANGED <<pr, ticket, now, retry_after>>
    BY <2>1, GoesOn DEF Working
  <2>3. troubles' \in Nat
    BY <1>2 DEF Reviewed, AttemptFails, ReviewSkipped, Fine, Trouble, IInv, TypeOK
  <2>4. UNCHANGED memoryVars
    BY <1>2 DEF Reviewed, AttemptFails, ReviewSkipped
  <2>5. TypeOK'
    BY <1>1, <2>2, <2>3, <2>4 DEF Attempt, Task, TaskTyped, IInv, TypeOK
  <2> QED
    BY <1>1, <2>2, <2>5, Proceeds DEF Attempt, IInv, Working
<1>3. CASE ReviewRateLimited
  <2>1. PICK r \in RetryAfters :
            /\ retry_after' = Greatest(r, MinRetryAfter)
            /\ blocked_until' = now + Greatest(r, MinRetryAfter)
    BY <1>3 DEF ReviewRateLimited
  <2>2. Greatest(r, MinRetryAfter) \in Nat
    BY QueueAssumption DEF Greatest
  <2>3. TaskTyped' /\ blocked_until' \in Nat
    BY <1>3, <2>1, <2>2 DEF ReviewRateLimited, TaskTyped, Working, IInv, TypeOK
  <2>4. TypeOK'
    BY <1>1, <1>3, <2>3
       DEF ReviewRateLimited, Attempt, Task, Trouble, TaskTyped, IInv, TypeOK
  <2> QED
    BY <1>1, <1>3, <2>3, <2>4, Proceeds DEF ReviewRateLimited, Attempt, IInv, Working
<1> QED
  BY <1>2, <1>3

(* A rate-limited attempt defers the ticket. *)
LEMMA RateLimitStep == IInv /\ RecordRateLimit => IInv'
<1> SUFFICES ASSUME IInv, RecordRateLimit PROVE IInv'
  OBVIOUS
<1> DEFINE u == DeferRateLimited(row[pr], now + retry_after)
<1>1. pc \in Working /\ now + retry_after \in Nat
  BY DEF RecordRateLimit, Task, Working, IInv, TypeOK
<1>2. u \in Row /\ u.attempts = row[pr].attempts
  BY <1>1, AtWork, DeferRow
<1> HIDE DEF u
<1>3. /\ TaskTyped' /\ WorkIsRunning' /\ HeldTicket' /\ AttemptsBounded'
      /\ row' \in [PRs -> Row] /\ nextId' = nextId
  BY <1>1, <1>2, DefersTo DEF RecordRateLimit, u
<1>4. TypeOK'
  BY <1>3 DEF RecordRateLimit, Task, Fine, TaskTyped, IInv, TypeOK
<1> QED
  BY <1>3, <1>4 DEF IInv

(* A successful call to GitHub. *)
LEMMA Edits ==
    ASSUME IInv, NEW label \in Working \cup Deferred \cup Between, NEW p \in PRs,
           NEW new \in Comment, new.id \in Nat, EditThen(label, p, new)
    PROVE  /\ comment' \in [PRs -> Comment] /\ nextComment' \in Nat
           /\ UNCHANGED <<open, inbox>>
           /\ TaskTyped' /\ pc' = label /\ UNCHANGED <<pr, ticket, now, retry_after>>
<1>1. comment' \in [PRs -> Comment]
  BY DEF EditThen, IInv, TypeOK
<1>2. nextComment' \in Nat
  BY DEF EditThen, IInv, TypeOK
<1> QED
  BY <1>1, <1>2, Goes DEF EditThen

(* An edited comment is a comment and has an id. *)
LEMMA EditsHaveIds ==
    ASSUME NEW c \in Comment, nextComment \in Nat
    PROVE  /\ \A body \in Bodies : Upsert(c, body) \in Comment /\ Upsert(c, body).id \in Nat
           /\ \A note \in Notes : Append(c, note) \in Comment /\ Append(c, note).id \in Nat
BY CommentEdits DEF Upsert, Append, Exists, Comment

(* Posting the review writes no row. *)
LEMMA PostReviewStep == IInv /\ PostReview => IInv'
<1> SUFFICES ASSUME IInv, PostReview PROVE IInv'
  OBVIOUS
<1> DEFINE new == Upsert(comment[pr], "review")
<1>1. pc \in Working
  BY DEF PostReview, Task, Working
<1>2. pr \in PRs /\ new \in Comment /\ new.id \in Nat
  BY <1>1, AtWork, EditsHaveIds DEF IInv, TypeOK, Bodies
<1> HIDE DEF new
<1>3. EditThen("finalize", pr, new) \/ (Goto("failure") /\ UNCHANGED githubVars)
  BY DEF PostReview, new
<1>4. /\ comment' \in [PRs -> Comment] /\ nextComment' \in Nat /\ UNCHANGED <<open, inbox>>
      /\ TaskTyped' /\ pc' \in {"finalize", "failure"} /\ UNCHANGED <<pr, ticket>>
  <2>1. CASE EditThen("finalize", pr, new)
    BY <1>2, <2>1, Edits DEF Working
  <2>2. CASE Goto("failure") /\ UNCHANGED githubVars
    BY <2>2, GoesOn DEF Working, IInv, TypeOK
  <2> QED
    BY <1>3, <2>1, <2>2
<1>5. troubles' \in Nat
  BY DEF PostReview, Fine, Trouble, IInv, TypeOK
<1>6. TypeOK'
  BY <1>4, <1>5 DEF PostReview, Task, TaskTyped, IInv, TypeOK
<1> QED
  BY <1>1, <1>4, <1>6, Proceeds DEF PostReview, IInv, Working

(* finalize_review settles or re-arms the row and never adds an attempt. *)
LEMMA FinalizeStep == IInv /\ Finalize => IInv'
<1> SUFFICES ASSUME IInv, Finalize PROVE IInv'
  OBVIOUS
<1> DEFINE until == now + effective_cooldown(ticket.cooldown_level)
           level == next_cooldown_level(ticket.cooldown_level)
           u == FinalizeReview(row[pr], now, until, level, posted)
<1>1. pc \in Working
  BY DEF Finalize, Task, Working
<1>2. /\ pr \in PRs /\ row[pr] \in Row /\ row[pr].attempts <= MaxFailures + MaxNoticePosts - 2
      /\ now \in Nat /\ posted \in Nat \cup {Null}
      /\ ticket.cooldown_level \in 0..MaxCooldownLevel
  BY <1>1, AtWork DEF IInv, TypeOK, AttemptsBounded, Row
<1>3. /\ effective_cooldown(ticket.cooldown_level) \in Nat
      /\ effective_cooldown(ticket.cooldown_level) >= CooldownBase
  BY <1>2, EffectiveCooldown
<1>4. until \in Nat /\ until >= now + CooldownBase
  BY <1>2, <1>3, CooldownAssumption
<1>5. level \in 0..MaxCooldownLevel
  BY <1>2, NextLevel
<1>6. u \in Row /\ u.attempts <= row[pr].attempts
  BY <1>2, <1>4, <1>5, FinalizeRow
<1> HIDE DEF u
<1>7. u.attempts <= MaxFailures + MaxNoticePosts - 2
  BY <1>2, <1>6, QueueAssumption DEF Row
<1>8. /\ EndStep
      /\ \/ Write(u) /\ reviewed' = [reviewed EXCEPT ![pr] = claimed[pr]]
         \/ UNCHANGED <<dbVars, reviewed>>
  BY DEF Finalize, u
<1>9. row' \in [PRs -> Row] /\ nextId' = nextId /\ AttemptsBounded'
  <2>1. CASE Write(u)
    BY <1>2, <1>6, <1>7, <2>1, Writes
  <2>2. CASE UNCHANGED dbVars
    BY <2>2 DEF IInv, TypeOK, AttemptsBounded
  <2> QED
    BY <1>8, <2>1, <2>2
<1>10. reviewed' \in [PRs -> Nat]
  BY <1>2, <1>8 DEF IInv, TypeOK
<1>11. TaskTyped' /\ WorkIsRunning' /\ HeldTicket'
  BY <1>8, Ends
<1>12. TypeOK'
  BY <1>9, <1>10, <1>11 DEF Finalize, Task, Fine, TaskTyped, IInv, TypeOK
<1> QED
  BY <1>9, <1>11, <1>12 DEF IInv

(* One statement of discard_skipped_ticket: it settles the row, or the next
   one is tried. *)
LEMMA DiscardStep ==
    ASSUME IInv, NEW label \in {"delete", "rearm", "revert"}, NEW matches \in BOOLEAN,
           NEW new \in Row, new.attempts <= MaxFailures + MaxNoticePosts - 2,
           NEW otherwise \in {"rearm", "revert", "sweep"},
           Discard(label, matches, new, otherwise)
    PROVE  IInv'
<1>1. pc \in Working
  BY DEF Discard, Task, Working
<1>2. pr \in PRs
  BY <1>1, AtWork
<1>3. CASE matches
  <2>1. Write(new) /\ EndStep
    BY <1>3 DEF Discard
  <2>2. row' \in [PRs -> Row] /\ nextId' = nextId /\ AttemptsBounded'
    BY <1>2, <2>1, Writes
  <2>3. TaskTyped' /\ WorkIsRunning' /\ HeldTicket'
    BY <2>1, Ends
  <2>4. TypeOK'
    BY <2>2, <2>3 DEF Discard, Task, Fine, TaskTyped, IInv, TypeOK
  <2> QED
    BY <2>2, <2>3, <2>4 DEF IInv
<1>4. CASE ~matches
  <2>1. UNCHANGED dbVars /\ (EndStep \/ (Goto(otherwise) /\ otherwise \in Working))
    <3>1. UNCHANGED dbVars /\ IF otherwise = "sweep" THEN EndStep ELSE Goto(otherwise)
      BY <1>4 DEF Discard
    <3>2. otherwise = "sweep" \/ otherwise \in Working
      BY DEF Working
    <3> QED
      BY <3>1, <3>2
  <2>2. TaskTyped' /\ WorkIsRunning' /\ HeldTicket' /\ AttemptsBounded'
    <3>1. CASE EndStep
      BY <2>1, <3>1, Ends DEF IInv, AttemptsBounded
    <3>2. CASE Goto(otherwise) /\ otherwise \in Working
      BY <1>1, <2>1, <3>2, GoesOn, Proceeds
    <3> QED
      BY <2>1, <3>1, <3>2
  <2>3. TypeOK'
    BY <2>1, <2>2 DEF Discard, Task, Fine, TaskTyped, IInv, TypeOK
  <2> QED
    BY <2>2, <2>3 DEF IInv
<1> QED
  BY <1>3, <1>4

(* The three statements of discard_skipped_ticket preserve IInv. *)
LEMMA DiscardSkippedStep == IInv /\ DiscardSkipped => IInv'
<1> SUFFICES ASSUME IInv, DiscardSkipped PROVE IInv'
  OBVIOUS
<1>1. pc \in Working
  BY DEF DiscardSkipped, Discard, Task, Working
<1>2. row[pr] \in Row /\ row[pr].attempts <= MaxFailures + MaxNoticePosts - 2
  BY <1>1, AtWork
<1>3. /\ NoRow \in Row /\ NoRow.attempts <= MaxFailures + MaxNoticePosts - 2
      /\ DiscardRearm(row[pr]) \in Row
      /\ DiscardRearm(row[pr]).attempts <= MaxFailures + MaxNoticePosts - 2
      /\ DiscardRevert(row[pr]) \in Row
      /\ DiscardRevert(row[pr]).attempts <= MaxFailures + MaxNoticePosts - 2
  BY <1>2, NoRowIsRow, DiscardRow, QueueAssumption DEF NoRow
<1>4. /\ DiscardDeletes(row[pr]) \in BOOLEAN
      /\ DiscardRearms(row[pr]) \in BOOLEAN
      /\ DiscardReverts(row[pr]) \in BOOLEAN
  BY <1>2 DEF DiscardDeletes, DiscardRearms, DiscardReverts, Row
<1>5. CASE Discard("delete", DiscardDeletes(row[pr]), NoRow, "rearm")
  BY <1>3, <1>4, <1>5, DiscardStep
<1>6. CASE Discard("rearm", DiscardRearms(row[pr]), DiscardRearm(row[pr]), "revert")
  BY <1>3, <1>4, <1>6, DiscardStep
<1>7. CASE Discard("revert", DiscardReverts(row[pr]), DiscardRevert(row[pr]), "sweep")
  BY <1>3, <1>4, <1>7, DiscardStep
<1> QED
  BY <1>5, <1>6, <1>7 DEF DiscardSkipped

-----------------------------------------------------------------------------
(* The placeholder of a ticket just deferred. *)
LEMMA PlaceholderStep == IInv /\ (PostPlaceholder \/ SaveCommentId) => IInv'
<1> SUFFICES ASSUME IInv, PostPlaceholder \/ SaveCommentId PROVE IInv'
  OBVIOUS
<1>1. pc \in Deferred /\ pr \in PRs
  BY DEF PostPlaceholder, SaveCommentId, Task, Deferred, IInv, HeldTicket
<1>2. CASE PostPlaceholder
  <2> DEFINE new == Upsert(comment[pr], "placeholder")
  <2>1. new \in Comment /\ new.id \in Nat
    BY <1>1, EditsHaveIds DEF IInv, TypeOK, Bodies
  <2> HIDE DEF new
  <2>2. EditThen("saveId", pr, new) \/ (EndStep /\ UNCHANGED githubVars)
    BY <1>2 DEF PostPlaceholder, new
  <2>3. /\ comment' \in [PRs -> Comment] /\ nextComment' \in Nat /\ UNCHANGED <<open, inbox>>
        /\ TaskTyped' /\ WorkIsRunning' /\ HeldTicket'
    <3>1. CASE EditThen("saveId", pr, new)
      <4>1. /\ comment' \in [PRs -> Comment] /\ nextComment' \in Nat
            /\ UNCHANGED <<open, inbox, pr>> /\ TaskTyped' /\ pc' = "saveId"
        BY <1>1, <2>1, <3>1, Edits DEF Deferred
      <4> QED
        BY <1>1, <4>1 DEF WorkIsRunning, HeldTicket, Working
    <3>2. CASE EndStep /\ UNCHANGED githubVars
      BY <3>2, Ends DEF IInv, TypeOK
    <3> QED
      BY <2>2, <3>1, <3>2
  <2>4. troubles' \in Nat
    BY <1>2 DEF PostPlaceholder, Fine, Trouble, IInv, TypeOK
  <2>5. TypeOK'
    BY <1>2, <2>3, <2>4 DEF PostPlaceholder, Task, TaskTyped, IInv, TypeOK
  <2>6. AttemptsBounded'
    BY <1>2 DEF PostPlaceholder, IInv, AttemptsBounded
  <2> QED
    BY <2>3, <2>5, <2>6 DEF IInv
<1>3. CASE SaveCommentId
  <2> DEFINE u == SetCommentId(row[pr], posted)
  <2>1. row[pr] \in Row /\ u \in Row /\ u.attempts = row[pr].attempts
    BY <1>1, BookkeepingRow DEF IInv, TypeOK, Bookkeeping, SameWork
  <2> HIDE DEF u
  <2>2. Write(u) /\ EndStep
    BY <1>3 DEF SaveCommentId, u
  <2>3. row' \in [PRs -> Row] /\ nextId' = nextId /\ AttemptsBounded'
    BY <1>1, <2>1, <2>2, Writes DEF IInv, AttemptsBounded
  <2>4. TaskTyped' /\ WorkIsRunning' /\ HeldTicket'
    BY <2>2, Ends
  <2>5. TypeOK'
    BY <1>3, <2>3, <2>4 DEF SaveCommentId, Task, Fine, TaskTyped, IInv, TypeOK
  <2> QED
    BY <2>3, <2>4, <2>5 DEF IInv
<1> QED
  BY <1>2, <1>3

-----------------------------------------------------------------------------
(* Hard failures. *)
LEMMA RetryStep == IInv /\ RetryLater => IInv'
<1> SUFFICES ASSUME IInv, RetryLater PROVE IInv'
  OBVIOUS
<1>1. pc \in Working /\ BackOff
  BY DEF RetryLater, Task, Working
<1>2. next_attempt <= MaxFailures + MaxNoticePosts - 2
  BY <1>1, AtWork, QueueAssumption DEF RetryLater, next_attempt
<1>3. /\ TaskTyped' /\ WorkIsRunning' /\ HeldTicket' /\ AttemptsBounded'
      /\ row' \in [PRs -> Row] /\ nextId' = nextId
  BY <1>1, <1>2, BacksOff
<1>4. TypeOK'
  BY <1>3 DEF RetryLater, Task, Fine, TaskTyped, IInv, TypeOK
<1> QED
  BY <1>3, <1>4 DEF IInv

(* Posting the failure notice writes no row. *)
LEMMA FailureNoticeStep == IInv /\ PostFailureNotice => IInv'
<1> SUFFICES ASSUME IInv, PostFailureNotice PROVE IInv'
  OBVIOUS
<1> DEFINE new == IF HasVisibleReview(ticket) THEN Append(comment[pr], "failure")
                                              ELSE Upsert(comment[pr], "failure")
<1>1. pc \in Working
  BY DEF PostFailureNotice, Task, Working
<1>2. pr \in PRs /\ new \in Comment /\ new.id \in Nat
  BY <1>1, AtWork, EditsHaveIds DEF IInv, TypeOK, Bodies, Notes
<1> HIDE DEF new
<1>3. EditThen("noticed", pr, new) \/ (Goto("unnotified") /\ UNCHANGED githubVars)
  BY DEF PostFailureNotice, new
<1>4. /\ comment' \in [PRs -> Comment] /\ nextComment' \in Nat /\ UNCHANGED <<open, inbox>>
      /\ TaskTyped' /\ pc' \in {"noticed", "unnotified"} /\ UNCHANGED <<pr, ticket>>
  <2>1. CASE EditThen("noticed", pr, new)
    BY <1>2, <2>1, Edits DEF Working
  <2>2. CASE Goto("unnotified") /\ UNCHANGED githubVars
    BY <2>2, GoesOn DEF Working, IInv, TypeOK
  <2> QED
    BY <1>3, <2>1, <2>2
<1>5. troubles' \in Nat
  BY DEF PostFailureNotice, Fine, Trouble, IInv, TypeOK
<1>6. TypeOK'
  BY <1>4, <1>5 DEF PostFailureNotice, Task, TaskTyped, IInv, TypeOK
<1> QED
  BY <1>1, <1>4, <1>6, Proceeds DEF PostFailureNotice, IInv, Working

(* Where the notice went is bookkeeping. *)
LEMMA RecordNoticeStep == IInv /\ RecordNotice => IInv'
<1> SUFFICES ASSUME IInv, RecordNotice PROVE IInv'
  OBVIOUS
<1> DEFINE u == IF HasVisibleReview(ticket) THEN Recorded(row[pr], posted)
                                            ELSE SetCommentId(row[pr], posted)
<1>1. pc \in Working
  BY DEF RecordNotice, Task, Working
<1>2. row[pr] \in Row /\ posted \in Nat \cup {Null}
  BY <1>1, AtWork DEF IInv, TypeOK
<1>3. Bookkeeping(row[pr], u)
  BY <1>2, RecordedRow, BookkeepingRow
<1> HIDE DEF u
<1>4. Write(u) /\ Goto("markFailed")
  BY DEF RecordNotice, u
<1>5. TaskTyped' /\ UNCHANGED <<pr, ticket, now, retry_after>>
  BY <1>4, GoesOn DEF Working
<1>6. WorkIsRunning' /\ HeldTicket' /\ AttemptsBounded' /\ row' \in [PRs -> Row]
  BY <1>1, <1>3, <1>4, <1>5, WorksOn DEF Bookkeeping
<1>7. TypeOK'
  BY <1>4, <1>5, <1>6 DEF RecordNotice, Write, Task, Fine, TaskTyped, IInv, TypeOK
<1> QED
  BY <1>6, <1>7 DEF IInv

(* mark_failed ends the step. *)
LEMMA Fails ==
    ASSUME IInv, pc \in Working, Write(MarkFailed(row[pr])), EndStep
    PROVE  /\ TaskTyped' /\ WorkIsRunning' /\ HeldTicket' /\ AttemptsBounded'
           /\ row' \in [PRs -> Row] /\ nextId' = nextId
<1>1. pr \in PRs /\ row[pr] \in Row /\ row[pr].attempts <= MaxFailures + MaxNoticePosts - 2
  BY AtWork
<1>2. /\ MarkFailed(row[pr]) \in Row
      /\ MarkFailed(row[pr]).attempts <= MaxFailures + MaxNoticePosts - 2
  BY <1>1, MarkFailedRow
<1> QED
  BY <1>1, <1>2, Writes, Ends

(* Giving up, or one more retry because the notice could not be posted: the
   ceiling notice_post_ceiling bounds the attempts. *)
LEMMA MarkFailedStep == IInv /\ (MarkTicketFailed \/ NoticeNotPosted) => IInv'
<1> SUFFICES ASSUME IInv, MarkTicketFailed \/ NoticeNotPosted PROVE IInv'
  OBVIOUS
<1>1. pc \in Working
  BY DEF MarkTicketFailed, NoticeNotPosted, Task, Working
<1>2. \/ Write(MarkFailed(row[pr])) /\ EndStep
      \/ next_attempt <= MaxFailures + MaxNoticePosts - 2 /\ BackOff
  <2>1. next_attempt \in Int
    BY <1>1, AtWork DEF next_attempt
  <2> QED
    BY <2>1, QueueAssumption DEF MarkTicketFailed, NoticeNotPosted, notice_post_ceiling
<1>3. /\ TaskTyped' /\ WorkIsRunning' /\ HeldTicket' /\ AttemptsBounded'
      /\ row' \in [PRs -> Row] /\ nextId' = nextId
  BY <1>1, <1>2, Fails, BacksOff
<1>4. TypeOK'
  BY <1>3 DEF MarkTicketFailed, NoticeNotPosted, Task, Fine, TaskTyped, IInv, TypeOK
<1> QED
  BY <1>3, <1>4 DEF IInv

(* Every step of process_next_due preserves IInv. *)
LEMMA ProcessNextDueStep == IInv /\ ProcessNextDue => IInv'
BY ClaimStep, NothingDueStep, RefreshStep, TuningStep, StripStep, RecordStripStep,
   GateStep, AttemptStep, RateLimitStep, PostReviewStep, FinalizeStep,
   DiscardSkippedStep, PlaceholderStep, RetryStep, FailureNoticeStep,
   RecordNoticeStep, MarkFailedStep
   DEF ProcessNextDue

-----------------------------------------------------------------------------
(* The notice sweep. *)
LEMMA SweepReadStep == IInv /\ SweepRead => IInv'
<1> SUFFICES ASSUME IInv, SweepRead PROVE IInv'
  OBVIOUS
<1>1. \E label \in {"claim", "sweeping"} : Goto(label)
  BY DEF SweepRead
<1>2. TaskTyped' /\ pc' \in {"claim", "sweeping"} /\ UNCHANGED <<pr, ticket, now, retry_after>>
  BY <1>1, GoesOn DEF Between
<1>3. todo' \subseteq Notice
  <2>1. \A p \in PRs : [pr |-> p, ticket |-> row[p]] \in Notice
    BY DEF Notice, IInv, TypeOK
  <2> QED
    BY <2>1 DEF SweepRead
<1>4. TypeOK'
  BY <1>2, <1>3 DEF SweepRead, Task, Fine, TaskTyped, IInv, TypeOK
<1>5. AttemptsBounded'
  BY DEF SweepRead, IInv, AttemptsBounded
<1> QED
  BY <1>2, <1>4, <1>5 DEF IInv, WorkIsRunning, HeldTicket, Working, Deferred

(* The sweep goes on to the next ticket or back to the claim. *)
LEMMA Rests ==
    ASSUME IInv, NEW s \in todo, Rest(s)
    PROVE  TaskTyped' /\ WorkIsRunning' /\ HeldTicket' /\ todo' \subseteq Notice
<1>1. \E label \in {"claim", "sweeping"} : GotoWith(label, Null)
  BY DEF Rest
<1>2. TaskTyped' /\ pc' \in {"claim", "sweeping"}
  BY <1>1, Goes DEF Between
<1>3. todo' \subseteq Notice
  BY DEF Rest, IInv, TypeOK
<1> QED
  BY <1>2, <1>3 DEF WorkIsRunning, HeldTicket, Working, Deferred

(* Appending a schedule notice writes no row. *)
LEMMA AppendStep ==
    ASSUME IInv, NEW s \in todo, AppendNotice(s)
    PROVE  IInv'
<1> DEFINE new == Append(comment[s.pr], "schedule")
<1>1. s.pr \in PRs
  BY DEF IInv, TypeOK, Notice
<1>2. new \in Comment /\ new.id \in Nat
  BY <1>1, EditsHaveIds DEF IInv, TypeOK, Notes
<1> HIDE DEF new
<1>3. \/ EditThen("appended", s.pr, new) /\ UNCHANGED todo
      \/ Rest(s) /\ UNCHANGED githubVars
  BY DEF AppendNotice, new
<1>4. /\ comment' \in [PRs -> Comment] /\ nextComment' \in Nat /\ UNCHANGED <<open, inbox>>
      /\ TaskTyped' /\ WorkIsRunning' /\ HeldTicket' /\ todo' \subseteq Notice
  <2>1. CASE EditThen("appended", s.pr, new) /\ UNCHANGED todo
    <3>1. /\ comment' \in [PRs -> Comment] /\ nextComment' \in Nat
          /\ UNCHANGED <<open, inbox>> /\ TaskTyped' /\ pc' = "appended"
      BY <1>1, <1>2, <2>1, Edits DEF Between
    <3> QED
      BY <2>1, <3>1 DEF WorkIsRunning, HeldTicket, Working, Deferred, IInv, TypeOK
  <2>2. CASE Rest(s) /\ UNCHANGED githubVars
    BY <2>2, Rests DEF IInv, TypeOK
  <2> QED
    BY <1>3, <2>1, <2>2
<1>5. troubles' \in Nat
  BY DEF AppendNotice, Fine, Trouble, IInv, TypeOK
<1>6. TypeOK'
  BY <1>4, <1>5 DEF AppendNotice, Task, TaskTyped, IInv, TypeOK
<1>7. AttemptsBounded'
  BY DEF AppendNotice, IInv, AttemptsBounded
<1> QED
  BY <1>4, <1>6, <1>7 DEF IInv

(* What the sweep records of a notice is bookkeeping. *)
LEMMA AppendIsBookkeeping ==
    ASSUME IInv, NEW s \in todo, RecordAppend(s)
    PROVE  \E u : Bookkeeping(row[s.pr], u) /\ row' = [row EXCEPT ![s.pr] = u]
<1> DEFINE t == row[s.pr]
           a == SetCommentId(t, posted)
           b == IF CommentLost(s.ticket, posted) THEN ClearVisibleReview(a) ELSE a
           u == IF t.id = s.ticket.id
                THEN MarkNoticePosted(b, s.ticket.not_before) ELSE t
<1>1. /\ s.pr \in PRs /\ t \in Row /\ posted \in Nat \cup {Null}
      /\ s.ticket.not_before \in Instant
  BY DEF IInv, TypeOK, Notice, Row
<1>2. row' = [row EXCEPT ![s.pr] = u]
  BY DEF RecordAppend
<1>3. a \in Row /\ Bookkeeping(t, a)
  BY <1>1, BookkeepingRow DEF Bookkeeping
<1> HIDE DEF a
<1>4. b \in Row /\ Bookkeeping(a, b)
  BY <1>3, BookkeepingRow DEF Bookkeeping
<1> HIDE DEF b
<1>5. Bookkeeping(b, MarkNoticePosted(b, s.ticket.not_before))
  BY <1>1, <1>4, BookkeepingRow
<1>6. Bookkeeping(t, b)
  BY <1>1, <1>3, <1>4, BookkeepingChain
<1>7. Bookkeeping(t, MarkNoticePosted(b, s.ticket.not_before))
  BY <1>1, <1>4, <1>5, <1>6, BookkeepingChain
<1>8. Bookkeeping(t, u)
  BY <1>1, <1>7, BookkeepingRow
<1> QED
  BY <1>2, <1>8

(* Recording a schedule notice preserves IInv. *)
LEMMA RecordAppendStep ==
    ASSUME IInv, NEW s \in todo, RecordAppend(s)
    PROVE  IInv'
<1>1. s.pr \in PRs
  BY DEF IInv, TypeOK, Notice
<1>2. PICK u : Bookkeeping(row[s.pr], u) /\ row' = [row EXCEPT ![s.pr] = u]
  BY AppendIsBookkeeping
<1>3. row' \in [PRs -> Row]
  BY <1>1, <1>2 DEF IInv, TypeOK, Bookkeeping
<1>4. AttemptsBounded'
  BY <1>1, <1>2 DEF IInv, TypeOK, AttemptsBounded, Bookkeeping, SameWork
<1>5. TaskTyped' /\ WorkIsRunning' /\ HeldTicket' /\ todo' \subseteq Notice
  BY Rests DEF RecordAppend
<1>6. TypeOK'
  BY <1>3, <1>5 DEF RecordAppend, Task, Fine, TaskTyped, IInv, TypeOK
<1> QED
  BY <1>4, <1>5, <1>6 DEF IInv

(* Every step of post_pending_notices preserves IInv. *)
LEMMA SweepStep == IInv /\ PostPendingNotices => IInv'
BY SweepReadStep, AppendStep, RecordAppendStep DEF PostPendingNotices

-----------------------------------------------------------------------------
(* Statements that raise, crashes, reboots. *)
LEMMA DatabaseStep == IInv /\ DatabaseFails => IInv'
<1> SUFFICES ASSUME IInv, DatabaseFails PROVE IInv'
  OBVIOUS
<1>1. UNCHANGED <<clock, row, nextId, githubVars, memoryVars, events, historyVars>>
  BY DEF DatabaseFails
<1>2. troubles' \in Nat
  BY DEF DatabaseFails, Trouble, IInv, TypeOK
<1>3. \/ \E s \in todo : Rest(s)
      \/ /\ UNCHANGED todo
         /\ \/ pc \in Working /\ \E label \in {"gate", "unnotified"} : Goto(label)
            \/ Goto("claim")
            \/ EndStep
  BY DEF DatabaseFails, Working
<1>4. TaskTyped' /\ WorkIsRunning' /\ HeldTicket' /\ todo' \subseteq Notice
  <2>1. CASE \E s \in todo : Rest(s)
    BY <2>1, Rests
  <2>2. CASE UNCHANGED todo /\ EndStep
    BY <2>2, Ends DEF IInv, TypeOK
  <2>3. CASE UNCHANGED todo /\ Goto("claim")
    <3>1. TaskTyped' /\ pc' = "claim"
      BY <2>3, GoesOn DEF Between
    <3> QED
      BY <2>3, <3>1 DEF WorkIsRunning, HeldTicket, Working, Deferred, IInv, TypeOK
  <2>4. CASE /\ UNCHANGED todo
             /\ pc \in Working /\ \E label \in {"gate", "unnotified"} : Goto(label)
    <3>1. /\ TaskTyped' /\ pc' \in {"gate", "unnotified"}
          /\ UNCHANGED <<pr, ticket, now, retry_after>>
      BY <2>4, GoesOn DEF Working
    <3>2. WorkIsRunning' /\ HeldTicket'
      BY <1>1, <2>4, <3>1, Proceeds DEF Working
    <3> QED
      BY <2>4, <3>1, <3>2 DEF IInv, TypeOK
  <2> QED
    BY <1>3, <2>1, <2>2, <2>3, <2>4
<1>5. TypeOK'
  BY <1>1, <1>2, <1>4 DEF TaskTyped, IInv, TypeOK
<1>6. AttemptsBounded'
  BY <1>1 DEF IInv, AttemptsBounded
<1> QED
  BY <1>4, <1>5, <1>6 DEF IInv

(* A crash forgets the ticket held, not the rows. *)
LEMMA CrashStep == IInv /\ Crash => IInv'
<1> SUFFICES ASSUME IInv, Crash PROVE IInv'
  OBVIOUS
<1>1. TaskTyped' /\ pc' = "down"
  BY NoRowIsRow DEF Crash, ForgetTicket, TaskTyped, Between, Null
<1>2. /\ todo' \subseteq Notice /\ stripping' \subseteq Stripping
      /\ blocked_until' \in Nat /\ troubles' \in Nat
  BY DEF Crash, Trouble, IInv, TypeOK
<1>3. cooldown_cached' \in BOOLEAN
  BY DEF Crash
<1>4. TypeOK'
  BY <1>1, <1>2, <1>3 DEF Crash, TaskTyped, IInv, TypeOK
<1> QED
  BY <1>1, <1>4
     DEF Crash, IInv, WorkIsRunning, HeldTicket, AttemptsBounded, Working, Deferred

(* recover_on_startup preserves IInv. *)
LEMMA RestartStep == IInv /\ Restart => IInv'
<1> SUFFICES ASSUME IInv, Restart PROVE IInv'
  OBVIOUS
<1>1. TaskTyped' /\ pc' = "claim"
  BY GoesOn DEF Restart, Between
<1>2. \A p \in PRs : /\ row[p] \in Row /\ RecoverOnStartup(row[p]) \in Row
                     /\ RecoverOnStartup(row[p]).attempts = row[p].attempts
  BY RecoverRow DEF IInv, TypeOK
<1>3. row' = [p \in PRs |-> RecoverOnStartup(row[p])]
  BY DEF Restart
<1>4. row' \in [PRs -> Row] /\ AttemptsBounded'
  BY <1>2, <1>3 DEF IInv, AttemptsBounded
<1>5. TypeOK'
  BY <1>1, <1>4 DEF Restart, Task, Fine, TaskTyped, IInv, TypeOK
<1> QED
  BY <1>1, <1>4, <1>5 DEF IInv, WorkIsRunning, HeldTicket, Working, Deferred

(* IInv is inductive. *)
LEMMA NextIInv == IInv /\ [Next]_vars => IInv'
<1> SUFFICES ASSUME IInv, [Next]_vars PROVE IInv'
  OBVIOUS
<1>1. CASE Next
  BY <1>1, WorldStep, WebhooksStep, ProcessNextDueStep, SweepStep, DatabaseStep,
     CrashStep, RestartStep
     DEF Next, Dispatcher
<1>2. CASE UNCHANGED vars
  BY <1>2 DEF vars, IInv, TypeOK, WorkIsRunning, HeldTicket, AttemptsBounded
<1> QED
  BY <1>1, <1>2

(* IInv, the strengthening of the three invariants below that is inductive,
   holds in every state the queue reaches. *)
THEOREM Invariance == Spec => []IInv
<1>1. Init => IInv
  BY InitIInv
<1>2. IInv /\ [Next]_vars => IInv'
  BY NextIInv
<1> QED
  BY <1>1, <1>2, PTL DEF Spec

(* Every variable keeps its type; in particular every backoff the failure
   handler computes is a duration, whatever the configuration. *)
THEOREM TypeCorrect == Spec => []TypeOK
BY Invariance, PTL DEF IInv

(* The webhook handlers never pull the running row from under the dispatcher,
   nor change the attempts its retry decisions are taken from. *)
THEOREM WorkStaysRunning == Spec => []WorkIsRunning
BY Invariance, PTL DEF IInv

(* No ticket fails more often than the ceiling of the retry loop. *)
THEOREM RetriesEnd == Spec => []AttemptsBounded
BY Invariance, PTL DEF IInv

=============================================================================
