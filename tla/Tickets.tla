------------------------------ MODULE Tickets ------------------------------
(***************************************************************************)
(* The rows of the review queue's `tickets' table and the statements of    *)
(* review_queue/store.py that change one row.  Each operator takes a row   *)
(* and returns the row the statement leaves behind, so that the state      *)
(* machine of ReviewQueue says when a statement runs and this module says  *)
(* what it writes.                                                         *)
(*                                                                         *)
(* Instants are natural numbers (ticks).  The columns head_sha, provider   *)
(* and last_error are stored for the record and read by no decision, so    *)
(* they are left out; updated_at likewise.  enqueued_at is set once, at    *)
(* INSERT, by the same statement that draws the serial id: the id stands   *)
(* for both.                                                               *)
(***************************************************************************)
EXTENDS Integers

CONSTANTS
    CooldownBase,        \* cooldown_base_seconds
    CooldownCap,         \* cooldown_max_seconds
    CooldownFactor,      \* cooldown_factor
    MaxCooldownLevel     \* _MAX_COOLDOWN_LEVEL

(* cooldown_config.problems(): the bounds a usable triple respects (an
   integral factor stands for the float).  The last conjunct is arithmetic
   the provers do not know of a constant base: its powers are naturals. *)
ASSUME CooldownAssumption ==
    /\ CooldownBase \in Nat
    /\ CooldownCap \in Nat \ {0}
    /\ CooldownBase <= CooldownCap
    /\ CooldownFactor \in Nat \ {0}
    /\ MaxCooldownLevel \in Nat
    /\ \A n \in 0..MaxCooldownLevel : CooldownFactor ^ n \in Nat

(* SQL NULL in a timestamp or an id column. *)
Null == -1

Least(a, b) == IF a <= b THEN a ELSE b
Greatest(a, b) == IF a >= b THEN a ELSE b

Waiting == {"deferred", "retrying"}
Queued == {"pending"} \cup Waiting
Active == Queued \cup {"running"}
Terminal == {"done", "failed", "cancelled"}

Instant == Nat \cup {Null}

(* One row; status "none" says that the table has no row for the PR. *)
Row == [ id                 : Nat,
         status             : Active \cup Terminal \cup {"none"},
         not_before         : Instant,
         attempts           : Nat,
         comment_id         : Nat \cup {Null},
         rereview_requested : BOOLEAN,
         last_reviewed_at   : Instant,
         cooldown_level     : 0..MaxCooldownLevel,
         notice_not_before  : Instant,
         defer_reason       : {"none", "usage_cap"} ]

NoRow == [ id |-> 0, status |-> "none", not_before |-> Null, attempts |-> 0,
           comment_id |-> Null, rereview_requested |-> FALSE,
           last_reviewed_at |-> Null, cooldown_level |-> 0,
           notice_not_before |-> Null, defer_reason |-> "none" ]

-----------------------------------------------------------------------------
(* The escalating cooldown. *)

effective_cooldown(level) ==
    Greatest(CooldownBase,
             Least(CooldownBase * CooldownFactor ^ Least(level, MaxCooldownLevel),
                   CooldownCap))

(* Mutant: the guard against overflow is missing. *)
UnboundedLevel(level) == level + 1

next_cooldown_level(level) == Least(level + 1, MaxCooldownLevel)

(* Whether re-arming this row consults the cooldown configuration at all. *)
NeedsCooldown(t) == t.status \in Terminal /\ t.last_reviewed_at # Null

DueAt(t) == t.last_reviewed_at + effective_cooldown(t.cooldown_level)

(* _due_after_cooldown: churn waits out the cooldown and raises the level, a
   quiet or never reviewed PR runs at once and starts over at level 0. *)
DueAfterCooldown(t, now) ==
    IF t.last_reviewed_at # Null /\ now < DueAt(t)
    THEN [t EXCEPT !.status = "deferred", !.not_before = DueAt(t),
                   !.cooldown_level = next_cooldown_level(@)]
    ELSE [t EXCEPT !.status = "pending", !.not_before = Null,
                   !.cooldown_level = 0]

(* Mutant: a push to a running row rides along with the attempt. *)
EnqueueIgnoringAttempt(t, id, now) ==
    CASE t.status = "none"              -> [NoRow EXCEPT !.id = id, !.status = "pending"]
      [] t.status \in Active            -> t
      [] OTHER                          -> [DueAfterCooldown(t, now) EXCEPT !.attempts = 0]

(* enqueue_or_update, one branch per status of the locked row.  A push to a
   waiting row writes head_sha only: it rides the wait out. *)
EnqueueOrUpdate(t, id, now) ==
    CASE t.status = "none"    -> [NoRow EXCEPT !.id = id, !.status = "pending"]
      [] t.status = "running" -> [t EXCEPT !.rereview_requested = TRUE]
      [] t.status \in Queued  -> t
      [] OTHER                -> [DueAfterCooldown(t, now) EXCEPT
                                     !.attempts = 0,
                                     !.rereview_requested = FALSE,
                                     !.defer_reason = "none"]

-----------------------------------------------------------------------------
(* Claiming. *)

(* Mutant: the query does not know of the status `retrying'. *)
IsDueButRetrying(t, now) ==
    \/ t.status = "pending"
    \/ t.status = "deferred" /\ t.not_before # Null /\ t.not_before <= now

IsDue(t, now) ==
    \/ t.status = "pending"
    \/ t.status \in Waiting /\ t.not_before # Null /\ t.not_before <= now

(* Mutants: the dirty flag of the last attempt survives; the claim forgets
   the notice before anybody stripped it. *)
ClaimKeepingFlag(t) == [t EXCEPT !.status = "running"]
ClaimForgettingNotice(t) ==
    [t EXCEPT !.status = "running", !.rereview_requested = FALSE,
              !.notice_not_before = Null]

Claim(t) == [t EXCEPT !.status = "running", !.rereview_requested = FALSE]

(* Ways out of an attempt. *)

DeferRateLimited(t, until) ==
    [t EXCEPT !.status = "deferred", !.not_before = until,
              !.defer_reason = "none"]

DeferUsageCapped(t, until) ==
    [t EXCEPT !.status = "deferred", !.not_before = until,
              !.defer_reason = "usage_cap"]

DeferFailed(t, until) ==
    [t EXCEPT !.status = "retrying", !.not_before = until, !.attempts = @ + 1]

MarkFailed(t) == [t EXCEPT !.status = "failed"]

(* set_comment_id never erases a stored id. *)
SetCommentId(t, cid) == IF cid = Null THEN t ELSE [t EXCEPT !.comment_id = cid]

(* Mutants: the review is recorded and the flag overlooked; the re-review is
   due at once. *)
FinalizeAsDone(t, now, until, level, cid) ==
    [SetCommentId(t, cid) EXCEPT !.last_reviewed_at = now, !.status = "done",
                                 !.not_before = Null,
                                 !.rereview_requested = FALSE]

FinalizeAndRearmAtOnce(t, now, until, level, cid) ==
    [SetCommentId(t, cid) EXCEPT
        !.last_reviewed_at = now, !.not_before = Null, !.rereview_requested = FALSE,
        !.status = IF t.rereview_requested THEN "pending" ELSE "done"]

(* finalize_review resolves the dirty flag in the statement that records the
   review: a push that landed meanwhile re-arms the row. *)
FinalizeReview(t, now, until, level, cid) ==
    LET reviewed == [SetCommentId(t, cid) EXCEPT
                        !.last_reviewed_at = now,
                        !.rereview_requested = FALSE,
                        !.defer_reason = "none"]
    IN  IF t.rereview_requested
        THEN [reviewed EXCEPT !.status = "deferred", !.not_before = until,
                              !.attempts = 0, !.cooldown_level = level]
        ELSE [reviewed EXCEPT !.status = "done", !.not_before = Null]

(* The three statements of discard_skipped_ticket, each with its WHERE. *)
DiscardDeletes(t) == ~t.rereview_requested /\ t.last_reviewed_at = Null
DiscardRearms(t) == t.rereview_requested
DiscardReverts(t) == t.last_reviewed_at # Null

DiscardRearm(t) ==
    [t EXCEPT !.status = "pending", !.not_before = Null, !.attempts = 0,
              !.rereview_requested = FALSE, !.defer_reason = "none"]

DiscardRevert(t) ==
    [t EXCEPT !.status = "done", !.not_before = Null,
              !.rereview_requested = FALSE, !.defer_reason = "none"]

-----------------------------------------------------------------------------
(* Statements that leave the wait alone. *)

(* Mutant: a close cancels the ticket under review as well. *)
CancelActive(t) == IF t.status \in Active THEN [t EXCEPT !.status = "cancelled"] ELSE t

CancelTicket(t) == IF t.status \in Queued THEN [t EXCEPT !.status = "cancelled"] ELSE t

(* Mutant: only tickets without the dirty flag are recovered. *)
RecoverClean(t) ==
    IF t.status = "running" /\ ~t.rereview_requested
    THEN [t EXCEPT !.status = "pending"]
    ELSE t

RecoverOnStartup(t) ==
    IF t.status = "running"
    THEN [t EXCEPT !.status = "pending", !.rereview_requested = FALSE]
    ELSE t

ClearVisibleReview(t) == [t EXCEPT !.last_reviewed_at = Null]
MarkNoticePosted(t, until) == [t EXCEPT !.notice_not_before = until]
ClearNotice(t) == [t EXCEPT !.notice_not_before = Null]

(* The WHERE of tickets_needing_notice. *)
NeedsNotice(t, now) ==
    /\ t.status = "deferred"
    /\ t.not_before # Null /\ t.not_before > now
    /\ t.last_reviewed_at # Null
    /\ t.notice_not_before # t.not_before

(* Mutant: the status is asked, which is `running' by then. *)
IsDone(t) == t.status = "done"

(* dispatcher._has_visible_review *)
HasVisibleReview(t) == t.last_reviewed_at # Null

(* dispatcher._comment_was_recreated, and the None that clear_schedule_notice
   returns for a comment that is gone: the id on file is not the one found. *)
CommentLost(t, found) == t.comment_id # Null /\ found # t.comment_id

(* At this instant the cooldown of the row's last completed review is over. *)
CooldownElapsed(t, at) ==
    t.last_reviewed_at # Null => at >= t.last_reviewed_at + CooldownBase
=============================================================================
