--------------------------- MODULE CommentProofs ---------------------------
(***************************************************************************)
(* What the pull request's author sees: a good review is not overwritten,  *)
(* a failed ticket says so, and a schedule notice is stripped before the   *)
(* next attempt ends, for any number of pull requests and any bounds.      *)
(* Each theorem names the troubles it excludes.                            *)
(***************************************************************************)
EXTENDS ReviewQueueRefinement

USE DEF clockVars, dbVars, githubVars, memoryVars, ticketVars, taskVars, boundVars,
        arrivalVars, servedVars, historyVars

-----------------------------------------------------------------------------
(* The statements that know nothing of the comment leave these columns. *)
Kept(t, u) ==
    /\ u.id = t.id /\ u.comment_id = t.comment_id
    /\ u.last_reviewed_at = t.last_reviewed_at
    /\ u.notice_not_before = t.notice_not_before
    /\ u.status = "none" <=> t.status = "none"

(* A push to a row that is there keeps them. *)
LEMMA EnqueueKeeps ==
    ASSUME NEW t \in Row, NEW id \in Nat, NEW at \in Nat, t.status # "none"
    PROVE  Kept(t, EnqueueOrUpdate(t, id, at))
<1> DEFINE u == EnqueueOrUpdate(t, id, at)
           v == DueAfterCooldown(t, at)
<1> SUFFICES Kept(t, u)
  OBVIOUS
<1>1. CASE t.status = "running"
  <2>1. u = [t EXCEPT !.rereview_requested = TRUE]
    BY <1>1 DEF EnqueueOrUpdate, Queued, Waiting
  <2> HIDE DEF u
  <2>2. /\ u.id = t.id /\ u.comment_id = t.comment_id /\ u.status = t.status
        /\ u.last_reviewed_at = t.last_reviewed_at
        /\ u.notice_not_before = t.notice_not_before
    BY <2>1 DEF Row
  <2> QED
    BY <2>2 DEF Kept
<1>2. CASE t.status \in Queued
  BY <1>2 DEF EnqueueOrUpdate, Kept, Queued, Waiting
<1>3. CASE t.status \in Terminal
  <2>1. /\ v.id = t.id /\ v.comment_id = t.comment_id
        /\ v.last_reviewed_at = t.last_reviewed_at
        /\ v.notice_not_before = t.notice_not_before
        /\ v.status \in {"pending", "deferred"}
    BY DEF DueAfterCooldown, Row
  <2>2. v \in Row
    BY DueAfterCooldownRow
  <2>3. u = [v EXCEPT !.attempts = 0, !.rereview_requested = FALSE, !.defer_reason = "none"]
    BY <1>3 DEF EnqueueOrUpdate, Terminal, Queued, Waiting
  <2> HIDE DEF u, v
  <2> QED
    BY <1>3, <2>1, <2>2, <2>3 DEF Kept, Row, Terminal
<1> QED
  BY <1>1, <1>2, <1>3 DEF Row, Active

(* So do the claim, the deferrals, the retry, and the ways a ticket settles. *)
LEMMA StatementsKeep ==
    ASSUME NEW t \in Row
    PROVE  /\ Kept(t, t) /\ Kept(t, CancelTicket(t)) /\ Kept(t, RecoverOnStartup(t))
           /\ t.status # "none" =>
                 /\ Kept(t, Claim(t)) /\ Kept(t, MarkFailed(t))
                 /\ Kept(t, DiscardRearm(t)) /\ Kept(t, DiscardRevert(t))
                 /\ \A until \in Nat :
                       /\ Kept(t, DeferRateLimited(t, until))
                       /\ Kept(t, DeferUsageCapped(t, until))
                       /\ Kept(t, DeferFailed(t, until))
<1>1. Kept(t, t) /\ Kept(t, CancelTicket(t)) /\ Kept(t, RecoverOnStartup(t))
  BY DEF Kept, CancelTicket, RecoverOnStartup, Row, Queued, Waiting
<1>2. ASSUME t.status # "none"
      PROVE  /\ Kept(t, Claim(t)) /\ Kept(t, MarkFailed(t))
             /\ Kept(t, DiscardRearm(t)) /\ Kept(t, DiscardRevert(t))
  BY <1>2 DEF Kept, Claim, MarkFailed, DiscardRearm, DiscardRevert, Row
<1>3. ASSUME t.status # "none", NEW until \in Nat
      PROVE  /\ Kept(t, DeferRateLimited(t, until)) /\ Kept(t, DeferUsageCapped(t, until))
             /\ Kept(t, DeferFailed(t, until))
  BY <1>3 DEF Kept, DeferRateLimited, DeferUsageCapped, DeferFailed, Row
<1> QED
  BY <1>1, <1>2, <1>3

(* What the statements about the comment write. *)
LEMMA BookkeepingColumns ==
    ASSUME NEW t \in Row
    PROVE  /\ \A cid \in Nat \cup {Null} :
                 LET u == SetCommentId(t, cid)
                 IN  /\ u.comment_id = IF cid = Null THEN t.comment_id ELSE cid
                     /\ u.last_reviewed_at = t.last_reviewed_at
                     /\ u.notice_not_before = t.notice_not_before
           /\ ClearVisibleReview(t).comment_id = t.comment_id
           /\ ClearVisibleReview(t).last_reviewed_at = Null
           /\ ClearVisibleReview(t).notice_not_before = t.notice_not_before
           /\ ClearNotice(t).comment_id = t.comment_id
           /\ ClearNotice(t).last_reviewed_at = t.last_reviewed_at
           /\ ClearNotice(t).notice_not_before = Null
           /\ \A until :
                 /\ MarkNoticePosted(t, until).comment_id = t.comment_id
                 /\ MarkNoticePosted(t, until).last_reviewed_at = t.last_reviewed_at
                 /\ MarkNoticePosted(t, until).notice_not_before = until
BY DEF SetCommentId, ClearVisibleReview, ClearNotice, MarkNoticePosted, Row

(* finalize_review records the review and the comment it is on. *)
LEMMA FinalizeColumns ==
    ASSUME NEW t \in Row, NEW at \in Nat, NEW until \in Nat,
           NEW level \in 0..MaxCooldownLevel, NEW cid \in Nat \cup {Null}
    PROVE  LET u == FinalizeReview(t, at, until, level, cid)
           IN  /\ u.id = t.id /\ u.status \in {"deferred", "done"}
               /\ u.comment_id = IF cid = Null THEN t.comment_id ELSE cid
               /\ u.last_reviewed_at = at
               /\ u.notice_not_before = t.notice_not_before
<1> DEFINE u == FinalizeReview(t, at, until, level, cid)
           v == SetCommentId(t, cid)
<1>1. /\ v \in Row /\ v.id = t.id
      /\ v.comment_id = IF cid = Null THEN t.comment_id ELSE cid
      /\ v.notice_not_before = t.notice_not_before
  BY BookkeepingRow, BookkeepingColumns DEF Bookkeeping, SameWork
<1> HIDE DEF v
<1>2. u = IF t.rereview_requested
          THEN [v EXCEPT !.last_reviewed_at = at, !.rereview_requested = FALSE,
                         !.defer_reason = "none", !.status = "deferred",
                         !.not_before = until, !.attempts = 0, !.cooldown_level = level]
          ELSE [v EXCEPT !.last_reviewed_at = at, !.rereview_requested = FALSE,
                         !.defer_reason = "none", !.status = "done", !.not_before = Null]
  BY DEF FinalizeReview, v
<1> HIDE DEF u
<1>3. u.id = v.id /\ u.status \in {"deferred", "done"} /\ u.comment_id = v.comment_id
      /\ u.last_reviewed_at = at /\ u.notice_not_before = v.notice_not_before
  BY <1>1, <1>2 DEF Row
<1> QED
  BY <1>1, <1>3 DEF u

-----------------------------------------------------------------------------
(* The invariant all three properties rest on, while nobody deletes the bot's
   comment: its id on file, wherever that is, is that of the comment. *)
KeptComments == "deleted" \notin Troubles

(* A ticket's id is its own. *)
Numbered ==
    \A p, q \in PRs : row[p].status # "none" =>
        /\ row[p].id < nextId
        /\ row[q].status # "none" /\ row[p].id = row[q].id => p = q

(* The sweep has its tickets for as long as it lasts, each once; they are
   deleted by nobody meanwhile. *)
Batch ==
    /\ todo # {} => pc \in {"sweeping", "appended"}
    /\ \A s \in todo : row[s.pr].status # "none" /\ row[s.pr].id = s.ticket.id
    /\ \A s, u \in todo : s.pr = u.pr => s = u

Found ==
    /\ \A p \in PRs : row[p].comment_id \in {Null, comment[p].id}
    /\ pc \in Working => ticket.comment_id \in {Null, comment[pr].id}
    /\ \A s \in todo : s.ticket.comment_id \in {Null, comment[s.pr].id}
    /\ pc \in {"stripped", "finalize", "saveId", "noticed"} => posted = comment[pr].id
    /\ pc = "appended" => \A s \in todo : NextNotice(s) => posted = comment[s.pr].id

BInv == Numbered /\ Batch /\ Found

(* The sweep does one ticket at a time. *)
LEMMA OneNotice ==
    ASSUME IInv, BInv, NEW s \in todo, NextNotice(s), NEW u \in todo, NextNotice(u)
    PROVE  s = u
<1>1. s.pr \in PRs /\ u.pr \in PRs /\ s.ticket.id \in Nat /\ u.ticket.id \in Nat
  BY DEF IInv, TypeOK, Notice, Row
<1>2. s.ticket.id = u.ticket.id
  BY <1>1 DEF NextNotice
<1> QED
  BY <1>1, <1>2 DEF BInv, Numbered, Batch

-----------------------------------------------------------------------------
(* How the rows change.  A row appears and goes: *)
Appears(p) ==
    /\ row[p].status = "none"
    /\ row' = [row EXCEPT ![p] = [NoRow EXCEPT !.id = nextId, !.status = "pending"]]
    /\ nextId' = nextId + 1
Disappears(p) == row' = [row EXCEPT ![p] = NoRow] /\ nextId' = nextId

(* The statements about the comment. *)
CommentStatement ==
    \/ RecordStrip \/ SaveCommentId \/ RecordNotice
    \/ \E s \in todo : RecordAppend(s)
    \/ \E s \in stripping : ClearCancelled(s)

AllKept == nextId' = nextId /\ \A p \in PRs : Kept(row[p], row'[p])

(* One row is written by a statement that keeps its columns. *)
LEMMA OneKept ==
    ASSUME IInv, NEW p \in PRs, NEW u, Kept(row[p], u),
           row' = [row EXCEPT ![p] = u], nextId' = nextId
    PROVE  AllKept
<1>1. row'[p] = u /\ \A q \in PRs \ {p} : row'[q] = row[q]
  BY DEF IInv, TypeOK
<1> QED
  BY <1>1 DEF AllKept, Kept

(* Nothing is written. *)
LEMMA NoneWritten == UNCHANGED <<row, nextId>> => AllKept
BY DEF AllKept, Kept

(* enqueue_or_update inserts a row or re-arms one. *)
LEMMA PushMoves ==
    ASSUME IInv, NEW d \in inbox, HandlePush(d)
    PROVE  AllKept \/ Appears(d.pr)
<1> DEFINE p == d.pr
           t == row[p]
           u == EnqueueOrUpdate(t, nextId, clock)
<1>1. p \in PRs /\ t \in Row /\ nextId \in Nat /\ clock \in Nat
  BY DEF IInv, TypeOK, Delivery
<1>2. CASE UNCHANGED dbVars
  BY <1>2, NoneWritten
<1>3. CASE /\ row' = [row EXCEPT ![p] = u]
           /\ nextId' = nextId + (IF t.status = "none" THEN 1 ELSE 0)
  <2>1. CASE t.status = "none"
    <3>1. u = [NoRow EXCEPT !.id = nextId, !.status = "pending"]
      BY <2>1 DEF EnqueueOrUpdate, Queued, Waiting
    <3> QED
      BY <1>3, <2>1, <3>1 DEF Appears
  <2>2. CASE t.status # "none"
    <3>1. Kept(t, u)
      BY <1>1, <2>2, EnqueueKeeps
    <3>2. nextId' = nextId
      BY <1>1, <1>3, <2>2
    <3> HIDE DEF u
    <3> QED
      BY <1>1, <1>3, <3>1, <3>2, OneKept
  <2> QED
    BY <2>1, <2>2
<1> QED
  BY <1>2, <1>3 DEF HandlePush

(* A claim keeps the columns, and so does a close. *)
LEMMA ClaimMoves ==
    ASSUME IInv, NEW p \in PRs, ClaimNextDue(p)
    PROVE  AllKept /\ Kept(row[p], ticket') /\ pr' = p
<1>1. row[p] \in Row /\ row[p].status # "none"
  BY DEF ClaimNextDue, Due, IsDue, Waiting, IInv, TypeOK
<1>2. Kept(row[p], Claim(row[p]))
  BY <1>1, StatementsKeep
<1>3. row' = [row EXCEPT ![p] = Claim(row[p])] /\ nextId' = nextId
      /\ ticket' = Claim(row[p]) /\ pr' = p
  BY DEF ClaimNextDue
<1> QED
  BY <1>2, <1>3, OneKept

(* A close writes the status of one row. *)
LEMMA CloseMoves ==
    ASSUME IInv, NEW d \in inbox, HandleClose(d)
    PROVE  AllKept
<1>1. d.pr \in PRs /\ row[d.pr] \in Row
  BY DEF IInv, TypeOK, Delivery
<1>2. Kept(row[d.pr], CancelTicket(row[d.pr]))
  BY <1>1, StatementsKeep
<1> QED
  BY <1>1, <1>2, OneKept DEF HandleClose

(* The deferrals, the retry and giving up keep them. *)
LEMMA EndsMove ==
    ASSUME IInv,
           \/ TuningUnavailable \/ CapReached \/ Blocked \/ RecordRateLimit
           \/ RetryLater \/ MarkTicketFailed \/ NoticeNotPosted
    PROVE  AllKept
<1>1. pc \in Working
  BY DEF TuningUnavailable, CapReached, Blocked, RecordRateLimit, RetryLater,
         MarkTicketFailed, NoticeNotPosted, Task, Working
<1>2. pr \in PRs /\ row[pr] \in Row /\ row[pr].status # "none" /\ now \in Nat
      /\ blocked_until \in Nat /\ retry_after \in Nat
      /\ ticket.attempts \in Nat
  BY <1>1, AtWork DEF IInv, TypeOK
<1>3. ASSUME NEW u, Kept(row[pr], u), Write(u) PROVE AllKept
  BY <1>2, <1>3, OneKept DEF Write
<1>4. \/ \E until \in Nat :
            \/ Write(DeferRateLimited(row[pr], until))
            \/ Write(DeferUsageCapped(row[pr], until))
            \/ Write(DeferFailed(row[pr], until))
      \/ Write(MarkFailed(row[pr]))
  <2>1. CASE TuningUnavailable
    <3>1. now + UnconfiguredWait \in Nat
      BY <1>2, QueueAssumption
    <3> QED
      BY <2>1, <3>1 DEF TuningUnavailable, DeferTo
  <2>2. CASE CapReached
    <3>1. \A w \in CapWaits : now + w \in Nat
      BY <1>2, QueueAssumption
    <3> QED
      BY <2>2, <3>1 DEF CapReached, DeferTo
  <2>3. CASE Blocked
    BY <1>2, <2>3 DEF Blocked, DeferTo
  <2>4. CASE RecordRateLimit
    <3>1. now + retry_after \in Nat
      BY <1>2
    <3> QED
      BY <2>4, <3>1 DEF RecordRateLimit, DeferTo
  <2>5. CASE MarkTicketFailed
    BY <2>5 DEF MarkTicketFailed
  <2>6. CASE RetryLater \/ NoticeNotPosted
    <3>1. \/ Write(MarkFailed(row[pr]))
          \/ next_attempt <= MaxFailures + MaxNoticePosts - 2 /\ BackOff
      <4>1. next_attempt \in Int
        BY <1>2 DEF next_attempt
      <4> QED
        BY <2>6, <4>1, QueueAssumption DEF RetryLater, NoticeNotPosted, notice_post_ceiling
    <3>2. CASE next_attempt <= MaxFailures + MaxNoticePosts - 2 /\ BackOff
      <4>1. PICK until \in BackoffEnds : Write(DeferFailed(row[pr], until))
        BY <3>2 DEF BackOff
      <4>2. until \in Nat
        BY <1>1, <3>2, BackoffIsDuration DEF BackoffEnds
      <4> QED
        BY <4>1, <4>2
    <3> QED
      BY <3>1, <3>2
  <2> QED
    BY <2>1, <2>2, <2>3, <2>4, <2>5, <2>6
<1> QED
  BY <1>2, <1>3, <1>4, StatementsKeep

(* discard_skipped_ticket deletes the row or keeps its columns. *)
LEMMA DiscardMoves ==
    ASSUME IInv, DiscardSkipped
    PROVE  AllKept \/ (pc = "delete" /\ DiscardDeletes(row[pr]) /\ Disappears(pr) /\ EndStep)
<1>1. pc \in Working
  BY DEF DiscardSkipped, Discard, Task, Working
<1>2. pr \in PRs /\ row[pr] \in Row /\ row[pr].status # "none"
  BY <1>1, AtWork
<1>3. ASSUME NEW u, Kept(row[pr], u), Write(u) PROVE AllKept
  BY <1>2, <1>3, OneKept DEF Write
<1>4. Kept(row[pr], DiscardRearm(row[pr])) /\ Kept(row[pr], DiscardRevert(row[pr]))
  BY <1>2, StatementsKeep
<1>5. \/ UNCHANGED <<row, nextId>>
      \/ Write(DiscardRearm(row[pr])) \/ Write(DiscardRevert(row[pr]))
      \/ pc = "delete" /\ DiscardDeletes(row[pr]) /\ Write(NoRow) /\ EndStep
  BY DEF DiscardSkipped, Discard, Task
<1> QED
  BY <1>3, <1>4, <1>5, NoneWritten DEF Disappears, Write

(* A boot recovers what ran. *)
LEMMA RestartMoves == IInv /\ Restart => AllKept
BY StatementsKeep DEF Restart, AllKept, IInv, TypeOK

(* All in all. *)
LEMMA RowMoves ==
    ASSUME IInv, [Next]_vars
    PROVE  \/ AllKept
           \/ CommentStatement
           \/ Finalize
           \/ \E d \in inbox : HandlePush(d) /\ Appears(d.pr)
           \/ pc = "delete" /\ DiscardDeletes(row[pr]) /\ Disappears(pr) /\ EndStep
<1>1. CASE \/ UNCHANGED vars \/ World \/ WebhookRaises
           \/ \E s \in stripping : StripCancelled(s)
           \/ NothingDue \/ RefreshConfig \/ StripNotice \/ Proceed
           \/ Reviewed \/ AttemptFails \/ ReviewSkipped \/ ReviewRateLimited
           \/ PostReview \/ PostPlaceholder \/ PostFailureNotice
           \/ SweepRead \/ (\E s \in todo : AppendNotice(s))
           \/ DatabaseFails \/ Crash
  <2>1. UNCHANGED <<row, nextId>>
    BY <1>1 DEF vars, World, Tick, Push, ClosePR, Happens, DeleteComment, WebhookRaises,
         StripCancelled, NothingDue, RefreshConfig, StripNotice, Proceed, Reviewed,
         AttemptFails, ReviewSkipped, ReviewRateLimited, Attempt, PostReview,
         PostPlaceholder, PostFailureNotice, SweepRead, AppendNotice, DatabaseFails, Crash
  <2> QED
    BY <2>1, NoneWritten
<1>2. CASE \E d \in inbox : HandlePush(d) \/ HandleClose(d)
  BY <1>2, PushMoves, CloseMoves
<1>3. CASE \E p \in PRs : ClaimNextDue(p)
  BY <1>3, ClaimMoves
<1>4. CASE \/ TuningUnavailable \/ CapReached \/ Blocked \/ RecordRateLimit
           \/ RetryLater \/ MarkTicketFailed \/ NoticeNotPosted
  BY <1>4, EndsMove
<1>5. CASE DiscardSkipped
  BY <1>5, DiscardMoves
<1>6. CASE Restart
  BY <1>6, RestartMoves
<1>7. CASE CommentStatement \/ Finalize
  BY <1>7
<1> QED
  BY <1>1, <1>2, <1>3, <1>4, <1>5, <1>6, <1>7
     DEF Next, Webhooks, Dispatcher, ProcessNextDue, PostPendingNotices, CommentStatement

(* The statements about the comment leave a ticket its status, its id and its
   review, and put no other comment on file than the one there is. *)
Noted(t, u, cid) ==
    /\ u.id = t.id /\ u.status = t.status
    /\ u.comment_id \in {t.comment_id, cid}
    /\ u.last_reviewed_at = t.last_reviewed_at

(* They do so, each of them. *)
LEMMA BookkeepingNotes ==
    ASSUME NEW t \in Row, NEW cid \in Nat \cup {Null}
    PROVE  /\ Noted(t, t, cid)
           /\ SetCommentId(t, cid) \in Row /\ Noted(t, SetCommentId(t, cid), cid)
           /\ Noted(t, ClearNotice(t), cid)
           /\ \A until \in Instant : Noted(t, MarkNoticePosted(t, until), cid)
<1>1. SetCommentId(t, cid) \in Row
  BY BookkeepingRow DEF Bookkeeping
<1>2. Noted(t, t, cid) /\ Noted(t, ClearNotice(t), cid)
  BY DEF Noted, ClearNotice, Row
<1>3. Noted(t, SetCommentId(t, cid), cid)
  BY DEF Noted, SetCommentId, Row
<1>4. \A until \in Instant : Noted(t, MarkNoticePosted(t, until), cid)
  BY DEF Noted, MarkNoticePosted, Row
<1> QED
  BY <1>1, <1>2, <1>3, <1>4

(* The comment that a call returned is the one on file. *)
LEMMA NeverLost ==
    ASSUME BInv, pc \in {"stripped", "noticed"}
    PROVE  /\ posted = comment[pr].id
           /\ \A t : Recorded(t, posted) = SetCommentId(t, posted)
BY DEF BInv, Found, Working, Recorded, CommentLost

(* _set_comment_id and what goes with it, after a strip... *)
LEMMA RecordStripMoves ==
    ASSUME IInv, BInv, RecordStrip
    PROVE  \E u : /\ row' = [row EXCEPT ![pr] = u]
                  /\ Noted(row[pr], u, comment[pr].id) /\ u.notice_not_before = Null
<1> DEFINE v == SetCommentId(row[pr], posted)
           u == ClearNotice(v)
<1>1. pc = "stripped" /\ pc \in Working /\ row' = [row EXCEPT ![pr] = u]
  BY NeverLost DEF RecordStrip, Task, Working, Write
<1>2. row[pr] \in Row /\ posted \in Nat \cup {Null}
  BY <1>1, AtWork DEF IInv, TypeOK
<1>3. v \in Row /\ Noted(row[pr], v, posted)
  BY <1>2, BookkeepingNotes
<1> HIDE DEF v
<1>4. Noted(v, u, posted) /\ u.notice_not_before = Null
  BY <1>2, <1>3, BookkeepingNotes, BookkeepingColumns
<1> HIDE DEF u
<1> QED
  BY <1>1, <1>3, <1>4, NeverLost DEF Noted

(* ...after a placeholder or a failure notice... *)
LEMMA SetCommentIdMoves ==
    ASSUME IInv, BInv, SaveCommentId \/ RecordNotice
    PROVE  \E u : /\ row' = [row EXCEPT ![pr] = u]
                  /\ Noted(row[pr], u, comment[pr].id)
                  /\ u.notice_not_before = row[pr].notice_not_before
<1> DEFINE u == SetCommentId(row[pr], posted)
<1>1. row' = [row EXCEPT ![pr] = u] /\ posted = comment[pr].id
  <2>1. CASE SaveCommentId
    BY <2>1 DEF SaveCommentId, Task, Write, BInv, Found
  <2>2. CASE RecordNotice
    BY <2>2, NeverLost DEF RecordNotice, Task, Write
  <2> QED
    BY <2>1, <2>2
<1>2. row[pr] \in Row /\ posted \in Nat \cup {Null}
  BY AtWork DEF IInv, TypeOK, HeldTicket, SaveCommentId, RecordNotice, Task, Working, Deferred
<1>3. u \in Row /\ Noted(row[pr], u, comment[pr].id)
      /\ u.notice_not_before = row[pr].notice_not_before
  BY <1>1, <1>2, BookkeepingNotes, BookkeepingColumns
<1> HIDE DEF u
<1> QED
  BY <1>1, <1>3

(* ...after the sweep appended a schedule notice, which is then known... *)
LEMMA RecordAppendMoves ==
    ASSUME IInv, BInv, NEW s \in todo, RecordAppend(s)
    PROVE  \E u : /\ row' = [row EXCEPT ![s.pr] = u]
                  /\ Noted(row[s.pr], u, comment[s.pr].id)
                  /\ u.notice_not_before = s.ticket.not_before
<1> DEFINE v == SetCommentId(row[s.pr], posted)
           u == MarkNoticePosted(v, s.ticket.not_before)
<1>1. /\ s.pr \in PRs /\ row[s.pr] \in Row /\ posted \in Nat \cup {Null}
      /\ s.ticket.not_before \in Instant
  BY DEF IInv, TypeOK, Notice, Row
<1>2. posted = comment[s.pr].id /\ ~CommentLost(s.ticket, posted)
      /\ row[s.pr].id = s.ticket.id
  BY DEF BInv, Found, Batch, RecordAppend, Task, CommentLost
<1>3. v \in Row /\ Noted(row[s.pr], v, posted)
  BY <1>1, BookkeepingNotes
<1>4. row' = [row EXCEPT ![s.pr] = u]
  <2>1. row[s.pr].id = s.ticket.id
    BY <1>2
  <2> QED
    BY <1>1, <1>2, <2>1 DEF RecordAppend, IInv, TypeOK
<1> HIDE DEF v
<1>5. Noted(v, u, posted) /\ u.notice_not_before = s.ticket.not_before
  BY <1>1, <1>3, BookkeepingNotes, BookkeepingColumns
<1> HIDE DEF u
<1> QED
  BY <1>2, <1>3, <1>4, <1>5 DEF Noted

(* ...and when a close handler has stripped it. *)
LEMMA ClearCancelledMoves ==
    ASSUME IInv, NEW s \in stripping, ClearCancelled(s)
    PROVE  \E u : row' = [row EXCEPT ![s.pr] = u] /\ Noted(row[s.pr], u, comment[s.pr].id)
<1> DEFINE t == row[s.pr]
           u == IF t.id = s.id THEN ClearNotice(t) ELSE t
<1>1. s.pr \in PRs /\ t \in Row
  BY DEF IInv, TypeOK, Stripping
<1>2. row' = [row EXCEPT ![s.pr] = u]
  BY DEF ClearCancelled
<1>3. Noted(t, u, comment[s.pr].id)
  BY <1>1, BookkeepingNotes DEF IInv, TypeOK, Comment
<1> HIDE DEF u
<1> QED
  BY <1>2, <1>3

(* Together: the rows' bookkeeping, whichever statement it is. *)
LEMMA StatementMoves ==
    ASSUME IInv, BInv, CommentStatement
    PROVE  /\ UNCHANGED <<nextId, comment>>
           /\ \A p \in PRs : Noted(row[p], row'[p], comment[p].id)
<1>1. UNCHANGED <<nextId, comment>>
  BY DEF CommentStatement, RecordStrip, SaveCommentId, RecordNotice, RecordAppend,
         ClearCancelled, Write
<1>2. \A p \in PRs : Noted(row[p], row[p], comment[p].id)
  BY DEF Noted
<1>3. ASSUME NEW p \in PRs, NEW u, row' = [row EXCEPT ![p] = u],
             Noted(row[p], u, comment[p].id)
      PROVE  \A q \in PRs : Noted(row[q], row'[q], comment[q].id)
  BY <1>2, <1>3 DEF IInv, TypeOK
<1>4. \E p \in PRs : \E u : row' = [row EXCEPT ![p] = u] /\ Noted(row[p], u, comment[p].id)
  <2>1. CASE RecordStrip \/ SaveCommentId \/ RecordNotice
    <3>1. pr \in PRs
      BY <2>1, AtWork DEF IInv, HeldTicket, RecordStrip, SaveCommentId, RecordNotice, Task,
                          Working, Deferred
    <3> QED
      BY <2>1, <3>1, RecordStripMoves, SetCommentIdMoves
  <2>2. CASE \E s \in todo : RecordAppend(s)
    <3>1. \A s \in todo : s.pr \in PRs
      BY DEF IInv, TypeOK, Notice
    <3> QED
      BY <2>2, <3>1, RecordAppendMoves
  <2>3. CASE \E s \in stripping : ClearCancelled(s)
    <3>1. \A s \in stripping : s.pr \in PRs
      BY DEF IInv, TypeOK, Stripping
    <3> QED
      BY <2>3, <3>1, ClearCancelledMoves
  <2> QED
    BY <2>1, <2>2, <2>3 DEF CommentStatement
<1> QED
  BY <1>1, <1>3, <1>4

(* finalize_review, when the configuration is there. *)
LEMMA FinalizeMoves ==
    ASSUME IInv, BInv, Finalize
    PROVE  /\ pc = "finalize" /\ pr \in PRs /\ UNCHANGED <<nextId, comment, todo>>
           /\ pc' = "sweep"
           /\ \A q \in PRs \ {pr} : row'[q] = row[q]
           /\ ~cooldown_cached => row' = row
           /\ cooldown_cached =>
                 /\ row'[pr].id = row[pr].id /\ row'[pr].status \in {"deferred", "done"}
                 /\ row'[pr].comment_id \in {row[pr].comment_id, comment[pr].id}
                 /\ row'[pr].last_reviewed_at = now
                 /\ row'[pr].notice_not_before = row[pr].notice_not_before
<1> DEFINE until == now + effective_cooldown(ticket.cooldown_level)
           level == next_cooldown_level(ticket.cooldown_level)
           u == FinalizeReview(row[pr], now, until, level, posted)
<1>1. pc = "finalize" /\ UNCHANGED <<nextId, comment, todo>> /\ pc' = "sweep"
  BY DEF Finalize, Task, Write, EndStep
<1>2. /\ pr \in PRs /\ row[pr] \in Row /\ posted \in Nat \cup {Null}
      /\ now \in Nat /\ ticket.cooldown_level \in 0..MaxCooldownLevel
      /\ posted = comment[pr].id
  BY <1>1, AtWork DEF IInv, TypeOK, Row, Working, BInv, Found
<1>3. level \in 0..MaxCooldownLevel /\ until \in Nat
  BY <1>2, NextLevel, EffectiveCooldown
<1>4. CASE ~cooldown_cached
  BY <1>1, <1>2, <1>4 DEF Finalize
<1>5. CASE cooldown_cached
  <2>1. row' = [row EXCEPT ![pr] = u]
    BY <1>5 DEF Finalize, Write
  <2> HIDE DEF u, until, level
  <2>2. /\ u.id = row[pr].id /\ u.status \in {"deferred", "done"}
        /\ u.comment_id \in {row[pr].comment_id, comment[pr].id}
        /\ u.last_reviewed_at = now
        /\ u.notice_not_before = row[pr].notice_not_before
    <3>1. /\ u.id = row[pr].id /\ u.status \in {"deferred", "done"}
          /\ u.comment_id = IF posted = Null THEN row[pr].comment_id ELSE posted
          /\ u.last_reviewed_at = now
          /\ u.notice_not_before = row[pr].notice_not_before
      BY <1>2, <1>3, FinalizeColumns, SMTT(30) DEF u
    <3> QED
      BY <1>2, <3>1
  <2>3. row'[pr] = u /\ \A q \in PRs \ {pr} : row'[q] = row[q]
    BY <1>2, <2>1 DEF IInv, TypeOK
  <2> QED
    BY <1>1, <1>2, <1>5, <2>2, <2>3
<1> QED
  BY <1>4, <1>5

-----------------------------------------------------------------------------
(* How the dispatcher moves on. *)

(* It holds the ticket it claimed until it is done with it. *)
LEMMA TicketMoves ==
    ASSUME [Next]_vars, pc' \in Working \cup Deferred
    PROVE  \/ pc \in Working \cup Deferred /\ UNCHANGED <<pr, ticket, now>>
              /\ (pc' \in Working => pc \in Working)
           \/ pc' = "refresh" /\ \E p \in PRs : ClaimNextDue(p)
<1>1. CASE World \/ Webhooks \/ UNCHANGED vars
  BY <1>1 DEF vars, World, Tick, Push, ClosePR, Happens, DeleteComment, Webhooks, WebhookRaises,
       HandlePush, HandleClose, StripCancelled, ClearCancelled, Handler
<1>2. CASE PostPendingNotices \/ NothingDue \/ Crash \/ Restart
  BY <1>2 DEF PostPendingNotices, SweepRead, AppendNotice, RecordAppend, NothingDue, Crash,
       Restart, Task, EditThen, Rest, Goto, GotoWith, Working, Deferred
<1>3. CASE \E p \in PRs : ClaimNextDue(p)
  BY <1>3 DEF ClaimNextDue
<1>4. CASE \/ RefreshConfig \/ StripNotice \/ RecordStrip \/ Proceed
           \/ Reviewed \/ AttemptFails \/ ReviewSkipped \/ ReviewRateLimited
           \/ PostReview \/ DiscardSkipped
  BY <1>4 DEF RefreshConfig, StripNotice, RecordStrip, Proceed, Reviewed, AttemptFails,
       ReviewSkipped, ReviewRateLimited, Attempt, PostReview, DiscardSkipped, Discard, Task,
       EditThen, EndStep, Goto, GotoWith, Working, Deferred
<1>5. CASE \/ TuningUnavailable \/ CapReached \/ Blocked \/ RecordRateLimit
           \/ PostPlaceholder \/ SaveCommentId \/ Finalize
  BY <1>5 DEF TuningUnavailable, CapReached, Blocked, RecordRateLimit, DeferTo, PostPlaceholder,
       SaveCommentId, Finalize, Task, EditThen, EndStep, Goto, GotoWith, Working, Deferred
<1>6. CASE \/ RetryLater \/ PostFailureNotice \/ RecordNotice \/ MarkTicketFailed
           \/ NoticeNotPosted \/ DatabaseFails
  BY <1>6 DEF RetryLater, BackOff, PostFailureNotice, RecordNotice, MarkTicketFailed,
       NoticeNotPosted, DatabaseFails, Task, EditThen, EndStep, Rest, Goto, GotoWith, Working,
       Deferred
<1> QED
  BY <1>1, <1>2, <1>3, <1>4, <1>5, <1>6 DEF Next, Dispatcher, ProcessNextDue

(* The sweep's tickets are done one by one. *)
LEMMA TodoMoves ==
    ASSUME Batch, [Next]_vars
    PROVE  \/ SweepRead
           \/ todo' \subseteq todo /\ (todo' # {} => pc' \in {"sweeping", "appended"})
<1>1. CASE World \/ Webhooks \/ UNCHANGED vars
  BY <1>1 DEF vars, World, Tick, Push, ClosePR, Happens, DeleteComment, Webhooks, WebhookRaises,
       HandlePush, HandleClose, StripCancelled, ClearCancelled, Handler, Batch
<1>2. CASE \E s \in todo : AppendNotice(s) \/ RecordAppend(s)
  BY <1>2 DEF AppendNotice, RecordAppend, EditThen, Rest, GotoWith
<1>3. CASE DatabaseFails
  BY <1>3 DEF DatabaseFails, Rest, GotoWith, Batch
<1>4. CASE Crash
  BY <1>4 DEF Crash
<1>5. CASE ProcessNextDue \/ Restart
  <2>1. pc \notin {"sweeping", "appended"} /\ UNCHANGED todo
    BY <1>5 DEF ProcessNextDue, Restart, NothingDue, ClaimNextDue, RefreshConfig, StripNotice,
       RecordStrip, Proceed, Reviewed, AttemptFails, ReviewSkipped, ReviewRateLimited, Attempt,
       PostReview, DiscardSkipped, Discard, TuningUnavailable, CapReached, Blocked,
       RecordRateLimit, PostPlaceholder, SaveCommentId, Finalize, RetryLater, PostFailureNotice,
       RecordNotice, MarkTicketFailed, NoticeNotPosted, Task
  <2> QED
    BY <2>1 DEF Batch
<1> QED
  BY <1>1, <1>2, <1>3, <1>4, <1>5 DEF Next, Dispatcher, PostPendingNotices

(* A call to GitHub returns the id of the comment it leaves behind, which is
   that of the comment it found, if any. *)
LEMMA EditReturns ==
    ASSUME IInv, NEW label, NEW p \in PRs, NEW new, EditThen(label, p, new),
           \/ \E body : new = Upsert(comment[p], body)
           \/ \E note : new = Append(comment[p], note)
    PROVE  /\ pc' = label /\ pr' = pr /\ posted' = new.id /\ comment'[p] = new
           /\ \A q \in PRs \ {p} : comment'[q] = comment[q]
           /\ new.id = comment[p].id \/ comment[p].id = Null
<1>1. comment[p] \in Comment
  BY DEF IInv, TypeOK
<1>2. new.id = comment[p].id \/ comment[p].id = Null
  BY <1>1 DEF Upsert, Append, Exists, Comment
<1>3. comment'[p] = new /\ \A q \in PRs \ {p} : comment'[q] = comment[q]
  BY DEF EditThen, IInv, TypeOK
<1> QED
  BY <1>2, <1>3 DEF EditThen, GotoWith

(* The calls that edit: their label, and what they leave. *)
Edited(p) ==
    /\ pr' = pr /\ posted' = comment'[p].id /\ UNCHANGED todo
    /\ \A q \in PRs \ {p} : comment'[q] = comment[q]
    /\ comment'[p].id = comment[p].id \/ comment[p].id = Null

(* Every call to GitHub edits one comment and returns its id. *)
LEMMA CallsEdit ==
    ASSUME IInv
    PROVE  /\ StripNotice \/ PostReview \/ PostPlaceholder \/ PostFailureNotice =>
                 \/ Edited(pr) /\ pc' \in {"stripped", "finalize", "saveId", "noticed"}
                 \/ UNCHANGED comment /\ pc' \in {"gate", "failure", "sweep", "unnotified"}
           /\ \A s \in todo : AppendNotice(s) =>
                 \/ Edited(s.pr) /\ pc' = "appended"
                 \/ UNCHANGED comment /\ pc' \in {"claim", "sweeping"}
<1>1. StripNotice =>
         \/ Edited(pr) /\ pc' = "stripped"
         \/ UNCHANGED comment /\ pc' = "gate"
  <2> SUFFICES ASSUME StripNotice, ~(UNCHANGED comment /\ pc' = "gate")
               PROVE  Edited(pr) /\ pc' = "stripped"
    OBVIOUS
  <2>1. pr \in PRs /\ comment[pr] \in Comment
    BY AtWork DEF StripNotice, Task, Working, IInv, TypeOK
  <2>2. /\ comment' = [comment EXCEPT ![pr] = Strip(comment[pr])] /\ UNCHANGED todo
        /\ pc' = "stripped" /\ posted' = comment[pr].id /\ pr' = pr
    BY DEF StripNotice, Goto, GotoWith
  <2>3. Strip(comment[pr]).id = comment[pr].id
    BY <2>1 DEF Strip, Comment
  <2> QED
    BY <2>1, <2>2, <2>3 DEF Edited, IInv, TypeOK
<1>2. ASSUME PostReview
      PROVE  \/ Edited(pr) /\ pc' = "finalize"
             \/ UNCHANGED comment /\ pc' = "failure"
  <2>1. pr \in PRs
    BY <1>2, AtWork DEF PostReview, Task, Working
  <2> QED
    BY <1>2, <2>1, EditReturns DEF PostReview, Goto, GotoWith, Edited
<1>3. ASSUME PostPlaceholder
      PROVE  \/ Edited(pr) /\ pc' = "saveId"
             \/ UNCHANGED comment /\ pc' = "sweep"
  <2>1. pr \in PRs
    BY <1>3 DEF PostPlaceholder, Task, Deferred, IInv, HeldTicket
  <2> QED
    BY <1>3, <2>1, EditReturns DEF PostPlaceholder, EndStep, Edited
<1>4. ASSUME PostFailureNotice
      PROVE  \/ Edited(pr) /\ pc' = "noticed"
             \/ UNCHANGED comment /\ pc' = "unnotified"
  <2>1. pr \in PRs
    BY <1>4, AtWork DEF PostFailureNotice, Task, Working
  <2> DEFINE new == IF HasVisibleReview(ticket) THEN Append(comment[pr], "failure")
                                               ELSE Upsert(comment[pr], "failure")
  <2>2. \/ \E body : new = Upsert(comment[pr], body)
        \/ \E note : new = Append(comment[pr], note)
    OBVIOUS
  <2>3. \/ EditThen("noticed", pr, new)
        \/ UNCHANGED comment /\ pc' = "unnotified"
    BY <1>4 DEF PostFailureNotice, Goto, GotoWith
  <2>4. UNCHANGED todo
    BY <1>4 DEF PostFailureNotice
  <2> HIDE DEF new
  <2> QED
    BY <2>1, <2>2, <2>3, <2>4, EditReturns DEF Edited
<1>5. ASSUME NEW s \in todo, AppendNotice(s)
      PROVE  \/ Edited(s.pr) /\ pc' = "appended"
             \/ UNCHANGED comment /\ pc' \in {"claim", "sweeping"}
  <2>1. s.pr \in PRs
    BY DEF IInv, TypeOK, Notice
  <2> DEFINE p == s.pr
             new == Append(comment[p], "schedule")
  <2>2. \/ EditThen("appended", p, new) /\ UNCHANGED todo
        \/ UNCHANGED comment /\ pc' \in {"claim", "sweeping"}
    BY <1>5 DEF AppendNotice, Rest, GotoWith
  <2>3. \E note : new = Append(comment[p], note)
    OBVIOUS
  <2> HIDE DEF p, new
  <2>4. CASE EditThen("appended", p, new) /\ UNCHANGED todo
    <3>1. Edited(p) /\ pc' = "appended"
      BY <2>1, <2>3, <2>4, EditReturns DEF Edited, p
    <3> QED
      BY <3>1 DEF p
  <2> QED
    BY <2>2, <2>4
<1> QED
  BY <1>1, <1>2, <1>3, <1>4, <1>5

(* The rest of the dispatcher edits nothing and is about to read no id. *)
LEMMA OthersEdit ==
    ASSUME [Next]_vars
    PROVE  \/ StripNotice \/ PostReview \/ PostPlaceholder \/ PostFailureNotice
           \/ \E s \in todo : AppendNotice(s)
           \/ World \/ Webhooks \/ UNCHANGED vars
           \/ /\ UNCHANGED comment
              /\ pc' \notin {"stripped", "finalize", "saveId", "noticed", "appended"}
<1>1. CASE \/ \E p \in PRs : ClaimNextDue(p)
           \/ NothingDue \/ RefreshConfig \/ RecordStrip \/ Proceed
           \/ Reviewed \/ AttemptFails \/ ReviewSkipped \/ ReviewRateLimited
           \/ DiscardSkipped
  BY <1>1 DEF ClaimNextDue, NothingDue, RefreshConfig, RecordStrip, Proceed, Reviewed,
       AttemptFails, ReviewSkipped, ReviewRateLimited, Attempt, DiscardSkipped, Discard,
       EndStep, Goto, GotoWith
<1>2. CASE \/ TuningUnavailable \/ CapReached \/ Blocked \/ RecordRateLimit
           \/ SaveCommentId \/ Finalize
  BY <1>2 DEF TuningUnavailable, CapReached, Blocked, RecordRateLimit, DeferTo, SaveCommentId,
       Finalize, EndStep, Goto, GotoWith
<1>3. CASE \/ RetryLater \/ RecordNotice \/ MarkTicketFailed \/ NoticeNotPosted
           \/ SweepRead \/ \E s \in todo : RecordAppend(s)
  BY <1>3 DEF RetryLater, BackOff, RecordNotice, MarkTicketFailed, NoticeNotPosted, SweepRead,
       RecordAppend, EndStep, Rest, Goto, GotoWith
<1>4. CASE DatabaseFails \/ Crash \/ Restart
  BY <1>4 DEF DatabaseFails, Crash, Restart, EndStep, Rest, Goto, GotoWith
<1> QED
  BY <1>1, <1>2, <1>3, <1>4 DEF Next, Dispatcher, ProcessNextDue, PostPendingNotices

(* Beside the dispatcher, only a close handler edits. *)
LEMMA WorldEdits ==
    ASSUME KeptComments, IInv, World \/ Webhooks \/ UNCHANGED vars
    PROVE  /\ UNCHANGED <<taskVars>>
           /\ \A p \in PRs : comment'[p].id = comment[p].id /\ comment'[p].body = comment[p].body
           /\ UNCHANGED comment \/ \E s \in stripping : StripCancelled(s)
<1>1. CASE World \/ UNCHANGED vars
  BY <1>1 DEF vars, World, Tick, Push, ClosePR, Happens, DeleteComment, Trouble, KeptComments
<1>2. CASE Webhooks
  <2>1. UNCHANGED taskVars
    BY <1>2 DEF Webhooks, WebhookRaises, HandlePush, HandleClose, StripCancelled, ClearCancelled,
         Handler
  <2>2. UNCHANGED comment \/ \E s \in stripping : StripCancelled(s)
    BY <1>2 DEF Webhooks, WebhookRaises, HandlePush, HandleClose, ClearCancelled, Took
  <2>3. ASSUME NEW s \in stripping, StripCancelled(s)
        PROVE  \A p \in PRs : comment'[p].id = comment[p].id /\ comment'[p].body = comment[p].body
    <3>1. UNCHANGED comment \/ comment' = [comment EXCEPT ![s.pr] = Strip(comment[s.pr])]
      BY <2>3 DEF StripCancelled
    <3>2. s.pr \in PRs /\ comment[s.pr] \in Comment
      BY DEF IInv, TypeOK, Stripping
    <3>3. /\ Strip(comment[s.pr]).id = comment[s.pr].id
          /\ Strip(comment[s.pr]).body = comment[s.pr].body
      BY <3>2 DEF Strip, Comment
    <3> QED
      BY <3>1, <3>2, <3>3 DEF IInv, TypeOK
  <2> QED
    BY <2>1, <2>2, <2>3
<1> QED
  BY <1>1, <1>2

-----------------------------------------------------------------------------
(* BInv is inductive.  What is common to the statements and finalize_review: *)
LEMMA RowsGoOn ==
    ASSUME IInv, BInv, CommentStatement \/ Finalize
    PROVE  /\ nextId' = nextId /\ UNCHANGED comment
           /\ \A p \in PRs :
                 /\ row'[p].id = row[p].id /\ (row'[p].status = "none" <=> row[p].status = "none")
                 /\ row'[p].comment_id \in {row[p].comment_id, comment[p].id}
<1>1. CASE CommentStatement
  BY <1>1, StatementMoves DEF Noted
<1>2. CASE Finalize
  <2>1. pc = "finalize" => row[pr].status = "running"
    BY AtWork DEF Working
  <2> QED
    BY <1>2, <2>1, FinalizeMoves
<1> QED
  BY <1>1, <1>2

(* Ids are handed out once. *)
LEMMA NumberedStep ==
    ASSUME IInv, BInv, [Next]_vars
    PROVE  Numbered'
<1>1. nextId \in Nat /\ \A p \in PRs : row[p].id \in Nat
  BY DEF IInv, TypeOK, Row
<1>2. ASSUME nextId' = nextId,
             \A p \in PRs : row'[p].status # "none" =>
                row[p].status # "none" /\ row'[p].id = row[p].id
      PROVE  Numbered'
  BY <1>2 DEF BInv, Numbered
<1>3. CASE AllKept
  BY <1>2, <1>3 DEF AllKept, Kept
<1>4. CASE CommentStatement \/ Finalize
  BY <1>2, <1>4, RowsGoOn
<1>5. CASE \E d \in inbox : Appears(d.pr)
  <2>1. PICK p \in PRs : Appears(p)
    BY <1>5 DEF IInv, TypeOK, Delivery
  <2>2. /\ row'[p].id = nextId /\ \A q \in PRs \ {p} : row'[q] = row[q]
        /\ nextId' = nextId + 1
    BY <2>1 DEF Appears, NoRow, IInv, TypeOK
  <2> QED
    BY <1>1, <2>2 DEF BInv, Numbered
<1>6. CASE pc = "delete" /\ Disappears(pr)
  <2>1. pr \in PRs
    BY <1>6, AtWork DEF Working
  <2>2. /\ row'[pr] = NoRow /\ \A q \in PRs \ {pr} : row'[q] = row[q]
        /\ nextId' = nextId
    BY <1>6, <2>1 DEF Disappears, IInv, TypeOK
  <2> QED
    BY <1>2, <2>2 DEF NoRow
<1> QED
  BY <1>3, <1>4, <1>5, <1>6, RowMoves

(* The sweep's tickets stay those of their rows. *)
LEMMA BatchStep ==
    ASSUME IInv, BInv, [Next]_vars
    PROVE  Batch'
<1>1. \A s \in todo : s.pr \in PRs
  BY DEF IInv, TypeOK, Notice
<1>2. CASE SweepRead
  <2>1. /\ UNCHANGED row
        /\ \A s \in todo' : \E p \in PRs :
              s = [pr |-> p, ticket |-> row[p]] /\ NeedsNotice(row[p], clock)
        /\ todo' # {} => pc' = "sweeping"
    BY <1>2 DEF SweepRead, Goto, GotoWith
  <2> QED
    BY <2>1 DEF Batch, NeedsNotice
<1>3. CASE todo' \subseteq todo /\ (todo' # {} => pc' \in {"sweeping", "appended"})
  <2>1. \A s \in todo' : row'[s.pr].status # "none" /\ row'[s.pr].id = s.ticket.id
    <3>1. CASE AllKept
      BY <1>1, <1>3, <3>1 DEF AllKept, Kept, BInv, Batch
    <3>2. CASE CommentStatement \/ Finalize
      BY <1>1, <1>3, <3>2, RowsGoOn DEF BInv, Batch
    <3>3. CASE \E d \in inbox : Appears(d.pr)
      <4>1. PICK p \in PRs : Appears(p)
        BY <3>3 DEF IInv, TypeOK, Delivery
      <4>2. row[p].status = "none" /\ \A q \in PRs \ {p} : row'[q] = row[q]
        BY <4>1 DEF Appears, IInv, TypeOK
      <4> QED
        BY <1>1, <1>3, <4>2 DEF BInv, Batch
    <3>4. CASE pc = "delete"
      BY <1>3, <3>4 DEF BInv, Batch
    <3> QED
      BY <3>1, <3>2, <3>3, <3>4, RowMoves
  <2> QED
    BY <1>3, <2>1 DEF BInv, Batch
<1> QED
  BY <1>2, <1>3, TodoMoves DEF BInv

(* The ids on file stay those of the comments. *)
LEMMA FoundStep ==
    ASSUME KeptComments, IInv, BInv, [Next]_vars
    PROVE  Found'
<1>1. \A s \in todo : s.pr \in PRs /\ s \in Notice
  BY DEF IInv, TypeOK, Notice
<1>2. \A p \in PRs : comment'[p].id = comment[p].id \/ comment[p].id = Null
  <2>1. \A s \in todo : AppendNotice(s) => UNCHANGED comment \/ Edited(s.pr)
    BY CallsEdit
  <2>2. \/ UNCHANGED comment
        \/ \A p \in PRs : comment'[p].id = comment[p].id
        \/ Edited(pr)
        \/ \E s \in todo : Edited(s.pr)
    BY <2>1, CallsEdit, OthersEdit, WorldEdits
  <2>3. ASSUME NEW p, Edited(p)
        PROVE  \A q \in PRs : comment'[q].id = comment[q].id \/ comment[q].id = Null
    BY <2>3 DEF Edited
  <2> QED
    BY <2>2, <2>3
<1>3. \A p \in PRs : row'[p].comment_id \in {Null, comment'[p].id}
  <2>1. CASE AllKept
    BY <1>2, <2>1 DEF AllKept, Kept, BInv, Found
  <2>2. CASE CommentStatement \/ Finalize
    BY <2>2, RowsGoOn DEF BInv, Found
  <2>3. CASE \E d \in inbox : HandlePush(d) /\ Appears(d.pr)
    <3>1. PICK d \in inbox : HandlePush(d) /\ Appears(d.pr)
      BY <2>3
    <3>2. d.pr \in PRs
      BY DEF IInv, TypeOK, Delivery
    <3>3. row'[d.pr].comment_id = Null /\ \A q \in PRs \ {d.pr} : row'[q] = row[q]
      BY <3>1, <3>2 DEF Appears, NoRow, IInv, TypeOK
    <3> QED
      BY <1>2, <3>3 DEF BInv, Found
  <2>4. CASE pc = "delete" /\ Disappears(pr)
    <3>1. pr \in PRs
      BY <2>4, AtWork DEF Working
    <3>2. row'[pr].comment_id = Null /\ \A q \in PRs \ {pr} : row'[q] = row[q]
      BY <2>4, <3>1 DEF Disappears, NoRow, IInv, TypeOK
    <3> QED
      BY <1>2, <3>2 DEF BInv, Found
  <2> QED
    BY <2>1, <2>2, <2>3, <2>4, RowMoves
<1>4. pc' \in Working => ticket'.comment_id \in {Null, comment'[pr'].id}
  <2> SUFFICES ASSUME pc' \in Working
               PROVE  ticket'.comment_id \in {Null, comment'[pr'].id}
    OBVIOUS
  <2>1. CASE \E p \in PRs : ClaimNextDue(p)
    <3>1. PICK p \in PRs : ClaimNextDue(p)
      BY <2>1
    <3>2. ticket'.comment_id = row[p].comment_id /\ pr' = p
      BY <3>1, ClaimMoves DEF Kept
    <3> QED
      BY <1>2, <3>2 DEF BInv, Found
  <2>2. CASE pc \in Working /\ UNCHANGED <<pr, ticket, now>>
    <3>1. pr \in PRs
      BY <2>2, AtWork
    <3> QED
      BY <1>2, <2>2, <3>1 DEF BInv, Found
  <2> QED
    BY <2>1, <2>2, TicketMoves
<1>5. \A s \in todo' : s.ticket.comment_id \in {Null, comment'[s.pr].id}
  <2>1. CASE SweepRead
    <3>1. /\ UNCHANGED comment
          /\ \A s \in todo' : \E p \in PRs : s = [pr |-> p, ticket |-> row[p]]
      BY <2>1 DEF SweepRead
    <3> QED
      BY <3>1 DEF BInv, Found
  <2>2. CASE todo' \subseteq todo
    BY <1>1, <1>2, <2>2 DEF BInv, Found
  <2> QED
    BY <2>1, <2>2, TodoMoves DEF BInv
<1>6. /\ pc' \in {"stripped", "finalize", "saveId", "noticed"} => posted' = comment'[pr'].id
      /\ pc' = "appended" => \A s \in todo' : NextNotice(s)' => posted' = comment'[s.pr].id
  <2>1. CASE World \/ Webhooks \/ UNCHANGED vars
    <3>1. UNCHANGED <<pc, pr, posted, todo>> /\ \A p \in PRs : comment'[p].id = comment[p].id
      BY <2>1, WorldEdits
    <3>2. pc \in {"stripped", "finalize", "saveId", "noticed"} => pr \in PRs
      BY AtWork DEF Working, Deferred, IInv, HeldTicket
    <3> QED
      BY <1>1, <3>1, <3>2 DEF BInv, Found, NextNotice
  <2>2. CASE StripNotice \/ PostReview \/ PostPlaceholder \/ PostFailureNotice
    <3>1. \/ pc' \notin {"stripped", "finalize", "saveId", "noticed", "appended"}
          \/ pc' # "appended" /\ pr' = pr /\ posted' = comment'[pr].id
      BY <2>2, CallsEdit DEF Edited
    <3> QED
      BY <3>1
  <2>3. CASE \E s \in todo : AppendNotice(s)
    <3>1. PICK s \in todo : AppendNotice(s)
      BY <2>3
    <3>2. NextNotice(s) /\ (pc' \in {"claim", "sweeping"} \/
                            (pc' = "appended" /\ posted' = comment'[s.pr].id /\ todo' = todo))
      BY <3>1, CallsEdit DEF Edited, AppendNotice
    <3>3. \A u \in todo : NextNotice(u) => u = s
      BY <3>2, OneNotice
    <3> QED
      BY <3>2, <3>3 DEF NextNotice
  <2>4. CASE pc' \notin {"stripped", "finalize", "saveId", "noticed", "appended"}
    BY <2>4
  <2> QED
    BY <2>1, <2>2, <2>3, <2>4, OthersEdit
<1> QED
  BY <1>3, <1>4, <1>5, <1>6 DEF Found

(* There is neither row nor comment yet. *)
LEMMA InitBInv == Init => BInv
BY DEF Init, BInv, Numbered, Batch, Found, NoRow, NoComment, Working

(* The ids on file are right, for any number of pull requests. *)
THEOREM CommentsAreFound == ASSUME KeptComments PROVE Spec => []BInv
<1>1. IInv /\ BInv /\ [Next]_vars => BInv'
  BY NumberedStep, BatchStep, FoundStep DEF BInv
<1> QED
  BY <1>1, InitBInv, Invariance, PTL DEF Spec

-----------------------------------------------------------------------------
(* A good review stays, while the process lives: between the post and its
   record in the row a crash would make the dispatcher forget it. *)
NeverDies == Troubles \cap {"crash", "deleted"} = {}

(* The text of a comment changes in four ways. *)
LEMMA BodyMoves ==
    ASSUME KeptComments, IInv, [Next]_vars, NEW p \in PRs
    PROVE  \/ comment'[p].body = comment[p].body
           \/ p = pr /\ PostReview /\ pc' = "finalize" /\ pr' = pr
           \/ p = pr /\ PostPlaceholder /\ comment'[p].body = "placeholder"
           \/ /\ p = pr /\ PostFailureNotice /\ ~HasVisibleReview(ticket)
              /\ comment'[p].body = "failure"
           \/ comment'[p].id # comment[p].id /\ comment'[p].body = "bare"
<1>1. comment[p] \in Comment /\ nextComment \in Nat /\ Null \notin Nat
  BY DEF IInv, TypeOK, Null
<1>2. \A body : Upsert(comment[p], body).body = body
  BY DEF Upsert
<1>3. \A note : \/ Append(comment[p], note).body = comment[p].body
                \/ /\ Append(comment[p], note).id # comment[p].id
                   /\ Append(comment[p], note).body = "bare"
  BY <1>1 DEF Append, Exists, Comment
<1>4. ASSUME NEW q \in PRs, NEW new, comment' = [comment EXCEPT ![q] = new], q # p
      PROVE  comment'[p].body = comment[p].body
  BY <1>4 DEF IInv, TypeOK
<1>5. ASSUME NEW new, comment' = [comment EXCEPT ![p] = new]
      PROVE  comment'[p] = new
  BY <1>5 DEF IInv, TypeOK
<1>6. CASE World \/ Webhooks \/ UNCHANGED vars
  BY <1>6, WorldEdits
<1>7. CASE StripNotice
  <2>1. pr \in PRs
    BY <1>7, AtWork DEF StripNotice, Task, Working
  <2>2. UNCHANGED comment \/ comment' = [comment EXCEPT ![pr] = Strip(comment[pr])]
    BY <1>7 DEF StripNotice
  <2>3. Strip(comment[p]).body = comment[p].body
    BY <1>1 DEF Strip, Comment
  <2> QED
    BY <1>4, <1>5, <2>1, <2>2, <2>3
<1>8. CASE PostReview
  <2>1. pr \in PRs
    BY <1>8, AtWork DEF PostReview, Task, Working
  <2>2. UNCHANGED comment \/
        (pc' = "finalize" /\ pr' = pr /\
         comment' = [comment EXCEPT ![pr] = Upsert(comment[pr], "review")])
    BY <1>8 DEF PostReview, EditThen, GotoWith
  <2> QED
    BY <1>4, <1>8, <2>1, <2>2
<1>9. CASE PostPlaceholder
  <2>1. pr \in PRs
    BY <1>9 DEF PostPlaceholder, Task, Deferred, IInv, HeldTicket
  <2>2. UNCHANGED comment \/
        comment' = [comment EXCEPT ![pr] = Upsert(comment[pr], "placeholder")]
    BY <1>9 DEF PostPlaceholder, EditThen
  <2> QED
    BY <1>2, <1>4, <1>5, <1>9, <2>1, <2>2
<1>10. CASE PostFailureNotice
  <2>1. pr \in PRs
    BY <1>10, AtWork DEF PostFailureNotice, Task, Working
  <2>2. \/ UNCHANGED comment
        \/ /\ HasVisibleReview(ticket)
           /\ comment' = [comment EXCEPT ![pr] = Append(comment[pr], "failure")]
        \/ /\ ~HasVisibleReview(ticket)
           /\ comment' = [comment EXCEPT ![pr] = Upsert(comment[pr], "failure")]
    BY <1>10 DEF PostFailureNotice, EditThen
  <2>3. CASE pr # p
    BY <1>4, <2>1, <2>2, <2>3
  <2>4. CASE pr = p
    BY <1>2, <1>3, <1>5, <1>10, <2>2, <2>4
  <2> QED
    BY <2>3, <2>4
<1>11. CASE \E s \in todo : AppendNotice(s)
  <2>1. PICK s \in todo : AppendNotice(s)
    BY <1>11
  <2>2. s.pr \in PRs
    BY DEF IInv, TypeOK, Notice
  <2>3. UNCHANGED comment \/
        comment' = [comment EXCEPT ![s.pr] = Append(comment[s.pr], "schedule")]
    BY <2>1 DEF AppendNotice, EditThen
  <2>4. CASE s.pr # p
    BY <1>4, <2>2, <2>3, <2>4
  <2>5. CASE s.pr = p
    BY <1>3, <1>5, <2>3, <2>5
  <2> QED
    BY <2>4, <2>5
<1>12. CASE UNCHANGED comment
  BY <1>12
<1> QED
  BY <1>6, <1>7, <1>8, <1>9, <1>10, <1>11, <1>12, OthersEdit

(* A deleted row has no review. *)
Blank == \A p \in PRs : row[p].status = "none" => row[p].last_reviewed_at = Null

(* Only finalize_review writes the instant of a review. *)
LEMMA ReviewMoves ==
    ASSUME IInv, BInv, Blank, [Next]_vars
    PROVE  /\ Blank'
           /\ \A p \in PRs :
                 \/ row'[p].last_reviewed_at = row[p].last_reviewed_at
                 \/ Finalize /\ p = pr /\ row'[p].last_reviewed_at = now
<1>1. CASE AllKept
  BY <1>1 DEF AllKept, Kept, Blank
<1>2. CASE CommentStatement
  BY <1>2, StatementMoves DEF Noted, Blank
<1>3. CASE Finalize
  BY <1>3, FinalizeMoves DEF Blank
<1>4. CASE \E d \in inbox : HandlePush(d) /\ Appears(d.pr)
  <2>1. PICK p \in PRs : Appears(p)
    BY <1>4 DEF IInv, TypeOK, Delivery
  <2>2. /\ row'[p].status = "pending" /\ row'[p].last_reviewed_at = Null
        /\ \A q \in PRs \ {p} : row'[q] = row[q]
    BY <2>1 DEF Appears, NoRow, IInv, TypeOK
  <2>3. row[p].last_reviewed_at = Null
    BY <2>1 DEF Appears, Blank
  <2> QED
    BY <2>2, <2>3 DEF Blank
<1>5. CASE pc = "delete" /\ DiscardDeletes(row[pr]) /\ Disappears(pr)
  <2>1. pr \in PRs
    BY <1>5, AtWork DEF Working
  <2>2. /\ row'[pr].last_reviewed_at = Null /\ \A q \in PRs \ {pr} : row'[q] = row[q]
        /\ row[pr].last_reviewed_at = Null
    BY <1>5, <2>1 DEF Disappears, DiscardDeletes, NoRow, IInv, TypeOK
  <2> QED
    BY <2>2 DEF Blank
<1> QED
  BY <1>1, <1>2, <1>3, <1>4, <1>5, RowMoves

(* A ticket that finalize_review, or another statement, raised on: it is
   running, and nobody's. *)
Stuck(p) ==
    /\ row[p].status = "running" /\ pc # "down"
    /\ ~(p = pr /\ pc \in Working \cup {"placeholder"})

(* A review that is on a comment is on record, or about to be, or its ticket is
   never claimed again; the dispatcher's snapshot knows of it; and a placeholder
   is for a comment without one. *)
Shown ==
    \A p \in PRs : comment[p].body = "review" =>
        \/ row[p].last_reviewed_at # Null
        \/ pc = "finalize" /\ pr = p
        \/ Stuck(p)
Snapshot == pc \in Working => ticket.last_reviewed_at = row[pr].last_reviewed_at
NoneToKeep == pc = "placeholder" => comment[pr].body # "review"

GInv == Blank /\ Shown /\ Snapshot /\ NoneToKeep

(* Nothing is reviewed yet. *)
LEMMA InitGInv == Init => GInv
BY DEF Init, GInv, Blank, Shown, Snapshot, NoneToKeep, NoRow, NoComment, Working

(* While it is under review, a ticket's comment carries a review only if its
   snapshot says so. *)
LEMMA ReviewKnown ==
    ASSUME IInv, GInv, pc \in Working \ {"finalize"}, comment[pr].body = "review"
    PROVE  HasVisibleReview(ticket)
BY AtWork DEF GInv, Shown, Stuck, Snapshot, HasVisibleReview

(* A placeholder is due after a deferral of a ticket without a review only. *)
LEMMA PlaceholderMoves ==
    ASSUME [Next]_vars, pc' = "placeholder"
    PROVE  \/ World \/ Webhooks \/ UNCHANGED vars
           \/ pc \in Working \ {"finalize"} /\ ~HasVisibleReview(ticket) /\ pr' = pr
              /\ UNCHANGED comment
<1>1. CASE \/ StripNotice \/ PostReview \/ PostPlaceholder \/ PostFailureNotice
           \/ \E s \in todo : AppendNotice(s)
  BY <1>1 DEF StripNotice, PostReview, PostPlaceholder, PostFailureNotice, AppendNotice,
       EditThen, Rest, EndStep, Goto, GotoWith
<1>2. CASE \/ \E p \in PRs : ClaimNextDue(p)
           \/ NothingDue \/ RefreshConfig \/ RecordStrip \/ Proceed
           \/ Reviewed \/ AttemptFails \/ ReviewSkipped \/ ReviewRateLimited
           \/ DiscardSkipped \/ SaveCommentId \/ Finalize
  BY <1>2 DEF ClaimNextDue, NothingDue, RefreshConfig, RecordStrip, Proceed, Reviewed,
       AttemptFails, ReviewSkipped, ReviewRateLimited, Attempt, DiscardSkipped, Discard,
       SaveCommentId, Finalize, EndStep, Goto, GotoWith
<1>3. CASE TuningUnavailable \/ CapReached \/ Blocked \/ RecordRateLimit
  BY <1>3 DEF TuningUnavailable, CapReached, Blocked, RecordRateLimit, DeferTo, EndStep, Goto,
       GotoWith, Task, Working
<1>4. CASE \/ RetryLater \/ RecordNotice \/ MarkTicketFailed \/ NoticeNotPosted
           \/ SweepRead \/ \E s \in todo : RecordAppend(s)
  BY <1>4 DEF RetryLater, BackOff, RecordNotice, MarkTicketFailed, NoticeNotPosted, SweepRead,
       RecordAppend, EndStep, Rest, Goto, GotoWith
<1>5. CASE DatabaseFails \/ Crash \/ Restart
  BY <1>5 DEF DatabaseFails, Crash, Restart, EndStep, Rest, Goto, GotoWith
<1> QED
  BY <1>1, <1>2, <1>3, <1>4, <1>5
     DEF Next, Dispatcher, ProcessNextDue, PostPendingNotices

(* A process that does not die is not down. *)
LEMMA StaysUp ==
    ASSUME NeverDies, [Next]_vars, pc # "down"
    PROVE  pc' # "down"
<1>1. ~Crash
  BY DEF NeverDies, Crash, Trouble
<1>2. CASE World \/ Webhooks \/ UNCHANGED vars
  BY <1>2 DEF vars, World, Tick, Push, ClosePR, Happens, DeleteComment, Webhooks, WebhookRaises,
       HandlePush, HandleClose, StripCancelled, ClearCancelled, Handler
<1>3. CASE PostPendingNotices \/ Restart \/ DatabaseFails
  BY <1>3 DEF PostPendingNotices, SweepRead, AppendNotice, RecordAppend, Restart, DatabaseFails,
       EditThen, EndStep, Rest, Goto, GotoWith
<1>4. CASE \/ (\E p \in PRs : ClaimNextDue(p)) \/ NothingDue \/ RefreshConfig \/ StripNotice
           \/ RecordStrip \/ Proceed \/ Reviewed \/ AttemptFails \/ ReviewSkipped
           \/ ReviewRateLimited \/ PostReview \/ DiscardSkipped
  BY <1>4 DEF ClaimNextDue, NothingDue, RefreshConfig, StripNotice, RecordStrip, Proceed,
       Reviewed, AttemptFails, ReviewSkipped, ReviewRateLimited, Attempt, PostReview,
       DiscardSkipped, Discard, EditThen, EndStep, Goto, GotoWith
<1>5. CASE \/ TuningUnavailable \/ CapReached \/ Blocked \/ RecordRateLimit
           \/ PostPlaceholder \/ SaveCommentId \/ Finalize
  BY <1>5 DEF TuningUnavailable, CapReached, Blocked, RecordRateLimit, DeferTo, PostPlaceholder,
       SaveCommentId, Finalize, EditThen, EndStep, Goto, GotoWith
<1>6. CASE \/ RetryLater \/ PostFailureNotice \/ RecordNotice \/ MarkTicketFailed
           \/ NoticeNotPosted
  BY <1>6 DEF RetryLater, BackOff, PostFailureNotice, RecordNotice, MarkTicketFailed,
       NoticeNotPosted, EditThen, EndStep, Goto, GotoWith
<1> QED
  BY <1>1, <1>2, <1>3, <1>4, <1>5, <1>6 DEF Next, Dispatcher, ProcessNextDue

(* A running row is written by its owner and by the boot. *)
LEMMA RunningMoves ==
    ASSUME IInv, BInv, [Next]_vars, NEW p \in PRs, row[p].status = "running", pc # "down"
    PROVE  row'[p].status = "running" \/ (p = pr /\ pc \in Working)
<1>1. CASE UNCHANGED row
  BY <1>1
<1>2. ASSUME NEW q \in PRs, NEW u, row' = [row EXCEPT ![q] = u],
             q = p => u.status = "running" \/ (p = pr /\ pc \in Working)
      PROVE  row'[p].status = "running" \/ (p = pr /\ pc \in Working)
  BY <1>2 DEF IInv, TypeOK
<1>3. CASE \E d \in inbox : HandlePush(d)
  <2>1. PICK d \in inbox : HandlePush(d)
    BY <1>3
  <2> DEFINE u == EnqueueOrUpdate(row[d.pr], nextId, clock)
  <2>2. d.pr \in PRs /\ row[d.pr] \in Row /\ nextId \in Nat /\ clock \in Nat
    BY DEF IInv, TypeOK, Delivery
  <2>3. row[d.pr].status = "running" => u.status = "running"
    BY <2>2, EnqueueRow DEF SameWork
  <2>4. UNCHANGED row \/ row' = [row EXCEPT ![d.pr] = u]
    BY <2>1 DEF HandlePush
  <2> HIDE DEF u
  <2> QED
    BY <1>1, <1>2, <2>2, <2>3, <2>4
<1>4. CASE \E d \in inbox : HandleClose(d)
  <2>1. PICK d \in inbox : HandleClose(d)
    BY <1>4
  <2> DEFINE u == CancelTicket(row[d.pr])
  <2>2. d.pr \in PRs /\ row[d.pr] \in Row
    BY DEF IInv, TypeOK, Delivery
  <2>3. row[d.pr].status = "running" => u.status = "running"
    BY <2>2, CancelRow
  <2>4. row' = [row EXCEPT ![d.pr] = u]
    BY <2>1 DEF HandleClose
  <2> HIDE DEF u
  <2> QED
    BY <1>2, <2>2, <2>3, <2>4
<1>5. CASE \E q \in PRs : ClaimNextDue(q)
  <2>1. PICK q \in PRs : ClaimNextDue(q)
    BY <1>5
  <2>2. Claim(row[q]).status = "running"
    BY ClaimRow DEF IInv, TypeOK
  <2> QED
    BY <1>2, <2>1, <2>2 DEF ClaimNextDue
<1>6. CASE CommentStatement
  BY <1>6, StatementMoves DEF Noted
<1>7. CASE \/ TuningUnavailable \/ CapReached \/ Blocked \/ RecordRateLimit \/ Finalize
           \/ DiscardSkipped \/ RetryLater \/ MarkTicketFailed \/ NoticeNotPosted
  <2>1. pc \in Working
    BY <1>7 DEF TuningUnavailable, CapReached, Blocked, RecordRateLimit, Finalize, DiscardSkipped,
         Discard, RetryLater, MarkTicketFailed, NoticeNotPosted, Task, Working
  <2>2. UNCHANGED row \/ \E u : Write(u)
    BY <1>7 DEF TuningUnavailable, CapReached, Blocked, RecordRateLimit, DeferTo, Finalize,
         DiscardSkipped, Discard, RetryLater, MarkTicketFailed, NoticeNotPosted, BackOff
  <2>3. pr \in PRs
    BY <2>1, AtWork
  <2> QED
    BY <1>1, <1>2, <2>1, <2>2, <2>3 DEF Write
<1>8. CASE \/ UNCHANGED vars \/ World \/ WebhookRaises
           \/ \E s \in stripping : StripCancelled(s)
           \/ NothingDue \/ RefreshConfig \/ StripNotice \/ Proceed
           \/ Reviewed \/ AttemptFails \/ ReviewSkipped \/ ReviewRateLimited
           \/ PostReview \/ PostPlaceholder \/ PostFailureNotice
           \/ SweepRead \/ (\E s \in todo : AppendNotice(s))
           \/ DatabaseFails \/ Crash
  <2>1. UNCHANGED row
    BY <1>8 DEF vars, World, Tick, Push, ClosePR, Happens, DeleteComment, WebhookRaises,
         StripCancelled, NothingDue, RefreshConfig, StripNotice, Proceed, Reviewed,
         AttemptFails, ReviewSkipped, ReviewRateLimited, Attempt, PostReview,
         PostPlaceholder, PostFailureNotice, SweepRead, AppendNotice, DatabaseFails, Crash
  <2> QED
    BY <1>1, <2>1
<1>9. CASE Restart
  BY <1>9 DEF Restart, Task
<1> QED
  BY <1>3, <1>4, <1>5, <1>6, <1>7, <1>8, <1>9
     DEF Next, Webhooks, Dispatcher, ProcessNextDue, PostPendingNotices, CommentStatement

(* A stuck ticket stays stuck. *)
LEMMA StuckStays ==
    ASSUME NeverDies, IInv, BInv, [Next]_vars, NEW p \in PRs, Stuck(p)
    PROVE  Stuck(p)'
<1>1. pc' # "down"
  BY StaysUp DEF Stuck
<1>2. row'[p].status = "running"
  BY RunningMoves DEF Stuck
<1>3. ASSUME p = pr', pc' \in Working \cup {"placeholder"} PROVE FALSE
  <2>1. CASE \E q \in PRs : ClaimNextDue(q)
    <3>1. PICK q \in PRs : ClaimNextDue(q)
      BY <2>1
    <3>2. row[q].status # "running" /\ pr' = q
      BY <3>1 DEF ClaimNextDue, Due, IsDue, Waiting
    <3> QED
      BY <1>3, <3>2 DEF Stuck
  <2>2. CASE UNCHANGED pr /\ pc \in Working
    BY <1>3, <2>2 DEF Stuck
  <2>3. CASE pc' = "placeholder"
    <3>1. CASE World \/ Webhooks \/ UNCHANGED vars
      <4>1. UNCHANGED <<pc, pr>>
        BY <3>1, WorldEdits DEF NeverDies, KeptComments
      <4> QED
        BY <1>3, <2>3, <4>1 DEF Stuck
    <3> QED
      BY <2>2, <2>3, <3>1, PlaceholderMoves
  <2> QED
    BY <1>3, <2>1, <2>2, <2>3, TicketMoves DEF Working
<1> QED
  BY <1>1, <1>2, <1>3 DEF Stuck

(* A review that was posted is recorded, unless the statement that does so
   raises and leaves its ticket stuck. *)
LEMMA FinalizeComes ==
    ASSUME NeverDies, IInv, BInv, [Next]_vars, pc = "finalize", NEW p \in PRs, p = pr
    PROVE  \/ pc' = "finalize" /\ UNCHANGED pr
           \/ row'[p].last_reviewed_at # Null
           \/ Stuck(p)'
<1>1. row[p].status = "running" /\ ~Crash
  BY AtWork DEF NeverDies, Crash, Trouble, Working
<1>2. CASE World \/ Webhooks \/ UNCHANGED vars
  <2>1. KeptComments
    BY DEF NeverDies, KeptComments
  <2> QED
    BY <1>2, <2>1, WorldEdits
<1>3. CASE Finalize
  <2>1. now # Null
    BY DEF IInv, TypeOK, Null
  <2>2. CASE cooldown_cached
    BY <1>3, <2>1, <2>2, FinalizeMoves
  <2>3. CASE ~cooldown_cached
    <3>1. UNCHANGED row /\ pc' = "sweep"
      BY <1>3, <2>3, FinalizeMoves
    <3> QED
      BY <1>1, <3>1 DEF Stuck, Working
  <2> QED
    BY <2>2, <2>3
<1>4. CASE Dispatcher /\ ~Finalize
  BY <1>4 DEF Dispatcher, ProcessNextDue, PostPendingNotices, ClaimNextDue, NothingDue,
       RefreshConfig, TuningUnavailable, StripNotice, RecordStrip, CapReached, Blocked, Proceed,
       Reviewed, AttemptFails, ReviewSkipped, ReviewRateLimited, Attempt, RecordRateLimit,
       PostReview, DiscardSkipped, Discard, PostPlaceholder, SaveCommentId, RetryLater,
       PostFailureNotice, RecordNotice, MarkTicketFailed, NoticeNotPosted, SweepRead,
       AppendNotice, RecordAppend, Task
<1>5. CASE Restart
  BY <1>5 DEF Restart, Task
<1>6. CASE DatabaseFails
  <2>1. UNCHANGED row /\ pc' = "sweep"
    BY <1>6 DEF DatabaseFails, EndStep
  <2> QED
    BY <1>1, <2>1 DEF Stuck, Working
<1> QED
  BY <1>1, <1>2, <1>3, <1>4, <1>5, <1>6 DEF Next

(* Each step keeps it. *)
LEMMA GInvStep ==
    ASSUME NeverDies, IInv, BInv, GInv, [Next]_vars
    PROVE  GInv'
<1>1. KeptComments
  BY DEF NeverDies, KeptComments
<1>2. Blank' /\ \A p \in PRs :
          \/ row'[p].last_reviewed_at = row[p].last_reviewed_at
          \/ Finalize /\ p = pr /\ row'[p].last_reviewed_at = now
  BY ReviewMoves DEF GInv
<1>3. now # Null
  BY DEF IInv, TypeOK, Null
<1>4. Shown'
  <2> SUFFICES ASSUME NEW p \in PRs, comment'[p].body = "review"
               PROVE  \/ row'[p].last_reviewed_at # Null
                      \/ pc' = "finalize" /\ pr' = p
                      \/ Stuck(p)'
    BY DEF Shown
  <2>1. CASE p = pr /\ PostReview /\ pc' = "finalize" /\ pr' = pr
    BY <2>1
  <2>2. CASE comment[p].body = "review"
    <3>1. CASE row[p].last_reviewed_at # Null
      BY <1>2, <1>3, <3>1
    <3>2. CASE pc = "finalize" /\ pr = p
      BY <3>2, FinalizeComes
    <3>3. CASE Stuck(p)
      BY <3>3, StuckStays
    <3> QED
      BY <2>2, <3>1, <3>2, <3>3 DEF GInv, Shown
  <2> QED
    BY <1>1, <2>1, <2>2, BodyMoves
<1>5. Snapshot'
  <2> SUFFICES ASSUME pc' \in Working
               PROVE  ticket'.last_reviewed_at = row'[pr'].last_reviewed_at
    BY DEF Snapshot
  <2>1. CASE \E p \in PRs : ClaimNextDue(p)
    <3>1. PICK p \in PRs : ClaimNextDue(p)
      BY <2>1
    <3> QED
      BY <3>1, ClaimMoves DEF AllKept, Kept
  <2>2. CASE pc \in Working /\ UNCHANGED <<pr, ticket, now>>
    <3>1. pr \in PRs
      BY <2>2, AtWork
    <3>2. ~Finalize
      BY FinalizeMoves DEF Working
    <3> QED
      BY <1>2, <2>2, <3>1, <3>2 DEF GInv, Snapshot
  <2> QED
    BY <2>1, <2>2, TicketMoves
<1>6. NoneToKeep'
  <2> SUFFICES ASSUME pc' = "placeholder" PROVE comment'[pr'].body # "review"
    BY DEF NoneToKeep
  <2>1. CASE World \/ Webhooks \/ UNCHANGED vars
    <3>1. UNCHANGED <<pc, pr>> /\ \A p \in PRs : comment'[p].body = comment[p].body
      BY <1>1, <2>1, WorldEdits
    <3>2. pr \in PRs
      BY <3>1 DEF IInv, HeldTicket, Deferred
    <3> QED
      BY <3>1, <3>2 DEF GInv, NoneToKeep
  <2>2. CASE pc \in Working \ {"finalize"} /\ ~HasVisibleReview(ticket) /\ pr' = pr
             /\ UNCHANGED comment
    BY <2>2, ReviewKnown
  <2> QED
    BY <2>1, <2>2, PlaceholderMoves
<1> QED
  BY <1>2, <1>4, <1>5, <1>6 DEF GInv

(* The step that a property of steps is about. *)
LEMMA ReviewKeptStep ==
    ASSUME NeverDies, IInv, GInv, [Next]_vars, NEW p \in PRs,
           comment[p].body = "review", comment'[p].id = comment[p].id
    PROVE  comment'[p].body = "review"
<1>1. KeptComments
  BY DEF NeverDies, KeptComments
<1>2. ~(p = pr /\ PostPlaceholder)
  BY DEF PostPlaceholder, Task, GInv, NoneToKeep
<1>3. ~(p = pr /\ PostFailureNotice /\ ~HasVisibleReview(ticket))
  BY ReviewKnown DEF PostFailureNotice, Task, Working
<1>4. p = pr /\ PostReview /\ pc' = "finalize" => comment'[p].body = "review"
  <2> SUFFICES ASSUME p = pr, PostReview, pc' = "finalize" PROVE comment'[p].body = "review"
    OBVIOUS
  <2>1. comment' = [comment EXCEPT ![p] = Upsert(comment[p], "review")]
    BY DEF PostReview, EditThen, Goto, GotoWith
  <2> QED
    BY <2>1 DEF Upsert, IInv, TypeOK
<1> QED
  BY <1>1, <1>2, <1>3, <1>4, BodyMoves

(* However pushes, closes, deferrals, skips, retries, failing calls to GitHub,
   failing statements and an unreadable cooldown interleave, no placeholder and
   no failure notice takes the place of a good review, as long as the process
   lives. *)
THEOREM GoodReviewsStay == ASSUME NeverDies PROVE Spec => GoodReviewKept
<1>1. KeptComments
  BY DEF NeverDies, KeptComments
<1>2. IInv /\ BInv /\ GInv /\ [Next]_vars => GInv'
  BY GInvStep
<1>3. IInv /\ GInv /\ [Next]_vars
      => [\A p \in PRs :
             comment[p].body = "review" /\ comment'[p].id = comment[p].id =>
                 comment'[p].body = "review"]_vars
  BY ReviewKeptStep
<1>4. Spec => []IInv /\ []BInv
  BY <1>1, Invariance, CommentsAreFound
<1> QED
  BY <1>2, <1>3, <1>4, InitGInv, PTL DEF Spec, GoodReviewKept

-----------------------------------------------------------------------------
(* Giving up is visible. *)

(* A ticket fails in two ways, and stays failed until the next push. *)
LEMMA FailedMoves ==
    ASSUME IInv, BInv, [Next]_vars, NEW p \in PRs, row'[p].status = "failed"
    PROVE  \/ row[p].status = "failed" /\ row'[p].attempts = row[p].attempts
           \/ p = pr /\ MarkTicketFailed
           \/ /\ p = pr /\ NoticeNotPosted /\ row'[p].attempts = ticket.attempts
              /\ next_attempt > notice_post_ceiling
<1> DEFINE Stays == row[p].status = "failed" /\ row'[p].attempts = row[p].attempts
<1>1. row[p] \in Row /\ nextId \in Nat /\ clock \in Nat
  BY DEF IInv, TypeOK
<1>2. CASE UNCHANGED row
  BY <1>2
<1>3. ASSUME NEW q \in PRs, NEW u, row' = [row EXCEPT ![q] = u],
             u.status = "failed" => row[q].status = "failed" /\ u.attempts = row[q].attempts
      PROVE  Stays
  BY <1>3 DEF IInv, TypeOK
<1>4. CASE \E d \in inbox : HandlePush(d)
  <2>1. PICK d \in inbox : HandlePush(d)
    BY <1>4
  <2> DEFINE u == EnqueueOrUpdate(row[d.pr], nextId, clock)
  <2>2. d.pr \in PRs /\ row[d.pr] \in Row
    BY DEF IInv, TypeOK, Delivery
  <2>3. u.status \in Active
    BY <1>1, <2>2, EnqueueRow
  <2>4. UNCHANGED row \/ row' = [row EXCEPT ![d.pr] = u]
    BY <2>1 DEF HandlePush
  <2> HIDE DEF u
  <2> QED
    BY <1>2, <1>3, <2>2, <2>3, <2>4 DEF Active, Queued, Waiting
<1>5. CASE \E d \in inbox : HandleClose(d)
  <2>1. PICK d \in inbox : HandleClose(d)
    BY <1>5
  <2> DEFINE u == CancelTicket(row[d.pr])
  <2>2. d.pr \in PRs /\ row[d.pr] \in Row
    BY DEF IInv, TypeOK, Delivery
  <2>3. u.status \in {"cancelled", row[d.pr].status} /\ u.attempts = row[d.pr].attempts
    BY <2>2, CancelRow
  <2>4. row' = [row EXCEPT ![d.pr] = u]
    BY <2>1 DEF HandleClose
  <2> HIDE DEF u
  <2> QED
    BY <1>3, <2>2, <2>3, <2>4
<1>6. CASE \E q \in PRs : ClaimNextDue(q)
  <2>1. PICK q \in PRs : ClaimNextDue(q)
    BY <1>6
  <2>2. Claim(row[q]).status = "running"
    BY ClaimRow DEF IInv, TypeOK
  <2> QED
    BY <1>3, <2>1, <2>2 DEF ClaimNextDue
<1>7. CASE Restart
  BY <1>7, RecoverRow DEF Restart, IInv, TypeOK
<1>8. CASE CommentStatement
  <2>1. \A q \in PRs : row'[q].attempts = row[q].attempts
    <3>1. CASE RecordStrip \/ RecordNotice \/ SaveCommentId
      <4>1. pr \in PRs /\ row[pr] \in Row /\ posted \in Nat \cup {Null}
        BY <3>1, AtWork DEF IInv, HeldTicket, TypeOK, RecordStrip, SaveCommentId, RecordNotice,
                            Task, Working, Deferred
      <4>2. \/ row' = [row EXCEPT ![pr] = SetCommentId(row[pr], posted)]
            \/ row' = [row EXCEPT ![pr] = ClearNotice(SetCommentId(row[pr], posted))]
        BY <3>1, NeverLost DEF RecordStrip, RecordNotice, SaveCommentId, Task, Write
      <4>3. /\ SetCommentId(row[pr], posted).attempts = row[pr].attempts
            /\ ClearNotice(SetCommentId(row[pr], posted)).attempts = row[pr].attempts
        BY <4>1, BookkeepingRow DEF Bookkeeping, SameWork
      <4> QED
        BY <4>1, <4>2, <4>3 DEF IInv, TypeOK
    <3>2. CASE \E s \in todo : RecordAppend(s)
      <4>1. PICK s \in todo : RecordAppend(s)
        BY <3>2
      <4>2. PICK u : Bookkeeping(row[s.pr], u) /\ row' = [row EXCEPT ![s.pr] = u]
        BY <4>1, AppendIsBookkeeping
      <4> QED
        BY <4>2 DEF Bookkeeping, SameWork, IInv, TypeOK
    <3>3. CASE \E s \in stripping : ClearCancelled(s)
      <4>1. PICK s \in stripping : ClearCancelled(s)
        BY <3>3
      <4>2. s.pr \in PRs /\ row[s.pr] \in Row
        BY DEF IInv, TypeOK, Stripping
      <4>3. \/ UNCHANGED row
            \/ row' = [row EXCEPT ![s.pr] = ClearNotice(row[s.pr])]
        BY <4>1, <4>2 DEF ClearCancelled, IInv, TypeOK
      <4>4. ClearNotice(row[s.pr]).attempts = row[s.pr].attempts
        BY <4>2, BookkeepingRow DEF Bookkeeping, SameWork
      <4> QED
        BY <4>3, <4>4 DEF IInv, TypeOK
    <3> QED
      BY <1>8, <3>1, <3>2, <3>3 DEF CommentStatement
  <2> QED
    BY <1>8, <2>1, StatementMoves DEF Noted
<1>9. CASE Finalize
  BY <1>9, FinalizeMoves
<1>10. CASE DiscardSkipped
  <2>1. pr \in PRs /\ row[pr] \in Row
    BY <1>10, AtWork DEF DiscardSkipped, Discard, Task, Working
  <2>2. \/ UNCHANGED row
        \/ \E u \in {NoRow, DiscardRearm(row[pr]), DiscardRevert(row[pr])} :
              row' = [row EXCEPT ![pr] = u]
    BY <1>10 DEF DiscardSkipped, Discard, Write
  <2>3. \A u \in {NoRow, DiscardRearm(row[pr]), DiscardRevert(row[pr])} : u.status # "failed"
    BY <2>1, DiscardRow DEF NoRow
  <2> QED
    BY <1>2, <1>3, <2>1, <2>2, <2>3
<1>11. CASE \/ TuningUnavailable \/ CapReached \/ Blocked \/ RecordRateLimit
            \/ RetryLater \/ NoticeNotPosted
  <2>1. /\ pr \in PRs /\ row[pr] \in Row /\ row[pr].status = "running"
        /\ row[pr].attempts = ticket.attempts
    BY <1>11, AtWork DEF TuningUnavailable, CapReached, Blocked, RecordRateLimit, RetryLater,
                         NoticeNotPosted, Task, Working
  <2>2. \A until : /\ DeferRateLimited(row[pr], until).status = "deferred"
                   /\ DeferUsageCapped(row[pr], until).status = "deferred"
                   /\ DeferFailed(row[pr], until).status = "retrying"
    BY <2>1 DEF DeferRateLimited, DeferUsageCapped, DeferFailed, Row
  <2>3. \/ \E until : \/ Write(DeferRateLimited(row[pr], until))
                      \/ Write(DeferUsageCapped(row[pr], until))
                      \/ Write(DeferFailed(row[pr], until))
        \/ /\ NoticeNotPosted /\ next_attempt > notice_post_ceiling
           /\ Write(MarkFailed(row[pr]))
    BY <1>11 DEF TuningUnavailable, CapReached, Blocked, RecordRateLimit, DeferTo, RetryLater,
                 NoticeNotPosted, BackOff
  <2>4. CASE \E until : \/ Write(DeferRateLimited(row[pr], until))
                        \/ Write(DeferUsageCapped(row[pr], until))
                        \/ Write(DeferFailed(row[pr], until))
    BY <1>3, <2>1, <2>2, <2>4 DEF Write
  <2>5. CASE /\ NoticeNotPosted /\ next_attempt > notice_post_ceiling
             /\ Write(MarkFailed(row[pr]))
    <3>1. MarkFailed(row[pr]).attempts = ticket.attempts
      BY <2>1, MarkFailedRow
    <3>2. row'[pr] = MarkFailed(row[pr]) /\ \A q \in PRs \ {pr} : row'[q] = row[q]
      BY <2>1, <2>5 DEF Write, IInv, TypeOK
    <3> QED
      BY <2>5, <3>1, <3>2
  <2> QED
    BY <2>3, <2>4, <2>5
<1>12. CASE MarkTicketFailed
  <2>1. pr \in PRs
    BY <1>12, AtWork DEF MarkTicketFailed, Task, Working
  <2>2. \A q \in PRs \ {pr} : row'[q] = row[q]
    BY <1>12, <2>1 DEF MarkTicketFailed, Write, IInv, TypeOK
  <2> QED
    BY <1>12, <2>2
<1>13. CASE \/ UNCHANGED vars \/ World \/ WebhookRaises
            \/ \E s \in stripping : StripCancelled(s)
            \/ NothingDue \/ RefreshConfig \/ StripNotice \/ Proceed
            \/ Reviewed \/ AttemptFails \/ ReviewSkipped \/ ReviewRateLimited
            \/ PostReview \/ PostPlaceholder \/ PostFailureNotice
            \/ SweepRead \/ (\E s \in todo : AppendNotice(s))
            \/ DatabaseFails \/ Crash
  <2>1. UNCHANGED row
    BY <1>13 DEF vars, World, Tick, Push, ClosePR, Happens, DeleteComment, WebhookRaises,
         StripCancelled, NothingDue, RefreshConfig, StripNotice, Proceed, Reviewed,
         AttemptFails, ReviewSkipped, ReviewRateLimited, Attempt, PostReview,
         PostPlaceholder, PostFailureNotice, SweepRead, AppendNotice, DatabaseFails, Crash
  <2> QED
    BY <1>2, <2>1
<1> QED
  BY <1>4, <1>5, <1>6, <1>7, <1>8, <1>9, <1>10, <1>11, <1>12, <1>13
     DEF Next, Webhooks, Dispatcher, ProcessNextDue, PostPendingNotices, CommentStatement

(* Nobody edits the comment of a failed ticket: the sweep's tickets wait, and a
   ticket at hand is running or was deferred. *)
SweepSpares == \A s \in todo : row[s.pr].status # "failed"
DeferSpares == pc \in Deferred => row[pr].status # "failed"

FInv == SweepSpares /\ DeferSpares

(* Nothing has failed yet. *)
LEMMA InitFInv == Init => FInv
BY DEF Init, FInv, SweepSpares, DeferSpares, Deferred, NoRow

(* Each step keeps it. *)
LEMMA FInvStep ==
    ASSUME IInv, BInv, FInv, [Next]_vars
    PROVE  FInv'
<1>1. \A s \in todo : s.pr \in PRs
  BY DEF IInv, TypeOK, Notice
<1>2. SweepSpares'
  <2>1. CASE SweepRead
    <3>1. /\ UNCHANGED row
          /\ \A s \in todo' : \E p \in PRs :
                s = [pr |-> p, ticket |-> row[p]] /\ NeedsNotice(row[p], clock)
      BY <2>1 DEF SweepRead
    <3> QED
      BY <3>1 DEF SweepSpares, NeedsNotice
  <2>2. CASE todo' \subseteq todo
    <3> SUFFICES ASSUME NEW s \in todo', row'[s.pr].status = "failed" PROVE FALSE
      BY DEF SweepSpares
    <3>1. row[s.pr].status # "failed" /\ pc \in {"sweeping", "appended"}
      BY <2>2 DEF FInv, SweepSpares, BInv, Batch
    <3> QED
      BY <1>1, <2>2, <3>1, FailedMoves DEF MarkTicketFailed, NoticeNotPosted, Task
  <2> QED
    BY <2>1, <2>2, TodoMoves DEF BInv
<1>3. DeferSpares'
  <2> SUFFICES ASSUME pc' \in Deferred, row'[pr'].status = "failed" PROVE FALSE
    BY DEF DeferSpares
  <2>1. pc \in Working \cup Deferred /\ pr' = pr
    BY TicketMoves DEF Deferred
  <2>2. pr \in PRs /\ row[pr].status # "failed"
    BY <2>1, AtWork DEF IInv, HeldTicket, FInv, DeferSpares
  <2>3. ~MarkTicketFailed
    BY DEF MarkTicketFailed, EndStep, Deferred
  <2>4. ~(NoticeNotPosted /\ next_attempt > notice_post_ceiling)
    BY DEF NoticeNotPosted, EndStep, Deferred
  <2> QED
    BY <2>1, <2>2, <2>3, <2>4, FailedMoves
<1> QED
  BY <1>2, <1>3 DEF FInv

(* The comment of a ticket that is given up is edited by a close handler only. *)
LEMMA EditMoves ==
    ASSUME KeptComments, IInv, BInv, FInv, [Next]_vars, NEW p \in PRs, GivenUp(p)
    PROVE  comment'[p] = comment[p] \/ \E s \in stripping : s.pr = p /\ StripCancelled(s)
<1>1. p = pr => pc \notin {"strip", "post", "placeholder", "failure"}
  <2>1. pc \in {"strip", "post", "failure"} => row[pr].status = "running"
    BY AtWork DEF Working
  <2>2. pc = "placeholder" => row[pr].status # "failed"
    BY DEF FInv, DeferSpares, Deferred
  <2> QED
    BY <2>1, <2>2 DEF GivenUp
<1>2. \A s \in todo : s.pr # p
  BY DEF GivenUp, FInv, SweepSpares, BInv, Batch
<1>3. CASE StripNotice \/ PostReview \/ PostPlaceholder \/ PostFailureNotice
  <2>1. pc \in {"strip", "post", "placeholder", "failure"}
    BY <1>3 DEF StripNotice, PostReview, PostPlaceholder, PostFailureNotice, Task
  <2> QED
    BY <1>1, <1>3, <2>1, CallsEdit DEF Edited
<1>4. CASE \E s \in todo : AppendNotice(s)
  BY <1>2, <1>4, CallsEdit DEF Edited
<1>5. CASE World \/ Webhooks \/ UNCHANGED vars
  <2>1. CASE \E s \in stripping : StripCancelled(s)
    <3>1. PICK s \in stripping : StripCancelled(s)
      BY <2>1
    <3>2. CASE s.pr # p
      <4>1. UNCHANGED comment \/ comment' = [comment EXCEPT ![s.pr] = Strip(comment[s.pr])]
        BY <3>1 DEF StripCancelled
      <4> QED
        BY <3>2, <4>1 DEF IInv, TypeOK
    <3> QED
      BY <3>1, <3>2
  <2> QED
    BY <1>5, <2>1, WorldEdits
<1> QED
  BY <1>3, <1>4, <1>5, OthersEdit

(* What leads to mark_failed. *)
LEMMA ToldMoves ==
    ASSUME IInv, [Next]_vars, pc' \in {"noticed", "markFailed"}
    PROVE  \/ pc = pc' /\ UNCHANGED <<pr, ticket>>
           \/ PostFailureNotice
           \/ pc = "noticed" /\ UNCHANGED <<pr, ticket>>
<1>1. CASE \/ StripNotice \/ PostReview \/ PostPlaceholder
           \/ \E s \in todo : AppendNotice(s) \/ RecordAppend(s)
  BY <1>1 DEF StripNotice, PostReview, PostPlaceholder, AppendNotice, RecordAppend,
       EditThen, Rest, EndStep, Goto, GotoWith
<1>2. CASE \/ \E p \in PRs : ClaimNextDue(p)
           \/ NothingDue \/ RefreshConfig \/ RecordStrip \/ Proceed
           \/ Reviewed \/ AttemptFails \/ ReviewSkipped \/ ReviewRateLimited
           \/ DiscardSkipped \/ SaveCommentId \/ Finalize
  BY <1>2 DEF ClaimNextDue, NothingDue, RefreshConfig, RecordStrip, Proceed, Reviewed,
       AttemptFails, ReviewSkipped, ReviewRateLimited, Attempt, DiscardSkipped, Discard,
       SaveCommentId, Finalize, EndStep, Goto, GotoWith
<1>3. CASE \/ TuningUnavailable \/ CapReached \/ Blocked \/ RecordRateLimit
           \/ RetryLater \/ MarkTicketFailed \/ NoticeNotPosted \/ SweepRead
  BY <1>3 DEF TuningUnavailable, CapReached, Blocked, RecordRateLimit, DeferTo, RetryLater,
       BackOff, MarkTicketFailed, NoticeNotPosted, SweepRead, EndStep, Goto, GotoWith
<1>4. CASE RecordNotice
  BY <1>4 DEF RecordNotice, Goto, GotoWith, Task
<1>5. CASE DatabaseFails \/ Crash \/ Restart
  BY <1>5 DEF DatabaseFails, Crash, Restart, EndStep, Rest, Goto, GotoWith
<1>6. CASE World \/ Webhooks \/ UNCHANGED vars
  BY <1>6 DEF vars, World, Tick, Push, ClosePR, Happens, DeleteComment, Webhooks, WebhookRaises,
       HandlePush, HandleClose, StripCancelled, ClearCancelled, Handler
<1> QED
  BY <1>1, <1>2, <1>3, <1>4, <1>5, <1>6
     DEF Next, Dispatcher, ProcessNextDue, PostPendingNotices

(* _mark_failed's two calls both say so. *)
LEMMA NoticeSays ==
    ASSUME IInv, PostFailureNotice, pc' \in {"noticed", "markFailed"}
    PROVE  SaysSo(comment'[pr]) /\ pr' = pr
<1>1. pr \in PRs /\ comment[pr] \in Comment
  BY AtWork DEF PostFailureNotice, Task, Working, IInv, TypeOK
<1> DEFINE new == IF HasVisibleReview(ticket) THEN Append(comment[pr], "failure")
                                             ELSE Upsert(comment[pr], "failure")
<1>2. SaysSo(new)
  BY <1>1 DEF SaysSo, Append, Upsert, Comment
<1>3. comment' = [comment EXCEPT ![pr] = new] /\ pr' = pr
  BY DEF PostFailureNotice, EditThen, Goto, GotoWith
<1> HIDE DEF new
<1> QED
  BY <1>1, <1>2, <1>3 DEF IInv, TypeOK

(* A ticket is given up by posting the notice. *)
LEMMA GivenUpMoves ==
    ASSUME IInv, BInv, [Next]_vars, NEW p \in PRs, GivenUp(p)'
    PROVE  GivenUp(p) \/ (p = pr /\ PostFailureNotice /\ pc' \in {"noticed", "markFailed"})
<1>1. row'[p].attempts < MaxFailures + MaxNoticePosts - 2
  BY DEF GivenUp
<1>2. CASE row'[p].status = "failed"
  <2>1. CASE row[p].status = "failed" /\ row'[p].attempts = row[p].attempts
    BY <1>1, <2>1 DEF GivenUp
  <2>2. CASE p = pr /\ MarkTicketFailed
    <3>1. pc = "markFailed" /\ row' = [row EXCEPT ![pr] = MarkFailed(row[pr])]
      BY <2>2 DEF MarkTicketFailed, Task, Write
    <3>2. row'[p].attempts = row[p].attempts
      BY <2>2, <3>1, MarkFailedRow DEF IInv, TypeOK
    <3> QED
      BY <1>1, <2>2, <3>1, <3>2 DEF GivenUp
  <2>3. CASE /\ p = pr /\ NoticeNotPosted /\ row'[p].attempts = ticket.attempts
             /\ next_attempt > notice_post_ceiling
    <3>1. ticket.attempts \in Nat
      BY <2>3, AtWork DEF NoticeNotPosted, Task, Working
    <3> QED
      BY <1>1, <2>3, <3>1, QueueAssumption DEF next_attempt, notice_post_ceiling
  <2> QED
    BY <1>2, <2>1, <2>2, <2>3, FailedMoves
<1>3. CASE row'[p].status # "failed"
  <2>1. pr' = p /\ pc' \in {"noticed", "markFailed"}
    BY <1>3 DEF GivenUp
  <2>2. CASE PostFailureNotice
    BY <2>1, <2>2, NoticeSays
  <2>3. CASE pc \in {"noticed", "markFailed"} /\ UNCHANGED <<pr, ticket>>
    <3>1. row[pr].attempts = ticket.attempts
      BY <2>3, AtWork DEF Working
    <3>2. row'[pr'].attempts = ticket'.attempts
      BY <2>1, NextIInv DEF IInv, WorkIsRunning, Working
    <3> QED
      BY <1>1, <2>1, <2>3, <3>1, <3>2 DEF GivenUp
  <2> QED
    BY <2>1, <2>2, <2>3, ToldMoves
<1> QED
  BY <1>2, <1>3

(* Whatever else goes wrong (calls, statements and processes fail, notices
   cannot be posted, the sweep runs in between, pull requests are closed and
   reopened), a ticket is marked failed only with a notice to show for it, or
   when the last retry of posting one is spent; and nothing but the strip of a
   close handler takes that notice away before the next push. *)
THEOREM FailuresShow == ASSUME KeptComments PROVE Spec => FailureIsVisible
<1>1. IInv /\ BInv /\ FInv /\ [Next]_vars => FInv'
  BY FInvStep
<1>2. IInv /\ BInv /\ FInv /\ [Next]_vars =>
        [\A p \in PRs :
            GivenUp(p)' /\ (GivenUp(p) => SaysSo(comment[p])) =>
                \/ SaysSo(comment'[p])
                \/ \E s \in stripping : s.pr = p /\ StripCancelled(s)]_vars
  <2> SUFFICES ASSUME IInv, BInv, FInv, [Next]_vars, NEW p \in PRs,
                      GivenUp(p)', GivenUp(p) => SaysSo(comment[p])
               PROVE  \/ SaysSo(comment'[p])
                      \/ \E s \in stripping : s.pr = p /\ StripCancelled(s)
    OBVIOUS
  <2>1. CASE GivenUp(p)
    <3>1. CASE comment'[p] = comment[p]
      BY <2>1, <3>1
    <3> QED
      BY <2>1, <3>1, EditMoves
  <2>2. CASE p = pr /\ PostFailureNotice /\ pc' \in {"noticed", "markFailed"}
    BY <2>2, NoticeSays
  <2> QED
    BY <2>1, <2>2, GivenUpMoves
<1>3. Spec => []IInv /\ []BInv
  BY Invariance, CommentsAreFound
<1> QED
  BY <1>1, <1>2, <1>3, InitFInv, PTL DEF Spec, FailureIsVisible

-----------------------------------------------------------------------------
(* A schedule notice is known to its row, while no call about it is half done:
   no close, no crash and no failing statement comes between the two. *)
NoCloses == Closable = {}

Undisturbed == stripping = {} /\ \A d \in inbox : d.kind = "push"

(* No close is on its way, so that no close handler edits. *)
LEMMA UndisturbedStep ==
    ASSUME NoCloses, Undisturbed, [Next]_vars
    PROVE  Undisturbed'
<1>1. CASE World
  BY <1>1 DEF World, Tick, Push, ClosePR, Happens, DeleteComment, NoCloses, Undisturbed
<1>2. CASE Webhooks
  BY <1>2 DEF Webhooks, WebhookRaises, HandlePush, HandleClose, StripCancelled, ClearCancelled,
       Took, Undisturbed
<1>3. CASE Dispatcher
  <2>1. CASE PostPendingNotices
    BY <2>1 DEF PostPendingNotices, SweepRead, AppendNotice, RecordAppend, EditThen, Undisturbed
  <2>2. CASE ProcessNextDue
    BY <2>2 DEF ProcessNextDue, ClaimNextDue, NothingDue, RefreshConfig, TuningUnavailable,
       StripNotice, RecordStrip, CapReached, Blocked, Proceed, Reviewed, AttemptFails,
       ReviewSkipped, ReviewRateLimited, Attempt, RecordRateLimit, PostReview, DiscardSkipped,
       Discard, PostPlaceholder, SaveCommentId, Finalize, RetryLater, PostFailureNotice,
       RecordNotice, MarkTicketFailed, NoticeNotPosted, EditThen, Undisturbed
  <2> QED
    BY <1>3, <2>1, <2>2 DEF Dispatcher
<1>4. CASE DatabaseFails \/ Crash \/ Restart \/ UNCHANGED vars
  BY <1>4 DEF DatabaseFails, Crash, Restart, vars, Undisturbed
<1> QED
  BY <1>1, <1>2, <1>3, <1>4 DEF Next

NoHalves == NoCloses /\ Troubles \cap {"deleted", "database", "crash"} = {}

(* A footnote appears when the sweep appends it. *)
LEMMA NoteMoves ==
    ASSUME KeptComments, IInv, [Next]_vars, NEW p \in PRs, comment'[p].note = "schedule"
    PROVE  \/ comment'[p] = comment[p]
           \/ \E s \in todo : s.pr = p /\ AppendNotice(s) /\ pc' = "appended" /\ todo' = todo
<1>1. comment[p] \in Comment
  BY DEF IInv, TypeOK
<1>2. ASSUME NEW q, NEW new, comment' = [comment EXCEPT ![q] = new], new.note # "schedule"
      PROVE  comment'[p] = comment[p]
  BY <1>2 DEF IInv, TypeOK
<1>3. \A c : \A body : Upsert(c, body).note # "schedule"
  BY DEF Upsert
<1>4. \A c \in Comment : Append(c, "failure").note # "schedule" /\ Strip(c).note # "schedule"
  BY DEF Append, Strip, Comment
<1>5. pc \in Working => comment[pr] \in Comment
  BY AtWork DEF IInv, TypeOK
<1>6. CASE World \/ Webhooks \/ UNCHANGED vars
  <2>1. CASE UNCHANGED comment
    BY <2>1
  <2>2. ASSUME NEW s \in stripping, StripCancelled(s)
        PROVE  comment'[p] = comment[p]
    <3>1. comment[s.pr] \in Comment
      BY DEF IInv, TypeOK, Stripping
    <3>2. UNCHANGED comment \/ comment' = [comment EXCEPT ![s.pr] = Strip(comment[s.pr])]
      BY <2>2 DEF StripCancelled
    <3> QED
      BY <1>2, <1>4, <3>1, <3>2
  <2> QED
    BY <1>6, <2>1, <2>2, WorldEdits
<1>7. CASE StripNotice
  <2>1. pc \in Working
    BY <1>7 DEF StripNotice, Task, Working
  <2>2. UNCHANGED comment \/ comment' = [comment EXCEPT ![pr] = Strip(comment[pr])]
    BY <1>7 DEF StripNotice
  <2> QED
    BY <1>2, <1>4, <1>5, <2>1, <2>2
<1>8. CASE PostReview \/ PostPlaceholder
  <2>1. UNCHANGED comment \/ \E body : comment' = [comment EXCEPT ![pr] = Upsert(comment[pr], body)]
    BY <1>8 DEF PostReview, PostPlaceholder, EditThen
  <2> QED
    BY <1>2, <1>3, <2>1
<1>9. CASE PostFailureNotice
  <2>1. pc \in Working
    BY <1>9 DEF PostFailureNotice, Task, Working
  <2>2. \/ UNCHANGED comment
        \/ comment' = [comment EXCEPT ![pr] = Append(comment[pr], "failure")]
        \/ comment' = [comment EXCEPT ![pr] = Upsert(comment[pr], "failure")]
    BY <1>9 DEF PostFailureNotice, EditThen
  <2> QED
    BY <1>2, <1>3, <1>4, <1>5, <2>1, <2>2
<1>10. CASE \E s \in todo : AppendNotice(s)
  BY <1>10, CallsEdit DEF Edited
<1>11. CASE UNCHANGED comment
  BY <1>11
<1> QED
  BY <1>6, <1>7, <1>8, <1>9, <1>10, <1>11, OthersEdit

(* The column about it changes with the comment. *)
LEMMA NoticeMoves ==
    ASSUME IInv, BInv, Undisturbed, [Next]_vars, NEW p \in PRs
    PROVE  \/ row'[p].notice_not_before = row[p].notice_not_before
           \/ p = pr /\ RecordStrip
           \/ \E s \in todo : /\ s.pr = p /\ RecordAppend(s)
                              /\ row'[p].notice_not_before = s.ticket.not_before
           \/ row[p].status = "none"
           \/ p = pr /\ pc = "delete" /\ row[p].last_reviewed_at = Null
<1>1. CASE AllKept
  BY <1>1 DEF AllKept, Kept
<1>2. ASSUME NEW q, NEW u, row' = [row EXCEPT ![q] = u]
      PROVE  row'[p] = IF p = q THEN u ELSE row[p]
  BY <1>2 DEF IInv, TypeOK
<1>3. CASE CommentStatement
  <2>1. CASE RecordStrip
    BY <1>2, <2>1, RecordStripMoves
  <2>2. CASE SaveCommentId \/ RecordNotice
    BY <1>2, <2>2, SetCommentIdMoves
  <2>3. CASE \E s \in todo : RecordAppend(s)
    <3>1. PICK s \in todo : RecordAppend(s)
      BY <2>3
    <3>2. PICK u : /\ row' = [row EXCEPT ![s.pr] = u]
                   /\ u.notice_not_before = s.ticket.not_before
      BY <3>1, RecordAppendMoves
    <3>3. row'[p] = IF p = s.pr THEN u ELSE row[p]
      BY <1>2, <3>2
    <3> QED
      BY <3>1, <3>2, <3>3
  <2> QED
    BY <1>3, <2>1, <2>2, <2>3 DEF CommentStatement, Undisturbed
<1>4. CASE Finalize
  BY <1>4, FinalizeMoves
<1>5. CASE \E d \in inbox : Appears(d.pr)
  BY <1>2, <1>5 DEF Appears
<1>6. CASE pc = "delete" /\ DiscardDeletes(row[pr]) /\ Disappears(pr)
  BY <1>2, <1>6 DEF Disappears, DiscardDeletes
<1> QED
  BY <1>1, <1>3, <1>4, <1>5, <1>6, RowMoves

(* From the append to its record. *)
LEMMA AppendedMoves ==
    ASSUME NoHalves, [Next]_vars, pc = "appended"
    PROVE  UNCHANGED <<pc, todo>> \/ \E s \in todo : RecordAppend(s)
<1>1. ~DatabaseFails /\ ~Crash
  BY DEF NoHalves, DatabaseFails, Crash, Trouble
<1>2. CASE World \/ Webhooks \/ UNCHANGED vars
  BY <1>2 DEF vars, World, Tick, Push, ClosePR, Happens, DeleteComment, Webhooks, WebhookRaises,
       HandlePush, HandleClose, StripCancelled, ClearCancelled, Handler
<1>3. CASE ProcessNextDue \/ SweepRead \/ Restart \/ \E s \in todo : AppendNotice(s)
  BY <1>3 DEF ProcessNextDue, SweepRead, AppendNotice, Restart, NothingDue, ClaimNextDue,
       RefreshConfig, StripNotice, RecordStrip, Proceed, Reviewed, AttemptFails, ReviewSkipped,
       ReviewRateLimited, Attempt, PostReview, DiscardSkipped, Discard, TuningUnavailable,
       CapReached, Blocked, RecordRateLimit, PostPlaceholder, SaveCommentId, Finalize, RetryLater,
       PostFailureNotice, RecordNotice, MarkTicketFailed, NoticeNotPosted, Task
<1> QED
  BY <1>1, <1>2, <1>3 DEF Next, Dispatcher, PostPendingNotices

(* A re-review is announced for a reviewed pull request only, so that
   discard_skipped_ticket does not delete its row; and the row is told that
   the notice is gone after it went. *)
Announced == \A p \in PRs : comment[p].note = "schedule" => row[p].last_reviewed_at # Null
ToAnnounce ==
    \A s \in todo : s.ticket.not_before # Null /\ row[s.pr].last_reviewed_at # Null
Stripped == pc = "stripped" => comment[pr].note # "schedule"

NInv == Undisturbed /\ Blank /\ Announced /\ ToAnnounce /\ Stripped /\ NoticeTracked

(* Nothing is announced yet. *)
LEMMA InitNInv == Init => NInv
BY DEF Init, NInv, Undisturbed, Blank, Announced, ToAnnounce, Stripped, NoticeTracked, NoRow,
       Terminal, NoComment

(* Each step keeps it. *)
LEMMA NInvStep ==
    ASSUME NoHalves, IInv, BInv, NInv, [Next]_vars
    PROVE  NInv'
<1>1. /\ KeptComments /\ NoCloses
      /\ \A s \in todo : s.pr \in PRs
      /\ now # Null
  BY DEF NoHalves, KeptComments, IInv, TypeOK, Notice, Null
<1>2. Undisturbed'
  BY <1>1, UndisturbedStep DEF NInv
<1>3. Blank' /\ \A p \in PRs : row[p].last_reviewed_at # Null => row'[p].last_reviewed_at # Null
  BY <1>1, ReviewMoves DEF NInv
<1>4. Announced'
  <2> SUFFICES ASSUME NEW p \in PRs, comment'[p].note = "schedule"
               PROVE  row'[p].last_reviewed_at # Null
    BY DEF Announced
  <2>1. row[p].last_reviewed_at # Null
    BY <1>1, NoteMoves DEF NInv, Announced, ToAnnounce
  <2> QED
    BY <1>3, <2>1
<1>5. ToAnnounce'
  <2>1. CASE SweepRead
    <3>1. /\ UNCHANGED row
          /\ \A s \in todo' : \E p \in PRs :
                s = [pr |-> p, ticket |-> row[p]] /\ NeedsNotice(row[p], clock)
      BY <2>1 DEF SweepRead
    <3> QED
      BY <3>1 DEF ToAnnounce, NeedsNotice
  <2>2. CASE todo' \subseteq todo
    BY <1>1, <1>3, <2>2 DEF NInv, ToAnnounce
  <2> QED
    BY <2>1, <2>2, TodoMoves DEF BInv
<1>6. Stripped'
  <2> SUFFICES ASSUME pc' = "stripped" PROVE comment'[pr'].note # "schedule"
    BY DEF Stripped
  <2>1. CASE World \/ Webhooks \/ UNCHANGED vars
    <3>1. UNCHANGED <<pc, pr, comment>>
      BY <1>1, <2>1, WorldEdits DEF NInv, Undisturbed
    <3> QED
      BY <3>1 DEF NInv, Stripped
  <2>2. CASE StripNotice
    <3>1. pr \in PRs /\ comment[pr] \in Comment
      BY <2>2, AtWork DEF StripNotice, Task, Working, IInv, TypeOK
    <3>2. comment' = [comment EXCEPT ![pr] = Strip(comment[pr])] /\ pr' = pr
      BY <2>2 DEF StripNotice, Goto, GotoWith
    <3> QED
      BY <3>1, <3>2 DEF Strip, Comment, IInv, TypeOK
  <2>3. CASE PostReview \/ PostPlaceholder \/ PostFailureNotice \/ \E s \in todo : AppendNotice(s)
    BY <2>3 DEF PostReview, PostPlaceholder, PostFailureNotice, AppendNotice, EditThen, Rest,
                EndStep, Goto, GotoWith
  <2> QED
    BY <2>1, <2>2, <2>3, OthersEdit
<1>7. NoticeTracked'
  <2> SUFFICES ASSUME NEW p \in PRs, comment'[p].note = "schedule",
                      row'[p].notice_not_before = Null
               PROVE  pc' = "appended" /\ \E s \in todo' : s.pr = p /\ NextNotice(s)'
    BY DEF NoticeTracked, NextNotice
  <2>1. CASE \E s \in todo : s.pr = p /\ AppendNotice(s) /\ pc' = "appended" /\ todo' = todo
    <3>1. PICK s \in todo : s.pr = p /\ AppendNotice(s) /\ pc' = "appended" /\ todo' = todo
      BY <2>1
    <3>2. NextNotice(s)' /\ s \in todo'
      BY <3>1 DEF AppendNotice, NextNotice
    <3> QED
      BY <3>1, <3>2
  <2>2. CASE comment'[p] = comment[p]
    <3>1. row[p].last_reviewed_at # Null /\ row[p].status # "none"
      BY <2>2 DEF NInv, Announced, Blank
    <3>2. ~(p = pr /\ RecordStrip)
      BY <2>2 DEF RecordStrip, Task, NInv, Stripped
    <3>3. ASSUME NEW s \in todo, RecordAppend(s), s.pr = p PROVE FALSE
      <4>1. PICK u : row' = [row EXCEPT ![p] = u] /\ u.notice_not_before = s.ticket.not_before
        BY <3>3, RecordAppendMoves
      <4>2. row'[p].notice_not_before # Null
        BY <4>1 DEF NInv, ToAnnounce, IInv, TypeOK
      <4> QED
        BY <4>2
    <3>4. row[p].notice_not_before = Null
      BY <3>1, <3>2, <3>3, NoticeMoves DEF NInv
    <3>5. PICK s \in todo : pc = "appended" /\ s.pr = p /\ NextNotice(s)
      BY <2>2, <3>4 DEF NInv, NoticeTracked
    <3>6. \A u \in todo : ~RecordAppend(u)
      BY <3>3, <3>5, OneNotice DEF RecordAppend
    <3>7. UNCHANGED <<pc, todo>>
      BY <3>5, <3>6, AppendedMoves
    <3> QED
      BY <3>5, <3>7 DEF NextNotice
  <2> QED
    BY <1>1, <2>1, <2>2, NoteMoves
<1> QED
  BY <1>2, <1>3, <1>4, <1>5, <1>6, <1>7 DEF NInv

(* So it always holds. *)
LEMMA NoticeInvariance == ASSUME NoHalves PROVE Spec => []NInv
<1>1. IInv /\ BInv /\ NInv /\ [Next]_vars => NInv'
  BY NInvStep
<1>2. Spec => []BInv
  BY CommentsAreFound DEF NoHalves, KeptComments
<1> QED
  BY <1>1, <1>2, InitNInv, Invariance, PTL DEF Spec

(* Whatever the queue does with a ticket between the append and its record
   (re-arm, skip, fail, finalize), a schedule notice on a comment is known to
   the row, from which the next claim tells that there is one to strip. *)
THEOREM NoticesAreTracked == ASSUME NoHalves PROVE Spec => []NoticeTracked
BY NoticeInvariance, PTL DEF NInv

-----------------------------------------------------------------------------
(* A settled ticket announces nothing, if in addition GitHub answers: the
   claim's strip is tried once. *)
NoSlips == NoHalves /\ "github" \notin Troubles

(* The labels after the strip. *)
Silenced == Working \ {"refresh", "strip"}

(* Only the ticket at hand settles, past the strip. *)
LEMMA SettledMoves ==
    ASSUME IInv, BInv, Undisturbed, [Next]_vars, NEW p \in PRs, row'[p].status \in Terminal
    PROVE  row[p].status \in Terminal \/ (p = pr /\ pc \in Silenced)
<1> DEFINE Stays == row[p].status \in Terminal \/ (p = pr /\ pc \in Silenced)
<1>1. CASE UNCHANGED row
  BY <1>1
<1>2. ASSUME NEW q \in PRs, NEW u, row' = [row EXCEPT ![q] = u],
             u.status \notin Terminal \/ u.status = row[q].status
      PROVE  Stays
  BY <1>2 DEF IInv, TypeOK
<1>3. CASE \E d \in inbox : HandlePush(d)
  <2>1. PICK d \in inbox : HandlePush(d)
    BY <1>3
  <2> DEFINE u == EnqueueOrUpdate(row[d.pr], nextId, clock)
  <2>2. d.pr \in PRs /\ row[d.pr] \in Row /\ nextId \in Nat /\ clock \in Nat
    BY DEF IInv, TypeOK, Delivery
  <2>3. u.status \in Active
    BY <2>2, EnqueueRow
  <2>4. UNCHANGED row \/ row' = [row EXCEPT ![d.pr] = u]
    BY <2>1 DEF HandlePush
  <2> HIDE DEF u
  <2> QED
    BY <1>1, <1>2, <2>2, <2>3, <2>4 DEF Active, Queued, Waiting, Terminal
<1>4. CASE \E q \in PRs : ClaimNextDue(q)
  <2>1. PICK q \in PRs : ClaimNextDue(q)
    BY <1>4
  <2>2. Claim(row[q]).status = "running"
    BY ClaimRow DEF IInv, TypeOK
  <2> QED
    BY <1>2, <2>1, <2>2 DEF ClaimNextDue, Terminal
<1>5. CASE Restart
  BY <1>5, RecoverRow DEF Restart, IInv, TypeOK, Terminal
<1>6. CASE CommentStatement
  BY <1>6, StatementMoves DEF Noted
<1>7. CASE TuningUnavailable
  <2>1. pr \in PRs /\ row[pr] \in Row
    BY <1>7, AtWork DEF TuningUnavailable, Task, Working
  <2>2. DeferRateLimited(row[pr], now + UnconfiguredWait).status = "deferred"
    BY <2>1 DEF DeferRateLimited, Row
  <2> QED
    BY <1>2, <1>7, <2>1, <2>2 DEF TuningUnavailable, DeferTo, Write, Terminal
<1>8. CASE \/ CapReached \/ Blocked \/ RecordRateLimit \/ Finalize \/ DiscardSkipped
           \/ RetryLater \/ MarkTicketFailed \/ NoticeNotPosted
  <2>1. pc \in Silenced
    BY <1>8 DEF CapReached, Blocked, RecordRateLimit, Finalize, DiscardSkipped, Discard,
         RetryLater, MarkTicketFailed, NoticeNotPosted, Task, Silenced, Working
  <2>2. UNCHANGED row \/ \E u : Write(u)
    BY <1>8 DEF CapReached, Blocked, RecordRateLimit, DeferTo, Finalize, DiscardSkipped, Discard,
         RetryLater, MarkTicketFailed, NoticeNotPosted, BackOff
  <2>3. pr \in PRs
    BY <2>1, AtWork DEF Silenced
  <2> QED
    BY <2>1, <2>2, <2>3 DEF Write, IInv, TypeOK
<1>9. CASE \/ UNCHANGED vars \/ World \/ WebhookRaises
           \/ \E s \in stripping : StripCancelled(s)
           \/ NothingDue \/ RefreshConfig \/ StripNotice \/ Proceed
           \/ Reviewed \/ AttemptFails \/ ReviewSkipped \/ ReviewRateLimited
           \/ PostReview \/ PostPlaceholder \/ PostFailureNotice
           \/ SweepRead \/ (\E s \in todo : AppendNotice(s))
           \/ DatabaseFails \/ Crash
  <2>1. UNCHANGED row
    BY <1>9 DEF vars, World, Tick, Push, ClosePR, Happens, DeleteComment, WebhookRaises,
         StripCancelled, NothingDue, RefreshConfig, StripNotice, Proceed, Reviewed,
         AttemptFails, ReviewSkipped, ReviewRateLimited, Attempt, PostReview,
         PostPlaceholder, PostFailureNotice, SweepRead, AppendNotice, DatabaseFails, Crash
  <2> QED
    BY <1>1, <2>1
<1>10. CASE \E d \in inbox : HandleClose(d)
  BY <1>10 DEF HandleClose, Undisturbed
<1> QED
  BY <1>3, <1>4, <1>5, <1>6, <1>7, <1>8, <1>9, <1>10
     DEF Next, Webhooks, Dispatcher, ProcessNextDue, PostPendingNotices, CommentStatement

(* The strip comes first, when the ticket knows of a notice. *)
LEMMA StripMoves ==
    ASSUME NoSlips, [Next]_vars, pc' \in Working
    PROVE  \/ ClaimNextDue(pr') /\ pr' \in PRs
           \/ UNCHANGED <<pr, ticket>> /\ pc = "refresh" /\ pc' \in {"refresh", "strip"}
           \/ RefreshConfig /\ UNCHANGED pr /\ ticket.notice_not_before = Null
           \/ UNCHANGED <<pr, ticket>> /\ pc = "strip" /\ pc' = "strip"
           \/ StripNotice /\ pr' = pr /\ comment' = [comment EXCEPT ![pr] = Strip(comment[pr])]
           \/ UNCHANGED <<pr, ticket>> /\ pc \in Silenced /\ pc' \in Silenced
<1>1. CASE World \/ Webhooks \/ UNCHANGED vars
  <2>1. UNCHANGED <<pc, pr, ticket>>
    BY <1>1 DEF vars, World, Tick, Push, ClosePR, Happens, DeleteComment, Webhooks,
         WebhookRaises, HandlePush, HandleClose, StripCancelled, ClearCancelled, Handler
  <2> QED
    BY <2>1 DEF Silenced
<1>2. CASE PostPendingNotices \/ NothingDue \/ Crash \/ Restart \/ DatabaseFails
  BY <1>2 DEF PostPendingNotices, SweepRead, AppendNotice, RecordAppend, NothingDue, Crash,
       Restart, DatabaseFails, Trouble, NoSlips, NoHalves, Task, EditThen, Rest, Goto, GotoWith,
       Working
<1>3. CASE \E p \in PRs : ClaimNextDue(p)
  BY <1>3 DEF ClaimNextDue
<1>4. CASE RefreshConfig \/ StripNotice
  BY <1>4 DEF RefreshConfig, StripNotice, Trouble, NoSlips, Task, Goto, GotoWith, Silenced,
       Working
<1>5. CASE \/ RecordStrip \/ Proceed \/ Reviewed \/ AttemptFails \/ ReviewSkipped
           \/ ReviewRateLimited \/ PostReview \/ DiscardSkipped
  BY <1>5 DEF RecordStrip, Proceed, Reviewed, AttemptFails, ReviewSkipped, ReviewRateLimited,
       Attempt, PostReview, DiscardSkipped, Discard, Task, EditThen, EndStep, Goto, GotoWith,
       Silenced, Working
<1>6. CASE \/ TuningUnavailable \/ CapReached \/ Blocked \/ RecordRateLimit
           \/ PostPlaceholder \/ SaveCommentId \/ Finalize
  BY <1>6 DEF TuningUnavailable, CapReached, Blocked, RecordRateLimit, DeferTo, PostPlaceholder,
       SaveCommentId, Finalize, Task, EditThen, EndStep, Goto, GotoWith, Working
<1>7. CASE \/ RetryLater \/ PostFailureNotice \/ RecordNotice \/ MarkTicketFailed
           \/ NoticeNotPosted
  BY <1>7 DEF RetryLater, BackOff, PostFailureNotice, RecordNotice, MarkTicketFailed,
       NoticeNotPosted, Task, EditThen, EndStep, Goto, GotoWith, Silenced, Working
<1> QED
  BY <1>1, <1>2, <1>3, <1>4, <1>5, <1>6, <1>7 DEF Next, Dispatcher, ProcessNextDue

(* The sweep announces nothing on a settled ticket: without closes a deferred
   ticket waits for the dispatcher, which sweeps. *)
Awaiting == \A s \in todo : row[s.pr].status \notin Terminal
(* The ticket at hand knows of a notice what its row does. *)
Informed ==
    pc \in {"refresh", "strip"} => ticket.notice_not_before = row[pr].notice_not_before
SettledIsSilent == \A p \in PRs : row[p].status \in Terminal => comment[p].note # "schedule"
WorkIsSilent == pc \in Silenced => comment[pr].note # "schedule"

QInv == Awaiting /\ Informed /\ SettledIsSilent /\ WorkIsSilent

(* Nothing is announced yet. *)
LEMMA InitQInv == Init => QInv
BY DEF Init, QInv, Awaiting, Informed, SettledIsSilent, WorkIsSilent, Silenced, Working, NoRow,
       Terminal, NoComment

(* Each step keeps it. *)
LEMMA QInvStep ==
    ASSUME NoSlips, IInv, BInv, NInv, QInv, [Next]_vars
    PROVE  QInv'
<1>1. /\ NoHalves /\ KeptComments /\ NoCloses
      /\ \A s \in todo : s.pr \in PRs
  BY DEF NoSlips, NoHalves, KeptComments, IInv, TypeOK, Notice
<1>2. Awaiting'
  <2>1. CASE SweepRead
    <3>1. /\ UNCHANGED row
          /\ \A s \in todo' : \E p \in PRs :
                s = [pr |-> p, ticket |-> row[p]] /\ NeedsNotice(row[p], clock)
      BY <2>1 DEF SweepRead
    <3> QED
      BY <3>1 DEF Awaiting, NeedsNotice, Terminal
  <2>2. CASE todo' \subseteq todo
    <3>1. todo # {} => pc \notin Silenced
      BY DEF BInv, Batch, Silenced, Working
    <3> QED
      BY <1>1, <2>2, <3>1, SettledMoves DEF QInv, Awaiting, NInv
  <2> QED
    BY <2>1, <2>2, TodoMoves DEF BInv
<1>3. Informed'
  <2> SUFFICES ASSUME pc' \in {"refresh", "strip"}
               PROVE  ticket'.notice_not_before = row'[pr'].notice_not_before
    BY DEF Informed
  <2>1. CASE ClaimNextDue(pr') /\ pr' \in PRs
    BY <2>1 DEF ClaimNextDue, IInv, TypeOK
  <2>2. CASE pc \in {"refresh", "strip"} /\ UNCHANGED <<pr, ticket>>
    <3>1. pr \in PRs /\ row[pr].status = "running"
      BY <2>2, AtWork DEF Working
    <3>2. row'[pr].notice_not_before = row[pr].notice_not_before
      BY <2>2, <3>1, NoticeMoves DEF NInv, RecordStrip, RecordAppend, Task
    <3> QED
      BY <2>2, <3>2 DEF QInv, Informed
  <2> QED
    BY <2>1, <2>2, StripMoves DEF Working, Silenced, RefreshConfig, StripNotice, Goto, GotoWith,
       Task
<1>4. SettledIsSilent'
  <2> SUFFICES ASSUME NEW p \in PRs, row'[p].status \in Terminal, comment'[p].note = "schedule"
               PROVE  FALSE
    BY DEF SettledIsSilent
  <2>1. CASE comment'[p] = comment[p]
    BY <2>1, SettledMoves DEF QInv, SettledIsSilent, WorkIsSilent, NInv
  <2>2. CASE \E s \in todo : s.pr = p /\ AppendNotice(s)
    BY <2>2 DEF AppendNotice, QInv, Awaiting
  <2> QED
    BY <1>1, <2>1, <2>2, NoteMoves
<1>5. WorkIsSilent'
  <2> SUFFICES ASSUME pc' \in Silenced, comment'[pr'].note = "schedule" PROVE FALSE
    BY DEF WorkIsSilent
  <2>1. CASE RefreshConfig /\ UNCHANGED pr /\ ticket.notice_not_before = Null
    <3>1. pr \in PRs /\ pc = "refresh" /\ UNCHANGED comment
      BY <2>1, AtWork DEF RefreshConfig, Task, Working
    <3>2. row[pr].notice_not_before = Null
      BY <2>1, <3>1 DEF QInv, Informed
    <3> QED
      BY <2>1, <3>1, <3>2 DEF NInv, NoticeTracked
  <2>2. CASE StripNotice /\ pr' = pr /\ comment' = [comment EXCEPT ![pr] = Strip(comment[pr])]
    <3>1. pr \in PRs /\ comment[pr] \in Comment
      BY <2>2, AtWork DEF StripNotice, Task, Working, IInv, TypeOK
    <3> QED
      BY <2>2, <3>1 DEF Strip, Comment, IInv, TypeOK
  <2>3. CASE UNCHANGED pr /\ pc \in Silenced
    <3>1. pr \in PRs
      BY <2>3, AtWork DEF Silenced
    <3>2. comment'[pr] = comment[pr]
      BY <1>1, <2>3, <3>1, NoteMoves DEF Silenced, Working
    <3> QED
      BY <2>3, <3>2 DEF QInv, WorkIsSilent
  <2> QED
    BY <2>1, <2>2, <2>3, StripMoves DEF Silenced, ClaimNextDue
<1> QED
  BY <1>2, <1>3, <1>4, <1>5 DEF QInv

(* A settled ticket's comment announces no re-review, in any state of the
   queue: what a sweep appended the next claim strips, before anything can
   settle the ticket. *)
THEOREM SettledSaysNothing == ASSUME NoSlips PROVE Spec => []NoStaleNotice
<1>1. IInv /\ BInv /\ NInv /\ QInv /\ [Next]_vars => QInv'
  BY QInvStep
<1>2. QInv => NoStaleNotice
  BY DEF QInv, SettledIsSilent, NoStaleNotice
<1>3. NoHalves /\ KeptComments
  BY DEF NoSlips, NoHalves, KeptComments
<1>4. Spec => []BInv /\ []NInv
  BY <1>3, CommentsAreFound, NoticeInvariance
<1> QED
  BY <1>1, <1>2, <1>4, InitQInv, Invariance, PTL DEF Spec

=============================================================================
