---------------------------- MODULE ReviewQueue ----------------------------
(***************************************************************************)
(* The durable review queue at work: GitHub sends webhooks, the webhook    *)
(* handlers write the `tickets' table, the one dispatcher task claims a    *)
(* ticket at a time, reviews the pull request and edits the bot's comment, *)
(* and after every step sweeps the waiting tickets to post a schedule      *)
(* notice on their comments.  All of it in one process that may crash and  *)
(* boot again (main.py, webhook.py, review_queue/dispatcher.py,            *)
(* orchestrator.py, github_app.py over review_queue/store.py).             *)
(*                                                                         *)
(* One action is one statement to the database or one call to GitHub: the  *)
(* code awaits each (asyncio.to_thread), so anything may happen between    *)
(* two of them.  Consecutive writes by one task to the bookkeeping columns *)
(* of one row (comment_id, last_reviewed_at, notice_not_before) that       *)
(* nothing awaits GitHub between are one action.                           *)
(*                                                                         *)
(* Every unkindness of the outside world (a 429, a failed call, a crash, a *)
(* deleted comment...) is a "trouble"; Troubles says which kinds occur and *)
(* MaxTroubles how many in all.                                            *)
(***************************************************************************)
EXTENDS Tickets, FiniteSets

CONSTANTS
    PRs,                 \* the pull requests
    NoPR,                \* "the dispatcher holds no ticket"
    MaxFailures,         \* dispatcher_max_failure_attempts
    MaxNoticePosts,      \* dispatcher_max_notice_post_attempts
    BackoffBase,         \* dispatcher_failure_base_backoff_seconds
    BackoffCap,          \* dispatcher_failure_max_backoff_seconds
    MaxJitter,           \* dispatcher_backoff_jitter_seconds
    MinRetryAfter,       \* dispatcher_min_retry_after_seconds
    NoticeBatch,         \* dispatcher_notice_sweep_batch_size
    UnconfiguredWait,    \* _UNCONFIGURED_DEFER_SECONDS
    RetryAfters,         \* the Retry-After values a provider answers with
    CapWaits,            \* how far away the reset of the usage cap may be
    Troubles,            \* the kinds of trouble that occur
    MaxTroubles,         \* bound: how many of them in a behaviour
    MaxEvents,           \* bound: how often pull requests change
    Closable,            \* bound: the pull requests that may be closed
    Horizon              \* bound: the clock needs a waiting ticket to pass it

TroubleKinds ==
    { "limited", "failed", "skipped", "capped", "tuning", "cooldown", "github",
      "database", "deleted", "crash" }

(* dispatcher_tuning_config._BOUNDS, and the finiteness of what TLC draws
   from.  The powers of two are naturals, which the provers do not know. *)
ASSUME QueueAssumption ==
    /\ IsFiniteSet(PRs) /\ NoPR \notin PRs
    /\ MaxFailures \in Nat \ {0}
    /\ MaxNoticePosts \in Nat \ {0}
    /\ BackoffBase \in Nat
    /\ BackoffCap \in Nat \ {0}
    /\ MaxJitter \in Nat
    /\ MinRetryAfter \in Nat
    /\ NoticeBatch \in Nat \ {0}
    /\ UnconfiguredWait \in Nat
    /\ RetryAfters \subseteq Nat
    /\ CapWaits \subseteq Nat
    /\ Troubles \subseteq TroubleKinds /\ Closable \subseteq PRs
    /\ MaxTroubles \in Nat /\ MaxEvents \in Nat /\ Horizon \in Nat
    /\ \A n \in 0..(MaxFailures + MaxNoticePosts) : 2 ^ n \in Nat

VARIABLES
    clock,            \* wall clock
    \* Postgres
    row,              \* [PRs -> Row], the tickets table
    nextId,           \* its serial
    \* GitHub
    open,             \* [PRs -> BOOLEAN], the pull request is open
    comment,          \* [PRs -> Comment], the bot's comment on it
    nextComment,      \* the next comment id
    inbox,            \* webhook deliveries the process has not handled yet
    \* the process: memory that a crash loses
    blocked_until,    \* _blocked_until of the active provider, 0 for none
    cooldown_cached,  \* cooldown_config holds a usable triple
    stripping,        \* close handlers that have yet to strip a notice
    \* the dispatcher task
    pc,               \* the await it is at
    pr, ticket, now,  \* process_next_due's ticket (as claimed) and `now'
    retry_after,      \* outcome.retry_after
    posted,           \* id of the comment the last GitHub call returned
    todo,             \* the sweep's tickets still to do
    \* bounds
    events, troubles,
    \* history, read by properties only
    pushes,           \* [PRs -> Nat], pushes handled
    inactive,         \* [PRs -> BOOLEAN], a close was handled and no push since
    claimed,          \* [PRs -> Nat], `pushes' when the ticket was last claimed
    reviewed          \* [PRs -> Nat], those the last completed review covers

clockVars == <<clock>>
dbVars == <<row, nextId>>
githubVars == <<open, comment, nextComment, inbox>>
memoryVars == <<blocked_until, cooldown_cached, stripping>>
ticketVars == <<pr, ticket, now, retry_after>>
taskVars == <<pc, ticketVars, posted, todo>>
boundVars == <<events, troubles>>
arrivalVars == <<pushes, inactive>>
servedVars == <<claimed, reviewed>>
historyVars == <<arrivalVars, servedVars>>
vars == <<clockVars, dbVars, githubVars, memoryVars, taskVars, boundVars, historyVars>>

-----------------------------------------------------------------------------
(* The bot's comment: whose text it carries, and the trailing footnote.    *)
(* _find_bot_comment finds it by id or by marker and only the dispatcher   *)
(* creates one, after looking for it: there is one at most.  A "bare"      *)
(* comment is one that a footnote alone created.                           *)

Bodies == {"none", "review", "placeholder", "failure", "bare"}
Notes == {"none", "failure", "schedule"}
Comment == [id : Nat \cup {Null}, body : Bodies, note : Notes]
NoComment == [id |-> Null, body |-> "none", note |-> "none"]

Exists(c) == c.id # Null

(* upsert_comment overwrites the whole body, footnote included. *)
Upsert(c, body) ==
    [id |-> IF Exists(c) THEN c.id ELSE nextComment, body |-> body, note |-> "none"]

(* append_review_footnote and append_schedule_notice replace a trailing
   footnote of either kind, and create a bare comment if there is none. *)
Append(c, note) ==
    IF Exists(c) THEN [c EXCEPT !.note = note]
    ELSE [id |-> nextComment, body |-> "bare", note |-> note]

(* clear_schedule_notice strips a trailing footnote of either kind. *)
Strip(c) == [c EXCEPT !.note = "none"]

-----------------------------------------------------------------------------
Delivery == [pr : PRs, kind : {"push", "close"}, n : Nat]
Stripping == [pr : PRs, id : Nat, done : BOOLEAN]
Notice == [pr : PRs, ticket : Row]

(* The awaits of process_next_due that hold a ticket still `running'... *)
Working == { "refresh", "strip", "stripped", "gate", "attempt", "post",
             "finalize", "limited", "failure", "noticed", "unnotified",
             "markFailed", "delete", "rearm", "revert" }
(* ...those after the ticket was deferred... *)
Deferred == {"placeholder", "saveId"}
(* ...and the rest of run_forever's loop. *)
Between == {"claim", "sweep", "sweeping", "appended", "down"}

TypeOK ==
    /\ clock \in Nat
    /\ row \in [PRs -> Row] /\ nextId \in Nat
    /\ open \in [PRs -> BOOLEAN]
    /\ comment \in [PRs -> Comment] /\ nextComment \in Nat
    /\ inbox \subseteq Delivery
    /\ blocked_until \in Nat /\ cooldown_cached \in BOOLEAN
    /\ stripping \subseteq Stripping
    /\ pc \in Working \cup Deferred \cup Between
    /\ pr \in PRs \cup {NoPR} /\ ticket \in Row /\ now \in Nat
    /\ retry_after \in Nat
    /\ posted \in Nat \cup {Null}
    /\ todo \subseteq Notice
    /\ events \in Nat /\ troubles \in Nat
    /\ pushes \in [PRs -> Nat] /\ inactive \in [PRs -> BOOLEAN]
    /\ claimed \in [PRs -> Nat] /\ reviewed \in [PRs -> Nat]

(* A process that has just booted on an empty database (main.lifespan). *)
Init ==
    /\ clock = 0
    /\ row = [p \in PRs |-> NoRow] /\ nextId = 1
    /\ open = [p \in PRs |-> FALSE]
    /\ comment = [p \in PRs |-> NoComment] /\ nextComment = 1
    /\ inbox = {}
    /\ blocked_until = 0 /\ cooldown_cached = FALSE /\ stripping = {}
    /\ pc = "claim" /\ pr = NoPR /\ ticket = NoRow /\ now = 0
    /\ retry_after = 0 /\ posted = Null /\ todo = {}
    /\ events = 0 /\ troubles = 0
    /\ pushes = [p \in PRs |-> 0] /\ inactive = [p \in PRs |-> FALSE]
    /\ claimed = [p \in PRs |-> 0] /\ reviewed = [p \in PRs |-> 0]

-----------------------------------------------------------------------------
(* Building blocks *)

Fine == UNCHANGED troubles

Trouble(kind) ==
    /\ kind \in Troubles /\ troubles < MaxTroubles
    /\ troubles' = troubles + 1

(* On to the next await, with the id the last GitHub call returned. *)
GotoWith(label, found) ==
    pc' = label /\ posted' = found /\ UNCHANGED ticketVars
Goto(label) == GotoWith(label, posted)

ForgetTicket ==
    pr' = NoPR /\ ticket' = NoRow /\ now' = 0 /\ retry_after' = 0 /\ posted' = Null

(* process_next_due returns or raises; run_forever goes on to the sweep. *)
EndStep == pc' = "sweep" /\ ForgetTicket

(* One successful call that edits or creates the comment of p. *)
EditThen(label, p, new) ==
    /\ comment' = [comment EXCEPT ![p] = new]
    /\ nextComment' = nextComment + (IF Exists(comment[p]) THEN 0 ELSE 1)
    /\ UNCHANGED <<open, inbox>>
    /\ GotoWith(label, new.id)

(* UPDATE tickets ... WHERE id = ticket.id *)
Write(new) == row' = [row EXCEPT ![pr] = new] /\ UNCHANGED nextId

(* A deferral, followed by a placeholder unless a good review is visible,
   which the code asks of the ticket as it was when claimed. *)
DeferTo(new) ==
    /\ Write(new)
    /\ IF HasVisibleReview(ticket) THEN EndStep ELSE Goto("placeholder")

Task(label) == pc = label /\ UNCHANGED <<clockVars, events, arrivalVars>>

next_attempt == ticket.attempts + 1

(* Mutant: the hard-stop attempt is not counted as the first try. *)
generous_ceiling == MaxFailures + MaxNoticePosts - 1

notice_post_ceiling == MaxFailures + MaxNoticePosts - 2

compute_backoff(n) == Least(BackoffBase * 2 ^ (n - 1), BackoffCap)

(* now + compute_backoff(next_attempt, _jitter()) *)
BackoffEnds == {now + compute_backoff(next_attempt) + j : j \in 0..MaxJitter}

-----------------------------------------------------------------------------
(* The world: pull requests are opened, pushed to, closed and reopened, and *)
(* GitHub sends a delivery each time.  Deliveries are handled concurrently  *)
(* (a push handler awaits its reaction before it enqueues), so inbox is a   *)
(* set and any delivery may come first.                                     *)

Happens(p, kind) ==
    /\ events < MaxEvents /\ events' = events + 1
    /\ inbox' = inbox \cup {[pr |-> p, kind |-> kind, n |-> events]}
    /\ UNCHANGED <<clockVars, dbVars, comment, nextComment, memoryVars,
                   taskVars, troubles, historyVars>>

(* opened, reopened, or (when it is open already) synchronize *)
Push(p) == open' = [open EXCEPT ![p] = TRUE] /\ Happens(p, "push")

ClosePR(p) ==
    /\ p \in Closable /\ open[p] /\ open' = [open EXCEPT ![p] = FALSE]
    /\ Happens(p, "close")

(* A person deletes the bot's comment. *)
DeleteComment(p) ==
    /\ Exists(comment[p]) /\ Trouble("deleted")
    /\ comment' = [comment EXCEPT ![p] = NoComment]
    /\ UNCHANGED <<clockVars, dbVars, open, nextComment, inbox, memoryVars,
                   taskVars, events, historyVars>>

Awaited ==
    \E p \in PRs : row[p].status \in Waiting /\ row[p].not_before > clock

Tick ==
    /\ clock < Horizon \/ Awaited
    /\ clock' = clock + 1
    /\ UNCHANGED <<dbVars, githubVars, memoryVars, taskVars, boundVars,
                   historyVars>>

-----------------------------------------------------------------------------
(* The webhook handlers *)

Handler ==
    /\ pc # "down"
    /\ UNCHANGED <<clockVars, taskVars, open, blocked_until, cooldown_cached,
                   events>>

Took(d) == inbox' = inbox \ {d} /\ UNCHANGED <<comment, nextComment>>

(* For the history: a push to p has been handled. *)
Arrives(p) ==
    /\ pushes' = [pushes EXCEPT ![p] = @ + 1]
    /\ inactive' = [inactive EXCEPT ![p] = FALSE]

(* enqueue_or_update's transaction.  With no cooldown configuration in
   memory the re-arm of a reviewed ticket raises instead: the delivery is
   answered 500 and nothing is written. *)
HandlePush(d) ==
    /\ Handler /\ Fine
    /\ d.kind = "push" /\ Took(d)
    /\ Arrives(d.pr)
    /\ IF NeedsCooldown(row[d.pr]) /\ ~cooldown_cached
       THEN UNCHANGED dbVars
       ELSE /\ row' = [row EXCEPT ![d.pr] = EnqueueOrUpdate(@, nextId, clock)]
            /\ nextId' = nextId + (IF row[d.pr].status = "none" THEN 1 ELSE 0)
    /\ UNCHANGED <<stripping, servedVars>>

HandleClose(d) ==
    /\ Handler /\ Fine
    /\ d.kind = "close" /\ Took(d)
    /\ row' = [row EXCEPT ![d.pr] = CancelTicket(@)]
    /\ stripping' = stripping \cup
          { s \in {[pr |-> d.pr, id |-> row[d.pr].id, done |-> FALSE]} :
              row[d.pr].status \in Queued /\ row[d.pr].notice_not_before # Null }
    /\ inactive' = [inactive EXCEPT ![d.pr] = TRUE]
    /\ UNCHANGED <<nextId, pushes, servedVars>>

(* The close handler's clear_schedule_notice... *)
StripCancelled(s) ==
    /\ Handler /\ ~s.done
    /\ \/ /\ Fine
          /\ comment' = [comment EXCEPT ![s.pr] = Strip(@)]
          /\ stripping' = (stripping \ {s}) \cup {[s EXCEPT !.done = TRUE]}
       \/ /\ Trouble("github")
          /\ stripping' = stripping \ {s}
          /\ UNCHANGED comment
    /\ UNCHANGED <<dbVars, nextComment, inbox, historyVars>>

(* ...and its clear_notice, by ticket id. *)
ClearCancelled(s) ==
    /\ Handler /\ Fine /\ s.done
    /\ stripping' = stripping \ {s}
    /\ row' = [row EXCEPT ![s.pr] = IF @.id = s.id THEN ClearNotice(@) ELSE @]
    /\ UNCHANGED <<nextId, comment, nextComment, inbox, historyVars>>

-----------------------------------------------------------------------------
(* process_next_due: claim, refresh the configuration, strip the notice *)

Due == {p \in PRs : IsDue(row[p], clock)}

ClaimNextDue(p) ==
    /\ Task("claim") /\ Fine
    /\ p \in Due /\ \A q \in Due : row[p].id <= row[q].id
    /\ row' = [row EXCEPT ![p] = Claim(@)]
    /\ pr' = p /\ ticket' = Claim(row[p]) /\ now' = clock /\ retry_after' = 0
    /\ pc' = "refresh" /\ posted' = Null
    /\ claimed' = [claimed EXCEPT ![p] = pushes[p]]
    /\ UNCHANGED <<nextId, githubVars, memoryVars, todo, reviewed>>

NothingDue ==
    /\ Task("claim") /\ Fine /\ Due = {}
    /\ Goto("sweep")
    /\ UNCHANGED <<dbVars, githubVars, memoryVars, todo, servedVars>>

(* Mutant: the claim does not strip the schedule notice. *)
RefreshAndLeaveNotice ==
    /\ Task("refresh")
    /\ \/ Fine /\ cooldown_cached' = TRUE
       \/ Trouble("cooldown") /\ cooldown_cached' = FALSE
    /\ Goto("gate")
    /\ UNCHANGED <<dbVars, githubVars, blocked_until, stripping, todo,
                   servedVars>>

RefreshConfig ==
    /\ Task("refresh")
    /\ \/ Fine /\ cooldown_cached' = TRUE
       \/ Trouble("cooldown") /\ cooldown_cached' = FALSE
    /\ Goto(IF ticket.notice_not_before # Null THEN "strip" ELSE "gate")
    /\ UNCHANGED <<dbVars, githubVars, blocked_until, stripping, todo,
                   servedVars>>

(* TuningConfigUnavailable *)
TuningUnavailable ==
    /\ Task("refresh") /\ Trouble("tuning")
    /\ DeferTo(DeferRateLimited(row[pr], now + UnconfiguredWait))
    /\ cooldown_cached' = TRUE
    /\ UNCHANGED <<githubVars, blocked_until, stripping, todo, servedVars>>

StripNotice ==
    /\ Task("strip")
    /\ \/ /\ Fine
          /\ comment' = [comment EXCEPT ![pr] = Strip(@)]
          /\ GotoWith("stripped", comment[pr].id)
       \/ /\ Trouble("github")
          /\ Goto("gate")
          /\ UNCHANGED comment
    /\ UNCHANGED <<dbVars, open, nextComment, inbox, memoryVars, todo, servedVars>>

(* What a call returned goes into the row: the id found, and the loss of the
   review that the comment on file carried. *)
Recorded(t, found) ==
    LET t1 == SetCommentId(t, found)
    IN  IF CommentLost(ticket, found) THEN ClearVisibleReview(t1) ELSE t1

RecordStrip ==
    /\ Task("stripped") /\ Fine
    /\ Write(ClearNotice(Recorded(row[pr], posted)))
    /\ Goto("gate")
    /\ UNCHANGED <<githubVars, memoryVars, todo, servedVars>>

-----------------------------------------------------------------------------
(* The two gates before a review *)

CapReached ==
    /\ Task("gate") /\ Trouble("capped")
    /\ \E w \in CapWaits : DeferTo(DeferUsageCapped(row[pr], now + w))
    /\ UNCHANGED <<githubVars, memoryVars, todo, servedVars>>

Blocked ==
    /\ Task("gate") /\ Fine
    /\ now < blocked_until
    /\ DeferTo(DeferRateLimited(row[pr], blocked_until))
    /\ UNCHANGED <<githubVars, memoryVars, todo, servedVars>>

Proceed ==
    /\ Task("gate") /\ Fine
    /\ now >= blocked_until
    /\ Goto("attempt")
    /\ UNCHANGED <<dbVars, githubVars, memoryVars, todo, servedVars>>

-----------------------------------------------------------------------------
(* attempt_review, by its outcome, and what the dispatcher makes of it *)

Attempt == Task("attempt") /\ UNCHANGED <<dbVars, githubVars, todo, servedVars>>

(* One specialist at least has a result to show. *)
Reviewed == Attempt /\ Fine /\ Goto("post") /\ UNCHANGED memoryVars

(* The diff cannot be fetched, or all three specialists failed. *)
AttemptFails ==
    /\ Attempt /\ Trouble("failed")
    /\ Goto("failure") /\ UNCHANGED memoryVars

(* An empty diff, or a draft. *)
ReviewSkipped ==
    /\ Attempt /\ Trouble("skipped")
    /\ Goto("delete") /\ UNCHANGED memoryVars

(* The wait counts from `now', the instant of the claim. *)
ReviewRateLimited ==
    /\ Attempt /\ Trouble("limited")
    /\ \E r \in RetryAfters :
          /\ retry_after' = Greatest(r, MinRetryAfter)
          /\ blocked_until' = now + Greatest(r, MinRetryAfter)
    /\ pc' = "limited"
    /\ UNCHANGED <<pr, ticket, now, posted, cooldown_cached, stripping>>

RecordRateLimit ==
    /\ Task("limited") /\ Fine
    /\ DeferTo(DeferRateLimited(row[pr], now + retry_after))
    /\ UNCHANGED <<githubVars, memoryVars, todo, servedVars>>

PostReview ==
    /\ Task("post")
    /\ \/ /\ Fine
          /\ EditThen("finalize", pr, Upsert(comment[pr], "review"))
       \/ /\ Trouble("github")
          /\ Goto("failure")
          /\ UNCHANGED githubVars
    /\ UNCHANGED <<dbVars, memoryVars, todo, servedVars>>

(* effective_cooldown raises when no configuration is in memory, and the
   ticket stays `running'. *)
Finalize ==
    /\ Task("finalize") /\ Fine
    /\ IF cooldown_cached
       THEN /\ Write(FinalizeReview(row[pr], now,
                         now + effective_cooldown(ticket.cooldown_level),
                         next_cooldown_level(ticket.cooldown_level), posted))
            /\ reviewed' = [reviewed EXCEPT ![pr] = claimed[pr]]
       ELSE UNCHANGED <<dbVars, reviewed>>
    /\ EndStep
    /\ UNCHANGED <<githubVars, memoryVars, todo, claimed>>

(* discard_skipped_ticket: one transaction of three statements.  A WHERE
   that matches nothing locks nothing, so under READ COMMITTED a push may
   commit between two of them. *)
Discard(label, matches, new, otherwise) ==
    /\ Task(label) /\ Fine
    /\ IF matches
       THEN Write(new) /\ EndStep
       ELSE UNCHANGED dbVars /\ IF otherwise = "sweep" THEN EndStep ELSE Goto(otherwise)
    /\ UNCHANGED <<githubVars, memoryVars, todo, servedVars>>

DiscardSkipped ==
    \/ Discard("delete", DiscardDeletes(row[pr]), NoRow, "rearm")
    \/ Discard("rearm", DiscardRearms(row[pr]), DiscardRearm(row[pr]), "revert")
    \/ Discard("revert", DiscardReverts(row[pr]), DiscardRevert(row[pr]), "sweep")

-----------------------------------------------------------------------------
(* A deferred ticket's placeholder *)

PostPlaceholder ==
    /\ Task("placeholder")
    /\ \/ /\ Fine
          /\ EditThen("saveId", pr, Upsert(comment[pr], "placeholder"))
       \/ /\ Trouble("github")
          /\ EndStep
          /\ UNCHANGED githubVars
    /\ UNCHANGED <<dbVars, memoryVars, todo, servedVars>>

SaveCommentId ==
    /\ Task("saveId") /\ Fine
    /\ Write(SetCommentId(row[pr], posted))
    /\ EndStep
    /\ UNCHANGED <<githubVars, memoryVars, todo, servedVars>>

-----------------------------------------------------------------------------
(* Hard failures: back off, then post the notice and stop *)

BackOff ==
    /\ \E until \in BackoffEnds : Write(DeferFailed(row[pr], until))
    /\ EndStep

RetryLater ==
    /\ Task("failure") /\ Fine
    /\ next_attempt < MaxFailures
    /\ BackOff
    /\ UNCHANGED <<githubVars, memoryVars, todo, servedVars>>

(* Mutant: a good review is preserved by saying nothing. *)
PostNoticeUnlessReviewed ==
    /\ Task("failure")
    /\ next_attempt >= MaxFailures
    /\ \/ /\ Fine
          /\ IF HasVisibleReview(ticket)
             THEN UNCHANGED githubVars /\ Goto("markFailed")
             ELSE EditThen("noticed", pr, Upsert(comment[pr], "failure"))
       \/ /\ Trouble("github")
          /\ Goto("unnotified")
          /\ UNCHANGED githubVars
    /\ UNCHANGED <<dbVars, memoryVars, todo, servedVars>>

PostFailureNotice ==
    /\ Task("failure")
    /\ next_attempt >= MaxFailures
    /\ \/ /\ Fine
          /\ EditThen("noticed", pr,
                 IF HasVisibleReview(ticket) THEN Append(comment[pr], "failure")
                                             ELSE Upsert(comment[pr], "failure"))
       \/ /\ Trouble("github")
          /\ Goto("unnotified")
          /\ UNCHANGED githubVars
    /\ UNCHANGED <<dbVars, memoryVars, todo, servedVars>>

RecordNotice ==
    /\ Task("noticed") /\ Fine
    /\ Write(IF HasVisibleReview(ticket) THEN Recorded(row[pr], posted)
                                         ELSE SetCommentId(row[pr], posted))
    /\ Goto("markFailed")
    /\ UNCHANGED <<githubVars, memoryVars, todo, servedVars>>

MarkTicketFailed ==
    /\ Task("markFailed") /\ Fine
    /\ Write(MarkFailed(row[pr])) /\ EndStep
    /\ UNCHANGED <<githubVars, memoryVars, todo, servedVars>>

NoticeNotPosted ==
    /\ Task("unnotified") /\ Fine
    /\ IF next_attempt > notice_post_ceiling
       THEN Write(MarkFailed(row[pr])) /\ EndStep
       ELSE BackOff
    /\ UNCHANGED <<githubVars, memoryVars, todo, servedVars>>

-----------------------------------------------------------------------------
(* post_pending_notices: read a batch, then edit one comment after another *)

NextNotice(s) == s \in todo /\ \A u \in todo : s.ticket.id <= u.ticket.id

Rest(s) ==
    /\ todo' = todo \ {s}
    /\ GotoWith(IF todo = {s} THEN "claim" ELSE "sweeping", Null)

SweepRead ==
    /\ Task("sweep") /\ Fine
    /\ LET needing == {p \in PRs : NeedsNotice(row[p], clock)}
           older(p) == {q \in needing : row[q].id < row[p].id}
           batch == {p \in needing : Cardinality(older(p)) < NoticeBatch}
       IN  /\ todo' = {[pr |-> p, ticket |-> row[p]] : p \in batch}
           /\ Goto(IF batch = {} THEN "claim" ELSE "sweeping")
    /\ UNCHANGED <<dbVars, githubVars, memoryVars, servedVars>>

AppendNotice(s) ==
    /\ Task("sweeping") /\ NextNotice(s)
    /\ \/ /\ Fine
          /\ EditThen("appended", s.pr, Append(comment[s.pr], "schedule"))
          /\ UNCHANGED todo
       \/ /\ Trouble("github")
          /\ Rest(s)
          /\ UNCHANGED githubVars
    /\ UNCHANGED <<dbVars, memoryVars, servedVars>>

RecordAppend(s) ==
    /\ Task("appended") /\ Fine /\ NextNotice(s)
    /\ row' = [row EXCEPT ![s.pr] =
          LET t == SetCommentId(@, posted)
              u == IF CommentLost(s.ticket, posted) THEN ClearVisibleReview(t) ELSE t
          IN  IF @.id = s.ticket.id
              THEN MarkNoticePosted(u, s.ticket.not_before) ELSE @]
    /\ Rest(s)
    /\ UNCHANGED <<nextId, githubVars, memoryVars, servedVars>>

-----------------------------------------------------------------------------
(* A statement raises: the handlers that catch it go on, the rest leave     *)
(* process_next_due (or the sweep) to run_forever, the row as it was.       *)

DatabaseFails ==
    /\ UNCHANGED <<clockVars, events, arrivalVars>>
    /\ Trouble("database")
    /\ \/ pc = "appended" /\ \E s \in todo : NextNotice(s) /\ Rest(s)
       \/ /\ UNCHANGED todo
          /\ \/ pc = "stripped" /\ Goto("gate")
             \/ pc = "noticed" /\ Goto("unnotified")
             \/ pc = "sweep" /\ Goto("claim")
             \/ /\ pc \in {"claim", "refresh", "gate", "limited", "finalize", "delete",
                           "rearm", "revert", "saveId", "failure", "markFailed",
                           "unnotified"}
                /\ pc = "gate" => now < blocked_until
                /\ pc = "failure" => next_attempt < MaxFailures
                /\ EndStep
    /\ UNCHANGED <<dbVars, githubVars, memoryVars, servedVars>>

(* Likewise in a webhook handler: the delivery is answered 500 and GitHub does
   not send it again by itself; a clear_notice is given up. *)
WebhookRaises ==
    /\ Handler /\ Trouble("database")
    /\ \/ /\ \E d \in inbox :
                /\ Took(d)
                /\ IF d.kind = "push" THEN Arrives(d.pr) ELSE UNCHANGED arrivalVars
          /\ UNCHANGED stripping
       \/ /\ \E s \in stripping : s.done /\ stripping' = stripping \ {s}
          /\ UNCHANGED <<inbox, comment, nextComment, arrivalVars>>
    /\ UNCHANGED <<dbVars, servedVars>>

(* The process dies: a redeploy, an OOM kill, or os._exit when the GitHub
   App installation is gone. *)
Crash ==
    /\ pc # "down" /\ Trouble("crash")
    /\ pc' = "down" /\ ForgetTicket /\ todo' = {}
    /\ blocked_until' = 0 /\ cooldown_cached' = FALSE /\ stripping' = {}
    /\ UNCHANGED <<clockVars, dbVars, githubVars, events, historyVars>>

(* lifespan: recover_on_startup, then the dispatcher task. *)
Restart ==
    /\ Task("down") /\ Fine
    /\ row' = [p \in PRs |-> RecoverOnStartup(row[p])]
    /\ Goto("claim")
    /\ UNCHANGED <<nextId, githubVars, memoryVars, todo, servedVars>>

-----------------------------------------------------------------------------
World == Tick \/ \E p \in PRs : Push(p) \/ ClosePR(p) \/ DeleteComment(p)

Webhooks ==
    \/ WebhookRaises
    \/ \E d \in inbox : HandlePush(d) \/ HandleClose(d)
    \/ \E s \in stripping : StripCancelled(s) \/ ClearCancelled(s)

ProcessNextDue ==
    \/ \E p \in PRs : ClaimNextDue(p)
    \/ NothingDue \/ RefreshConfig \/ TuningUnavailable
    \/ StripNotice \/ RecordStrip
    \/ CapReached \/ Blocked \/ Proceed
    \/ Reviewed \/ AttemptFails \/ ReviewSkipped \/ ReviewRateLimited
    \/ RecordRateLimit \/ PostReview \/ Finalize \/ DiscardSkipped
    \/ PostPlaceholder \/ SaveCommentId
    \/ RetryLater \/ PostFailureNotice \/ RecordNotice \/ MarkTicketFailed
    \/ NoticeNotPosted

PostPendingNotices ==
    SweepRead \/ \E s \in todo : AppendNotice(s) \/ RecordAppend(s)

Dispatcher == ProcessNextDue \/ PostPendingNotices

Next == World \/ Webhooks \/ Dispatcher \/ DatabaseFails \/ Crash \/ Restart

Spec == Init /\ [][Next]_vars

(* The event loop runs every task that is ready, the host restarts a dead
   process, and a wait passes. *)
FairSpec ==
    /\ Spec
    /\ WF_vars(Dispatcher) /\ WF_vars(Webhooks) /\ WF_vars(Restart)
    /\ WF_vars(Awaited /\ Tick)

-----------------------------------------------------------------------------
(* Properties *)

(* A row is `running' only while the dispatcher works on that very ticket, or
   from a crash to recover_on_startup: no other way out of process_next_due
   leaves one behind, which claim_next_due would never pick up again.  (A
   statement that raises, or a cooldown read that failed, does strand one:
   the runs that check this leave these two troubles out.) *)
RunningIsOwned ==
    \A p \in PRs : row[p].status = "running" =>
        pc = "down" \/ (pr = p /\ pc \in Working)

(* The row the dispatcher works on stays `running' under its feet whatever
   the webhook handlers do meanwhile, with the attempts of the snapshot that
   every retry decision is taken from. *)
WorkIsRunning ==
    pc \in Working =>
        /\ pr \in PRs
        /\ row[pr].status = "running"
        /\ row[pr].id = ticket.id
        /\ row[pr].attempts = ticket.attempts

(* The ceiling of the retry loop, notice_post_ceiling included: a ticket is
   terminal after dispatcher_max_failure_attempts failures, of which the last
   is repeated at most dispatcher_max_notice_post_attempts - 1 times because
   its notice could not be posted. *)
AttemptsBounded ==
    \A p \in PRs : row[p].attempts <= MaxFailures + MaxNoticePosts - 2

(* Two reviews of a PR are a cooldown apart: whatever deferrals, retries,
   closes, reopens, skips and crashes lie between, no ticket can be claimed
   until cooldown_base_seconds after the last review it was finalized for. *)
CooldownRespected ==
    \A p \in PRs :
        /\ row[p].status \in {"pending", "running", "retrying"} =>
              CooldownElapsed(row[p], clock)
        /\ row[p].status = "deferred" => CooldownElapsed(row[p], row[p].not_before)

(* No push is lost (store.py's "it must not be lost"): a ticket is not
   settled, nor deleted, while a push was handled that no claim followed. *)
NoLostPush ==
    \A p \in PRs : row[p].status \in {"none", "done", "failed"} => claimed[p] = pushes[p]

(* No review is spent on nothing: whenever the dispatcher is about to review
   a PR, a push was handled that no completed review covers.  A dirty flag
   that outlived its attempt would re-arm a ticket for no push at all. *)
NoSpuriousReview ==
    pc \in {"attempt", "post", "finalize"} => claimed[pr] > reviewed[pr]

(* A good review is never overwritten by a placeholder or a bare failure
   notice (dispatcher.py's "UNLESS a good review is already visible"). *)
GoodReviewKept ==
    [][\A p \in PRs :
          comment[p].body = "review" /\ comment'[p].id = comment[p].id =>
              comment'[p].body = "review"]_vars

(* A schedule notice on a comment is known to its row (notice_not_before), so
   that the next claim strips it, unless the sweep is about to record it. *)
NoticeTracked ==
    \A p \in PRs :
        comment[p].note = "schedule" =>
            \/ row[p].notice_not_before # Null
            \/ pc = "appended" /\ \E s \in todo : s.pr = p /\ NextNotice(s)

(* The comment of a settled ticket announces no re-review. *)
NoStaleNotice ==
    \A p \in PRs :
        row[p].status \in Terminal /\ pc = "claim" /\ stripping = {} =>
            comment[p].note # "schedule"

(* The comment tells of a failure, by its body or by its footnote. *)
SaysSo(c) == c.body = "failure" \/ c.note = "failure"

(* The notice was posted, or should have been: not every retry of posting it
   was spent, which the row's attempts tell. *)
GivenUp(p) ==
    /\ row[p].status = "failed" \/ (pr = p /\ pc \in {"noticed", "markFailed"})
    /\ row[p].attempts < MaxFailures + MaxNoticePosts - 2

(* Giving up is visible: no ticket becomes failed without a comment that says
   so, and that comment goes on saying so until the next push.  The one step
   that takes the notice away is that of a close handler that strips late: it
   removes whichever footnote is trailing. *)
FailureIsVisible ==
    [][\A p \in PRs :
          GivenUp(p)' /\ (GivenUp(p) => SaysSo(comment[p])) =>
              \/ SaysSo(comment'[p])
              \/ \E s \in stripping : s.pr = p /\ StripCancelled(s)]_vars

(* A ticket whose PR was closed after its last push is not claimed
   (cancel_ticket's "so it's never picked up"). *)
ClosedIsNotClaimed ==
    [][\A p \in PRs : pc = "claim" /\ pr' = p => ~inactive[p]]_vars

(* Every queued or running ticket settles, through deferrals, retries with
   backoff, failed calls and crashes: run_forever drains the queue. *)
EverySettles ==
    \A p \in PRs : row[p].status \in Active ~> row[p].status \notin Active
=============================================================================
