------------------------- MODULE ReviewQueueSafety -------------------------
(***************************************************************************)
(* On top of ReviewQueueProofs: reviews of one pull request are a cooldown *)
(* apart, and none is spent on nothing.                                    *)
(***************************************************************************)
EXTENDS ReviewQueueProofs

USE DEF clockVars, dbVars, githubVars, memoryVars, ticketVars, taskVars, boundVars,
        arrivalVars, servedVars, historyVars

(* The deferrals count from `now', the instant of the claim: by then the
   cooldown was over. *)
Rested == pc \in Working => CooldownElapsed(row[pr], now)

(* A row waits or runs for a push that no completed review covers, and the
   dirty flag tells of a push since the claim. *)
Owed ==
    \A p \in PRs :
        /\ pushes[p] >= claimed[p] /\ claimed[p] >= reviewed[p]
        /\ row[p].status \in Queued => pushes[p] > reviewed[p]
        /\ row[p].status = "running" =>
              /\ claimed[p] > reviewed[p]
              /\ row[p].rereview_requested => pushes[p] > claimed[p]

SInv == CooldownRespected /\ Rested /\ Owed

(* CooldownRespected, row by row. *)
LEMMA CooldownByRow ==
    CooldownRespected <=> \A p \in PRs : CooldownOK(row[p], clock)
BY DEF CooldownRespected, CooldownOK

(* An empty queue satisfies SInv. *)
LEMMA InitSInv == Init => SInv
<1> SUFFICES ASSUME Init PROVE SInv
  OBVIOUS
<1>1. CooldownRespected
  BY DEF Init, CooldownRespected, NoRow
<1>2. Rested
  BY DEF Init, Rested, Working
<1>3. Owed
  BY DEF Init, Owed, NoRow, Queued, Waiting
<1> QED
  BY <1>1, <1>2, <1>3 DEF SInv

-----------------------------------------------------------------------------
(* The rows, the counters and (unless an attempt is over) the dispatcher's
   ticket stay, and time does not run backwards. *)
LEMMA Quiet ==
    ASSUME IInv, SInv, UNCHANGED <<row, pushes, claimed, reviewed>>,
           clock' \in Nat, clock' >= clock,
           pc' \in Working => pc \in Working /\ UNCHANGED <<pr, now>>
    PROVE  SInv'
<1>1. CooldownRespected'
  BY CooldownAssumption
     DEF SInv, CooldownRespected, CooldownElapsed, IInv, TypeOK, Row, Instant, Null
<1>2. Rested'
  BY DEF SInv, Rested, CooldownElapsed
<1>3. Owed'
  BY DEF SInv, Owed
<1> QED
  BY <1>1, <1>2, <1>3 DEF SInv

(* One row changes, and not because of a push, a claim or a review. *)
LEMMA Replaces ==
    ASSUME IInv, SInv, NEW p \in PRs, NEW u \in Row,
           row' = [row EXCEPT ![p] = u],
           UNCHANGED <<clock, pushes, claimed, reviewed>>,
           CooldownOK(u, clock),
           u.status \in Queued => row[p].status \in Active,
           u.status = "running" =>
              row[p].status = "running" /\ u.rereview_requested = row[p].rereview_requested,
           pc' \in Working => /\ pc \in Working /\ UNCHANGED <<pr, now>>
                              /\ p = pr => CooldownElapsed(u, now)
    PROVE  SInv'
<1>1. row'[p] = u /\ \A q \in PRs \ {p} : row'[q] = row[q]
  BY DEF IInv, TypeOK
<1>2. CooldownRespected'
  BY <1>1 DEF SInv, CooldownRespected, CooldownOK, CooldownElapsed
<1>3. Rested'
  BY <1>1 DEF SInv, Rested, CooldownElapsed, IInv, WorkIsRunning
<1>4. Owed'
  <2>1. \A q \in PRs : /\ pushes[q] \in Nat /\ claimed[q] \in Nat /\ reviewed[q] \in Nat
    BY DEF IInv, TypeOK
  <2>2. u.status \in Queued => pushes[p] > reviewed[p]
    BY <2>1 DEF SInv, Owed, Active
  <2>3. u.status = "running" => /\ claimed[p] > reviewed[p]
                                /\ u.rereview_requested => pushes[p] > claimed[p]
    BY DEF SInv, Owed
  <2> QED
    BY <1>1, <2>2, <2>3 DEF SInv, Owed
<1> QED
  BY <1>2, <1>3, <1>4 DEF SInv

(* The bookkeeping columns do not matter to either. *)
LEMMA ReplacesBookkeeping ==
    ASSUME IInv, SInv, NEW p \in PRs, NEW u,
           Bookkeeping(row[p], u),
           row' = [row EXCEPT ![p] = u],
           UNCHANGED <<clock, pushes, claimed, reviewed>>,
           pc' \in Working => pc \in Working /\ UNCHANGED <<pr, now>>
    PROVE  SInv'
<1>1. row[p] \in Row /\ u \in Row /\ clock \in Nat /\ now \in Nat
  BY DEF IInv, TypeOK, Bookkeeping
<1>2. CooldownOK(u, clock)
  BY <1>1, BookkeepingKeepsCooldown, CooldownByRow DEF SInv
<1>3. p = pr /\ pc \in Working => CooldownElapsed(u, now)
  BY <1>1, BookkeepingKeepsCooldown DEF SInv, Rested
<1> QED
  BY <1>1, <1>2, <1>3, Replaces DEF Bookkeeping, SameWork, Active

-----------------------------------------------------------------------------
(* GitHub and the clock: the cooldowns only get older. *)
LEMMA WorldSafe == IInv /\ SInv /\ World => SInv'
<1> SUFFICES ASSUME IInv, SInv, World PROVE SInv'
  OBVIOUS
<1>1. clock \in Nat
  BY DEF IInv, TypeOK
<1>2. UNCHANGED <<row, pushes, claimed, reviewed, pc, pr, now>>
  BY DEF World, Tick, Push, ClosePR, Happens, DeleteComment
<1>3. clock' \in Nat /\ clock' >= clock
  BY <1>1 DEF World, Tick, Push, ClosePR, Happens, DeleteComment
<1> QED
  BY <1>2, <1>3, Quiet

(* A push: the one event that lets a settled row wait again. *)
LEMMA HandlePushSafe ==
    ASSUME IInv, SInv, NEW d \in inbox, HandlePush(d)
    PROVE  SInv'
<1> DEFINE p == d.pr
           t == row[p]
           u == EnqueueOrUpdate(t, nextId, clock)
<1>1. /\ p \in PRs /\ t \in Row /\ nextId \in Nat /\ clock \in Nat
      /\ \A q \in PRs : pushes[q] \in Nat /\ claimed[q] \in Nat /\ reviewed[q] \in Nat
  BY DEF IInv, TypeOK, Delivery
<1>2. /\ u \in Row
      /\ t.status = "running" => u.last_reviewed_at = t.last_reviewed_at
      /\ u.status = "running" => t.status = "running"
      /\ CooldownOK(t, clock) => CooldownOK(u, clock)
  BY <1>1, EnqueueRow
<1> HIDE DEF u
<1>3. row' = row \/ row' = [row EXCEPT ![p] = u]
  BY DEF HandlePush, u
<1>4. /\ pushes' = [pushes EXCEPT ![p] = pushes[p] + 1]
      /\ UNCHANGED <<clock, claimed, reviewed, pc, pr, now>>
  BY DEF HandlePush, Arrives, Handler
<1>5. row'[p] \in {t, u} /\ \A q \in PRs \ {p} : row'[q] = row[q]
  BY <1>1, <1>3 DEF IInv, TypeOK
<1>6. /\ pushes'[p] = pushes[p] + 1
      /\ \A q \in PRs \ {p} : pushes'[q] = pushes[q]
  BY <1>1, <1>4 DEF IInv, TypeOK
<1> HIDE DEF p
<1>7. CooldownRespected'
  <2>1. \A q \in PRs : CooldownOK(row'[q], clock)
    BY <1>2, <1>5, CooldownByRow DEF SInv
  <2> QED
    BY <1>4, <2>1 DEF CooldownRespected, CooldownOK, CooldownElapsed
<1>8. Rested'
  BY <1>1, <1>2, <1>4, <1>5 DEF SInv, Rested, CooldownElapsed, IInv, WorkIsRunning
<1>9. Owed'
  <2> SUFFICES ASSUME NEW q \in PRs
               PROVE  /\ pushes'[q] >= claimed[q] /\ claimed[q] >= reviewed[q]
                      /\ row'[q].status \in Queued => pushes'[q] > reviewed[q]
                      /\ row'[q].status = "running" =>
                            /\ claimed[q] > reviewed[q]
                            /\ row'[q].rereview_requested => pushes'[q] > claimed[q]
    BY <1>4 DEF Owed
  <2>1. CASE q # p
    BY <1>5, <1>6, <2>1 DEF SInv, Owed
  <2>2. CASE q = p
    <3>1. pushes[p] >= claimed[p] /\ claimed[p] >= reviewed[p]
      BY <2>2 DEF SInv, Owed
    <3>2. pushes'[p] > claimed[p] /\ pushes'[p] > reviewed[p]
      BY <1>1, <1>6, <2>2, <3>1
    <3>3. row'[p].status = "running" => claimed[p] > reviewed[p]
      BY <1>2, <1>5, <2>2 DEF SInv, Owed
    <3>4. pushes'[p] \in Nat /\ pushes'[p] >= claimed[p]
      BY <1>1, <1>6, <2>2, <3>1
    <3> QED
      BY <2>2, <3>1, <3>2, <3>3, <3>4
  <2> QED
    BY <2>1, <2>2
<1> QED
  BY <1>7, <1>8, <1>9 DEF SInv

(* A close settles a waiting row, which rests from nothing. *)
LEMMA HandleCloseSafe ==
    ASSUME IInv, SInv, NEW d \in inbox, HandleClose(d)
    PROVE  SInv'
<1> DEFINE t == row[d.pr]
           u == CancelTicket(t)
<1>1. d.pr \in PRs /\ t \in Row /\ clock \in Nat
  BY DEF IInv, TypeOK, Delivery
<1>2. /\ u \in Row /\ (t.status = "running" => u = t)
      /\ u.status \in {"cancelled", t.status} /\ u.status \notin Queued
      /\ CooldownOK(t, clock) => CooldownOK(u, clock)
  BY <1>1, CancelRow
<1> HIDE DEF u
<1>3. row' = [row EXCEPT ![d.pr] = u]
  BY DEF HandleClose, u
<1>4. UNCHANGED <<clock, pushes, claimed, reviewed, pc, pr, now>>
  BY DEF HandleClose, Handler
<1>5. CooldownOK(u, clock)
  BY <1>1, <1>2, CooldownByRow DEF SInv
<1>6. pc \in Working /\ d.pr = pr => CooldownElapsed(u, now)
  BY <1>2 DEF SInv, Rested, IInv, WorkIsRunning
<1> QED
  BY <1>1, <1>2, <1>3, <1>4, <1>5, <1>6, Replaces

(* The close handler's notice stripping touches bookkeeping only. *)
LEMMA ClosersSafe ==
    ASSUME IInv, SInv, NEW s \in stripping, StripCancelled(s) \/ ClearCancelled(s)
    PROVE  SInv'
<1>1. CASE StripCancelled(s)
  BY <1>1, Quiet DEF StripCancelled, Handler, IInv, TypeOK
<1>2. CASE ClearCancelled(s)
  <2> DEFINE t == row[s.pr]
             u == IF t.id = s.id THEN ClearNotice(t) ELSE t
  <2>1. s.pr \in PRs /\ t \in Row
    BY DEF IInv, TypeOK, Stripping
  <2>2. Bookkeeping(t, u)
    BY <2>1, BookkeepingRow
  <2> HIDE DEF u
  <2>3. row' = [row EXCEPT ![s.pr] = u]
    BY <1>2 DEF ClearCancelled, u
  <2> QED
    BY <1>2, <2>1, <2>2, <2>3, ReplacesBookkeeping DEF ClearCancelled, Handler
<1> QED
  BY <1>1, <1>2

(* A push that is lost on the way to the table is still a push. *)
LEMMA WebhookRaisesSafe ==
    ASSUME IInv, SInv, WebhookRaises
    PROVE  SInv'
<1>1. UNCHANGED <<row, clock, claimed, reviewed, pc, pr, now>>
  BY DEF WebhookRaises, Handler
<1>2. \A p \in PRs : pushes[p] \in Nat /\ claimed[p] \in Nat /\ reviewed[p] \in Nat
  BY DEF IInv, TypeOK
<1>3. \A p \in PRs : pushes'[p] \in Nat /\ pushes'[p] >= pushes[p]
  BY <1>2 DEF WebhookRaises, Arrives, IInv, TypeOK
<1>4. CooldownRespected' /\ Rested'
  BY <1>1 DEF SInv, CooldownRespected, Rested, CooldownElapsed
<1>5. Owed'
  BY <1>1, <1>2, <1>3 DEF SInv, Owed
<1> QED
  BY <1>4, <1>5 DEF SInv

(* Every webhook step preserves SInv. *)
LEMMA WebhooksSafe == IInv /\ SInv /\ Webhooks => SInv'
BY WebhookRaisesSafe, HandlePushSafe, HandleCloseSafe, ClosersSafe DEF Webhooks

-----------------------------------------------------------------------------
(* The claim: the cooldown is over, and there is a push to review. *)
LEMMA ClaimSafe ==
    ASSUME IInv, SInv, NEW p \in PRs, ClaimNextDue(p)
    PROVE  SInv'
<1> DEFINE t == row[p]
           u == Claim(t)
<1>1. /\ t \in Row /\ clock \in Nat /\ IsDue(t, clock)
      /\ \A q \in PRs : pushes[q] \in Nat /\ claimed[q] \in Nat /\ reviewed[q] \in Nat
  BY DEF ClaimNextDue, Due, IInv, TypeOK
<1>2. CooldownOK(t, clock)
  BY CooldownByRow DEF SInv
<1>3. /\ u \in Row /\ u.status = "running" /\ ~u.rereview_requested
      /\ t.status \in Queued /\ CooldownElapsed(u, clock)
  BY <1>1, <1>2, ClaimRow
<1> HIDE DEF u
<1>4. /\ row' = [row EXCEPT ![p] = u] /\ pr' = p /\ now' = clock
      /\ claimed' = [claimed EXCEPT ![p] = pushes[p]]
      /\ UNCHANGED <<clock, pushes, reviewed>>
  BY DEF ClaimNextDue, Task, u
<1>5. row'[p] = u /\ \A q \in PRs \ {p} : row'[q] = row[q]
  BY <1>4 DEF IInv, TypeOK
<1>6. claimed'[p] = pushes[p] /\ \A q \in PRs \ {p} : claimed'[q] = claimed[q]
  BY <1>4 DEF IInv, TypeOK
<1>7. CooldownRespected'
  BY <1>3, <1>4, <1>5 DEF SInv, CooldownRespected, CooldownElapsed
<1>8. Rested'
  BY <1>3, <1>4, <1>5 DEF Rested, CooldownElapsed
<1>9. Owed'
  <2>1. pushes[p] > reviewed[p]
    BY <1>3 DEF SInv, Owed
  <2> QED
    BY <1>1, <1>3, <1>4, <1>5, <1>6, <2>1 DEF SInv, Owed, Queued, Waiting
<1> QED
  BY <1>7, <1>8, <1>9 DEF SInv

(* Steps of process_next_due and of the sweep that write no row. *)
LEMMA QuietSteps ==
    ASSUME IInv, SInv,
           \/ NothingDue \/ RefreshConfig \/ StripNotice \/ Proceed
           \/ Reviewed \/ AttemptFails \/ ReviewSkipped \/ ReviewRateLimited
           \/ PostReview \/ PostPlaceholder \/ PostFailureNotice
           \/ SweepRead \/ \E s \in todo : AppendNotice(s)
    PROVE  SInv'
<1>1. UNCHANGED <<row, clock, pushes, claimed, reviewed>>
  BY DEF NothingDue, RefreshConfig, StripNotice, Proceed, Reviewed, AttemptFails,
         ReviewSkipped, ReviewRateLimited, Attempt, PostReview, PostPlaceholder,
         PostFailureNotice, SweepRead, AppendNotice, Task
<1>2. pc' \in Working => pc \in Working /\ UNCHANGED <<pr, now>>
  BY DEF NothingDue, RefreshConfig, StripNotice, Proceed, Reviewed, AttemptFails,
         ReviewSkipped, ReviewRateLimited, Attempt, PostReview, PostPlaceholder,
         PostFailureNotice, SweepRead, AppendNotice, Task, Working, Goto, GotoWith,
         EditThen, EndStep, Rest
<1> QED
  BY <1>1, <1>2, Quiet DEF IInv, TypeOK

-----------------------------------------------------------------------------
(* The ways out of an attempt.  Each ends it, so that only the row counts. *)
LEMMA Leaves ==
    ASSUME IInv, SInv, pc \in Working, NEW u \in Row,
           row' = [row EXCEPT ![pr] = u],
           UNCHANGED <<clock, pushes, claimed, reviewed>>,
           CooldownOK(u, clock), u.status # "running", pc' \notin Working
    PROVE  SInv'
<1>1. pr \in PRs /\ row[pr].status = "running"
  BY AtWork
<1> QED
  BY <1>1, Replaces DEF Active

(* The cooldown was over when the ticket was claimed, and it still is. *)
LEMMA AtRest ==
    ASSUME IInv, SInv, pc \in Working
    PROVE  /\ now \in Nat /\ clock \in Nat
           /\ CooldownElapsed(row[pr], now) /\ CooldownElapsed(row[pr], clock)
<1>1. pr \in PRs /\ row[pr].status = "running"
  BY AtWork
<1> QED
  BY <1>1 DEF SInv, Rested, CooldownRespected, IInv, TypeOK

(* A deferral ends no earlier than it began, when the cooldown was over. *)
LEMMA DeferSafe ==
    ASSUME IInv, SInv, pc \in Working, NEW until \in Nat, until >= now,
           NEW u \in {DeferRateLimited(row[pr], until), DeferUsageCapped(row[pr], until)},
           DeferTo(u), UNCHANGED <<clock, pushes, claimed, reviewed>>
    PROVE  SInv'
<1>1. row[pr] \in Row
  BY AtWork
<1>2. /\ u \in Row /\ u.status = "deferred"
      /\ CooldownElapsed(u, u.not_before)
  BY <1>1, AtRest, DeferRow
<1>3. CooldownOK(u, clock)
  BY <1>2 DEF CooldownOK
<1>4. row' = [row EXCEPT ![pr] = u]
  BY DEF DeferTo, Write
<1>5. pc' \notin Working
  BY DEF DeferTo, EndStep, Goto, GotoWith, Working
<1> QED
  BY <1>2, <1>3, <1>4, <1>5, Leaves

(* Every deferral of process_next_due is one of these. *)
LEMMA DeferralsSafe ==
    ASSUME IInv, SInv, TuningUnavailable \/ CapReached \/ Blocked \/ RecordRateLimit
    PROVE  SInv'
<1>1. /\ pc \in Working /\ now \in Nat /\ retry_after \in Nat /\ blocked_until \in Nat
      /\ UNCHANGED <<clock, pushes, claimed, reviewed>>
  BY DEF TuningUnavailable, CapReached, Blocked, RecordRateLimit, Task, Working, IInv, TypeOK
<1>2. CASE TuningUnavailable
  <2>1. now + UnconfiguredWait \in Nat /\ now + UnconfiguredWait >= now
    BY <1>1, QueueAssumption
  <2> QED
    BY <1>1, <1>2, <2>1, DeferSafe DEF TuningUnavailable
<1>3. CASE CapReached
  <2>1. PICK w \in CapWaits : DeferTo(DeferUsageCapped(row[pr], now + w))
    BY <1>3 DEF CapReached
  <2>2. now + w \in Nat /\ now + w >= now
    BY <1>1, QueueAssumption
  <2> QED
    BY <1>1, <2>1, <2>2, DeferSafe
<1>4. CASE Blocked
  <2>1. blocked_until >= now
    BY <1>1, <1>4 DEF Blocked
  <2> QED
    BY <1>1, <1>4, <2>1, DeferSafe DEF Blocked
<1>5. CASE RecordRateLimit
  <2>1. now + retry_after \in Nat /\ now + retry_after >= now
    BY <1>1
  <2> QED
    BY <1>1, <1>5, <2>1, DeferSafe DEF RecordRateLimit
<1> QED
  BY <1>2, <1>3, <1>4, <1>5

(* A failure backoff likewise. *)
LEMMA BackOffSafe ==
    ASSUME IInv, SInv, pc \in Working, next_attempt <= MaxFailures + MaxNoticePosts - 2,
           BackOff, UNCHANGED <<clock, pushes, claimed, reviewed>>
    PROVE  SInv'
<1>1. PICK until \in BackoffEnds : Write(DeferFailed(row[pr], until))
  BY DEF BackOff
<1> DEFINE u == DeferFailed(row[pr], until)
<1>2. until \in Nat
  BY BackoffIsDuration DEF BackoffEnds
<1>3. /\ u \in Row /\ u.status = "retrying"
      /\ u.last_reviewed_at = row[pr].last_reviewed_at
  BY <1>2, AtWork, DeferFailedRow
<1> HIDE DEF u
<1>4. row' = [row EXCEPT ![pr] = u] /\ pc' \notin Working
  BY <1>1 DEF Write, BackOff, EndStep, Working, u
<1>5. CooldownOK(u, clock)
  BY <1>3, AtRest DEF CooldownOK, CooldownElapsed
<1> QED
  BY <1>3, <1>4, <1>5, Leaves

(* So every way the failure handler ends preserves SInv. *)
LEMMA FailuresSafe ==
    ASSUME IInv, SInv, RetryLater \/ MarkTicketFailed \/ NoticeNotPosted
    PROVE  SInv'
<1>1. /\ pc \in Working
      /\ UNCHANGED <<clock, pushes, claimed, reviewed>>
  BY DEF RetryLater, MarkTicketFailed, NoticeNotPosted, Task, Working
<1>2. \/ Write(MarkFailed(row[pr])) /\ EndStep
      \/ next_attempt <= MaxFailures + MaxNoticePosts - 2 /\ BackOff
  <2>1. next_attempt \in Int
    BY <1>1, AtWork DEF next_attempt
  <2> QED
    BY <2>1, QueueAssumption
       DEF RetryLater, MarkTicketFailed, NoticeNotPosted, notice_post_ceiling
<1>3. CASE Write(MarkFailed(row[pr])) /\ EndStep
  <2> DEFINE u == MarkFailed(row[pr])
  <2>1. u \in Row /\ u.status = "failed"
    BY <1>1, AtWork, MarkFailedRow
  <2> HIDE DEF u
  <2>2. row' = [row EXCEPT ![pr] = u] /\ pc' \notin Working
    BY <1>3 DEF Write, EndStep, Working, u
  <2>3. CooldownOK(u, clock)
    BY <2>1 DEF CooldownOK
  <2> QED
    BY <1>1, <2>1, <2>2, <2>3, Leaves
<1>4. CASE next_attempt <= MaxFailures + MaxNoticePosts - 2 /\ BackOff
  BY <1>1, <1>4, BackOffSafe
<1> QED
  BY <1>2, <1>3, <1>4

(* A skipped ticket is deleted, reverted, or re-armed for a push that came
   after its claim. *)
LEMMA DiscardSafe ==
    ASSUME IInv, SInv, DiscardSkipped
    PROVE  SInv'
<1>1. /\ pc \in Working
      /\ UNCHANGED <<clock, pushes, claimed, reviewed>>
  BY DEF DiscardSkipped, Discard, Task, Working
<1> DEFINE ends(u) == row' = [row EXCEPT ![pr] = u] /\ pc' \notin Working
<1>2. \/ \E u \in {NoRow, DiscardRearm(row[pr]), DiscardRevert(row[pr])} : ends(u)
      \/ UNCHANGED row /\ (pc' \in Working => UNCHANGED <<pr, now>>)
  <2>1. ASSUME NEW label, NEW matches, NEW u, NEW otherwise,
               Discard(label, matches, u, otherwise)
        PROVE  ends(u) \/ (UNCHANGED row /\ (pc' \in Working => UNCHANGED <<pr, now>>))
    BY <2>1 DEF Discard, Write, EndStep, Goto, GotoWith, Working
  <2> QED
    BY <2>1 DEF DiscardSkipped
<1>3. CASE UNCHANGED row /\ (pc' \in Working => UNCHANGED <<pr, now>>)
  BY <1>1, <1>3, Quiet DEF IInv, TypeOK
<1>4. CASE \E u \in {NoRow, DiscardRearm(row[pr]), DiscardRevert(row[pr])} : ends(u)
  <2>1. row[pr] \in Row
    BY <1>1, AtWork
  <2>2. NoRow.status = "none" /\ CooldownOK(NoRow, clock)
    BY DEF NoRow, CooldownOK
  <2>3. CooldownOK(DiscardRearm(row[pr]), clock)
    BY <1>1, <2>1, AtRest, DiscardRow DEF CooldownOK, CooldownElapsed
  <2>4. CooldownOK(DiscardRevert(row[pr]), clock)
    BY <2>1, DiscardRow DEF CooldownOK
  <2>5. \A u \in {NoRow, DiscardRearm(row[pr]), DiscardRevert(row[pr])} :
            u \in Row /\ u.status # "running" /\ CooldownOK(u, clock)
    BY <2>1, <2>2, <2>3, <2>4, NoRowIsRow, DiscardRow
  <2> QED
    BY <1>1, <1>4, <2>5, Leaves
<1> QED
  BY <1>2, <1>3, <1>4

(* The review is recorded: a re-review waits for the cooldown to pass, and the
   push that asked for it came after the claim. *)
LEMMA FinalizeSafe ==
    ASSUME IInv, SInv, Finalize
    PROVE  SInv'
<1> DEFINE until == now + effective_cooldown(ticket.cooldown_level)
           level == next_cooldown_level(ticket.cooldown_level)
           t == row[pr]
           u == FinalizeReview(t, now, until, level, posted)
<1>1. pc \in Working /\ pc' \notin Working /\ UNCHANGED <<clock, pushes, claimed>>
  BY DEF Finalize, Task, Working, EndStep
<1>2. CASE UNCHANGED <<dbVars, reviewed>>
  BY <1>1, <1>2, Quiet DEF IInv, TypeOK
<1>3. CASE Write(u) /\ reviewed' = [reviewed EXCEPT ![pr] = claimed[pr]]
  <2>1. /\ pr \in PRs /\ t \in Row /\ t.status = "running"
        /\ now \in Nat /\ clock \in Nat /\ posted \in Nat \cup {Null}
        /\ ticket.cooldown_level \in 0..MaxCooldownLevel
        /\ \A q \in PRs : pushes[q] \in Nat /\ claimed[q] \in Nat /\ reviewed[q] \in Nat
    BY <1>1, AtWork DEF IInv, TypeOK, Row
  <2>2. /\ effective_cooldown(ticket.cooldown_level) \in Nat
        /\ effective_cooldown(ticket.cooldown_level) >= CooldownBase
    BY <2>1, EffectiveCooldown
  <2>3. until \in Nat /\ until >= now + CooldownBase
    BY <2>1, <2>2, CooldownAssumption
  <2>4. level \in 0..MaxCooldownLevel
    BY <2>1, NextLevel
  <2>5. /\ u \in Row /\ u.status \in {"deferred", "done"}
        /\ u.status = "deferred" <=> t.rereview_requested
        /\ CooldownOK(u, clock)
    BY <2>1, <2>3, <2>4, FinalizeRow
  <2> HIDE DEF u
  <2>6. row'[pr] = u /\ \A q \in PRs \ {pr} : row'[q] = row[q]
    BY <1>3, <2>1 DEF Write, IInv, TypeOK
  <2>7. reviewed'[pr] = claimed[pr] /\ \A q \in PRs \ {pr} : reviewed'[q] = reviewed[q]
    BY <1>3, <2>1 DEF IInv, TypeOK
  <2>8. CooldownRespected'
    <3>1. \A q \in PRs : CooldownOK(row'[q], clock)
      BY <2>5, <2>6, CooldownByRow DEF SInv
    <3> QED
      BY <1>1, <3>1 DEF CooldownRespected, CooldownOK, CooldownElapsed
  <2>9. Rested'
    BY <1>1 DEF Rested
  <2>10. Owed'
    <3>1. pushes[pr] >= claimed[pr] /\ (t.rereview_requested => pushes[pr] > claimed[pr])
      BY <2>1 DEF SInv, Owed
    <3>2. /\ u.status \in Queued => pushes[pr] > claimed[pr]
          /\ u.status # "running"
      BY <2>5, <3>1 DEF Queued, Waiting
    <3> QED
      BY <1>1, <2>1, <2>6, <2>7, <3>1, <3>2 DEF SInv, Owed
  <2> QED
    BY <2>8, <2>9, <2>10 DEF SInv
<1> QED
  BY <1>2, <1>3 DEF Finalize

-----------------------------------------------------------------------------
(* The steps that write only bookkeeping columns preserve SInv. *)
LEMMA RecordsSafe ==
    ASSUME IInv, SInv, RecordStrip \/ RecordNotice \/ SaveCommentId
    PROVE  SInv'
<1>1. /\ pr \in PRs /\ row[pr] \in Row /\ posted \in Nat \cup {Null}
      /\ UNCHANGED <<clock, pushes, claimed, reviewed>>
      /\ pc' \in Working => pc \in Working /\ UNCHANGED <<pr, now>>
  <2>1. pr \in PRs
    BY AtWork DEF RecordStrip, RecordNotice, SaveCommentId, Task, Working, Deferred,
                  IInv, HeldTicket
  <2>2. pc' \in Working => pc \in Working /\ UNCHANGED <<pr, now>>
    BY DEF RecordStrip, RecordNotice, SaveCommentId, Task, Working, Goto, GotoWith, EndStep
  <2> QED
    BY <2>1, <2>2 DEF RecordStrip, RecordNotice, SaveCommentId, Task, IInv, TypeOK
<1>2. \E u : Bookkeeping(row[pr], u) /\ row' = [row EXCEPT ![pr] = u]
  <2>1. CASE RecordStrip
    <3> DEFINE v == Recorded(row[pr], posted)
               u == ClearNotice(v)
    <3>1. v \in Row /\ Bookkeeping(row[pr], v)
      BY <1>1, RecordedRow DEF Bookkeeping
    <3>2. u \in Row /\ Bookkeeping(v, u)
      BY <3>1, BookkeepingRow DEF Bookkeeping
    <3>3. row' = [row EXCEPT ![pr] = u]
      BY <2>1 DEF RecordStrip, Write
    <3> HIDE DEF u, v
    <3> QED
      BY <1>1, <3>1, <3>2, <3>3, BookkeepingChain
  <2>2. CASE RecordNotice
    BY <1>1, <2>2, RecordedRow, BookkeepingRow DEF RecordNotice, Write
  <2>3. CASE SaveCommentId
    BY <1>1, <2>3, BookkeepingRow DEF SaveCommentId, Write
  <2> QED
    BY <2>1, <2>2, <2>3
<1> QED
  BY <1>1, <1>2, ReplacesBookkeeping

(* And so does the sweep's record of a notice. *)
LEMMA RecordAppendSafe ==
    ASSUME IInv, SInv, NEW s \in todo, RecordAppend(s)
    PROVE  SInv'
<1>1. s.pr \in PRs
  BY DEF IInv, TypeOK, Notice
<1>2. PICK u : Bookkeeping(row[s.pr], u) /\ row' = [row EXCEPT ![s.pr] = u]
  BY AppendIsBookkeeping
<1>3. UNCHANGED <<clock, pushes, claimed, reviewed>> /\ pc' \notin Working
  BY DEF RecordAppend, Task, Rest, GotoWith, Working
<1> QED
  BY <1>1, <1>2, <1>3, ReplacesBookkeeping

(* A recovered ticket was claimed after its cooldown and is still owed. *)
LEMMA RestartSafe == IInv /\ SInv /\ Restart => SInv'
<1> SUFFICES ASSUME IInv, SInv, Restart PROVE SInv'
  OBVIOUS
<1>1. /\ row' = [p \in PRs |-> RecoverOnStartup(row[p])] /\ pc' = "claim"
      /\ UNCHANGED <<clock, pushes, claimed, reviewed>>
  BY DEF Restart, Task, Goto, GotoWith
<1>2. \A p \in PRs :
          /\ row'[p].status = IF row[p].status = "running" THEN "pending" ELSE row[p].status
          /\ CooldownOK(row'[p], clock)
  BY <1>1, RecoverRow, CooldownByRow DEF SInv, IInv, TypeOK
<1>3. CooldownRespected'
  BY <1>1, <1>2 DEF CooldownRespected, CooldownOK, CooldownElapsed
<1>4. Rested'
  BY <1>1 DEF Rested, Working
<1>5. Owed'
  <2>1. \A p \in PRs : pushes[p] \in Nat /\ claimed[p] \in Nat /\ reviewed[p] \in Nat
    BY DEF IInv, TypeOK
  <2>2. \A p \in PRs : row'[p].status # "running" /\
                       (row'[p].status \in Queued => row[p].status \in Active)
    BY <1>2 DEF Active
  <2>3. \A p \in PRs : row[p].status \in Active => pushes[p] > reviewed[p]
    BY <2>1 DEF SInv, Owed, Active
  <2> QED
    BY <1>1, <2>2, <2>3 DEF SInv, Owed
<1> QED
  BY <1>3, <1>4, <1>5 DEF SInv

(* A failing statement or a crash writes no row. *)
LEMMA DownSafe == IInv /\ SInv /\ (DatabaseFails \/ Crash) => SInv'
<1> SUFFICES ASSUME IInv, SInv, DatabaseFails \/ Crash PROVE SInv'
  OBVIOUS
<1>1. UNCHANGED <<row, clock, pushes, claimed, reviewed>>
  BY DEF DatabaseFails, Crash
<1>2. pc' \in Working => pc \in Working /\ UNCHANGED <<pr, now>>
  BY DEF DatabaseFails, Crash, Goto, GotoWith, EndStep, Rest, Working
<1> QED
  BY <1>1, <1>2, Quiet DEF IInv, TypeOK

(* Every step of the dispatcher task preserves SInv. *)
LEMMA DispatcherSafe == IInv /\ SInv /\ Dispatcher => SInv'
BY ClaimSafe, QuietSteps, DeferralsSafe, FailuresSafe, DiscardSafe, FinalizeSafe,
   RecordsSafe, RecordAppendSafe
   DEF Dispatcher, ProcessNextDue, PostPendingNotices

(* SInv is inductive relative to IInv. *)
LEMMA NextSInv == IInv /\ SInv /\ [Next]_vars => SInv'
<1> SUFFICES ASSUME IInv, SInv, [Next]_vars PROVE SInv'
  OBVIOUS
<1>1. CASE Next
  BY <1>1, WorldSafe, WebhooksSafe, DispatcherSafe, DownSafe, RestartSafe DEF Next
<1>2. CASE UNCHANGED vars
  BY <1>2, Quiet DEF vars, IInv, TypeOK
<1> QED
  BY <1>1, <1>2

(* SInv, which says of each row when its cooldown ends and what the queue still
   owes it, holds in every state the queue reaches. *)
THEOREM SafetyInvariance == Spec => []SInv
<1>1. Init => SInv
  BY InitSInv
<1>2. IInv /\ SInv /\ [Next]_vars => SInv'
  BY NextSInv
<1>3. Spec => []IInv
  BY Invariance
<1> QED
  BY <1>1, <1>2, <1>3, PTL DEF Spec

(* However pushes, closes, deferrals, failures, skips and crashes interleave,
   reviews of a pull request are at least cooldown_base_seconds apart. *)
THEOREM CooldownHolds == Spec => []CooldownRespected
BY SafetyInvariance, PTL DEF SInv

(* No claim, and so no call to a provider, without a push that no completed
   review covers. *)
THEOREM NoReviewOnNothing == Spec => []NoSpuriousReview
<1>1. IInv /\ SInv => NoSpuriousReview
  <2> SUFFICES ASSUME IInv, SInv, pc \in {"attempt", "post", "finalize"}
               PROVE  claimed[pr] > reviewed[pr]
    BY DEF NoSpuriousReview
  <2>1. pr \in PRs /\ row[pr].status = "running"
    BY AtWork DEF Working
  <2> QED
    BY <2>1 DEF SInv, Owed
<1> QED
  BY <1>1, Invariance, SafetyInvariance, PTL

=============================================================================
