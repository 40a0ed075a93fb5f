# A verification of the PR review bot

The bot reviews GitHub pull requests with three LLM specialists and keeps one
comment per pull request. These modules model the parts of it where timing
matters: the durable queue of tickets with the dispatcher that drains it and the
webhook handlers that write to it meanwhile; the budget of tokens that gates a
review; the specialists of one attempt; the configuration that operators change
from a dashboard and from two scripts while the service deploys, boots and
crashes; and the public demo, which runs the same engine on a store in memory.
TLC checks the models on small instances; TLAPS proves the central safety
properties for every number of pull requests and every configuration.

    tlc -workers 2 -config QueueTroubles.cfg MCReviewQueue.tla
    tlapm ReviewQueueRefinement.tla

## 1. The system

| Component | State | Operations | Talks to |
|---|---|---|---|
| `review_queue/store.py` | table `tickets`: one row per PR with status, `not_before`, attempts, comment id, dirty flag `rereview_requested`, `last_reviewed_at`, cooldown level, `notice_not_before`; tables `reviews`, `runtime_config`, `slot_config` | one SQL statement (or short transaction) per operation: enqueue, claim, three deferrals, finalize, discard, cancel, fail, bookkeeping, recover; record a review, sum the usage; read and write configuration | Postgres, READ COMMITTED |
| `review_queue/dispatcher.py` | `_blocked_until` per provider, configuration caches, the ticket it holds | `process_next_due`, `post_pending_notices`, `run_forever` | store, orchestrator, GitHub |
| `webhook.py` | LRU of delivery ids | push-like deliveries enqueue, `closed` cancels and strips a notice | store, GitHub |
| `orchestrator.py`, `specialists/`, `diff_utils.py` | none that outlives a review | fetch and annotate the diff, three concurrent LLM calls with one repair each, merge, post, record | GitHub, providers, `reviews` |
| `providers/` | caches of the selected provider, key indexes and slot rows; adapters by (provider, index, model) | refresh per claimed ticket, build an adapter, call, probe a model | LLM providers, store |
| `github_app.py`, `formatting.py` | the bot's comment, on GitHub | find by id or marker, overwrite, append or strip a trailing footnote | GitHub |
| `main.py` | none | backfill and boot gates on configuration, `recover_on_startup`, start of the dispatcher | all of the above |
| `*_config.py` (cooldown, usage cap, tuning) | one cache each | validate a group of settings as a whole | store |
| `dashboard/environment.py`, `render_client.py` | none | PATCH and DELETE on the Render variables and `runtime_config` | store, Render, providers |
| `dashboard/` otherwise | none (signed session cookie) | read queries, login | store |
| `scripts/deploy.py`, `scripts/set_override.py` | none | push variables, deploy and wait; select provider, slot and model | Render, Postgres, providers |
| `demo/` | store in memory, sessions | bootstrap, sweep, the same interfaces mocked | the engine itself |

Everything runs in one process on one event loop. Each blocking call is an
`await asyncio.to_thread(...)`, so that any webhook handler may run between two
calls of the dispatcher, and the process may die there. Dashboard handlers run
in threads of their own; scripts on the operator's machine.

What is hard here, and which properties answer it:

* **The dirty flag.** A push to a running ticket sets `rereview_requested`; the
  attempt it interrupts may end in six ways, each of which has to keep or drop
  the flag for the right reason. `NoLostPush`, `NoSpuriousReview`,
  `ImplementsService`.
* **The snapshot.** `process_next_due` decides from the row as claimed while
  handlers write to it. `WorkIsRunning`, `AttemptsBounded`, `GoodReviewKept`.
* **Retries.** Attempts, backoff and the second ceiling for the notice that
  could not be posted. `AttemptsBounded`, `FailureIsVisible`, `EverySettles`.
* **The cooldown** across every way back into the queue. `CooldownRespected`.
* **The schedule notice**, posted by the sweep, stripped by the claim or the
  close handler, tied together by one column. `NoticeTracked`, `NoStaleNotice`.
* **Crashes**, which lose the caches and strand running rows. `RunningIsOwned`,
  `EverySettles`, the run `lost_after_boot`.
* **Closes** that race the claim. `ClosedIsNotClaimed` (violated, see 5).
* **The budget's boundary.** Windows change at the reset instant, the check is
  made at the claim and the spend is recorded minutes later, maybe in the next
  window or after another slot was armed. `UsageBounded`, `CapLifts`.
* **Configuration in two places.** The credential of a slot is a variable on
  Render, its model and location a row in Postgres, and both are only usable
  together; a probe vouches for a combination that later writes may change.
  `ArmedIsProbed`, `AdapterIsCurrent` (violated).
* **Settings that are only usable as groups**, written by merges of what was
  read before. `GroupsUsable`.
* **Deploys** that are superseded, fail, or resolve the variables at a moment of
  their own, while a script waits for one of them. `ReportedLiveServes`,
  `SyncMeansServing` (violated).
* **A visitor's choice in global state** (the demo), from the request through
  the dispatcher to the adapter, with collisions, evictions and sweeps.
  `RunsAsAsked`, `VisitorServed`, `SweptIsGone`, `StoreBounded`.

`PROJECT.json` lists every hazard at its line, those that no property covers
included, with the reason.

## 2. Modules and how they correspond to the code

### The queue

* `Tickets`: rows and one operator per statement of `store.py`: it takes a row
  and returns the row the statement leaves. Columns no decision reads
  (`head_sha`, `provider`, `last_error`, `updated_at`) are left out.
* `ReviewQueue`: the state machine. One action is one statement to the database
  or one call to GitHub, because the code awaits each. `pc` names the await the
  dispatcher is at: `claim`, `refresh`, `strip`/`stripped`, `gate`, `attempt`,
  then by outcome `post`/`finalize`, `limited`, `delete`/`rearm`/`revert` (the
  three statements of `discard_skipped_ticket`), `failure`/`noticed`/
  `unnotified`/`markFailed`, with `placeholder`/`saveId` after a deferral and
  `sweep`/`sweeping`/`appended` for the notice sweep; `down` is a dead process.
  `ticket` and `now` are the local variables of `process_next_due`; decisions
  that the code takes from the snapshot are taken from `ticket`, those SQL takes
  from the row are taken from `row[pr]`. Webhook deliveries lie in `inbox`, a
  set, as handlers run concurrently; a close handler that has to strip a notice
  is an element of `stripping`. Bookkeeping updates by one task with no other
  await between them (`set_comment_id`, `clear_visible_review`, `clear_notice`
  or `mark_notice_posted`) are one action.
* `ReviewService`: the abstract specification. Pushes ask, one review at a time
  starts, a completed review covers the pushes before its start.
* `QueueImplementsService`: the refinement mapping. `status` is the phase, and
  the counters of the service are the history variables of the queue.
* `MCReviewQueue` gives the constants of the queue's runs their values.

Abstractions: the comment is a body kind and a footnote kind; an LLM review is
its outcome; one provider is active, so `_blocked_until` has one entry; the cap
is reached or not; instants are natural numbers and the clock moves while a
waiting row needs it or up to `Horizon`; the configuration is constant apart
from the cooldown cache, which a boot empties and a claim refills. A failing
call to GitHub has no effect. "Troubles" are all unkind outcomes: 429, failure,
skip, cap, missing tuning, unreadable cooldown, GitHub error, database error (in
the dispatcher or in a webhook handler), deleted comment, and crash, which
includes `os._exit` and a redeploy and may strike at any await.

### One attempt, its budget, and the demo

* `ReviewPipeline`: `attempt_review`, `BaseSpecialist` and `complete_structured`.
  Each specialist builds its adapter, calls the model, repairs an invalid answer
  once, and returns, raises or is rate limited; `asyncio.gather` waits for all
  three. `IsLimited`, `AllFailed` and `IsReviewed` are the outcomes of the merge,
  `Reported` and `Used` what the row says and what the calls used.
* `UsageCap`: the gate of `process_next_due` (`usage_bucket_start`,
  `get_key_usage`, `_defer_usage_capped`), with the table `reviews` summed by
  slot and window. A failed read of the cap, and a failed check, let the ticket
  pass, which the history variable `unchecked` remembers. `ticket` has what the
  gate needs; other deferrals are due again at once.
* `Demo`: `demo/routes.py`'s bootstrap with the request context, the webhook
  delivery with the dedup cache, the in-memory store (`_tickets`, `_ticket_context`,
  rows, rolling caps), the claim that publishes the visitor's choice in a
  global, `_refresh` of the mocked provider state, the attempt, and the sweep.
  A bootstrap has a session here. `SweepOnce` is one action, though
  the sweep of the sessions, the filter of the rows and the removal of the tickets
  are writes of their own beside worker threads.
* `DiffAnnotation`: `_annotate` as a walk over generated diffs, with a reference
  definition (count the lines of the new file) next to it. A line has a `kind`,
  what it is in the diff that `fetch_pr_diff` put together, and it `reads` as
  something, all that the walk sees: the header of a file whose name has a space
  reads as text (`ReadAs`, a constant), and so do an added `+++x` and a removed
  `---x`; what follows a form feed or another break that `splitlines` knows
  (`Rests`) is walked as a line and may read as anything, a header included.
* `Deployments` composes them: a process is the service (`UsageCap`) or the demo
  (`Demo`) over the same `ReviewPipeline`, or the walk over a diff, which awaits
  nothing. `MCDeployments` gives it its constants.

### Operating the bot

* `Render`: variables, the latest deploy, the environment of the process that
  serves. A deploy resolves the variables some time after it was created.
* `ConfigGroups`: cooldown, usage cap and tuning, two columns each, the pair whose
  relation makes the group unusable.
* `RuntimeConfig`: provider, key indexes and slot rows, the probe
  (`model_check`), the boot gate. `vouched` is history: the slots, as they stood,
  that a probe accepted.
* `EnvironmentTab`: the five handlers that change something, statement by
  statement, several requests at once.
* `OverrideCLI`: `set_override.py`, option by option and write by write.
* `DeployCLI`: `deploy.py --sync-env`: database first, then the variables that
  differ, then trigger a deploy and poll it.
* `Operations` composes these with boots, failed boots, crashes and deploys of a
  process beside the one that serves. `torn` remembers that two changes
  overlapped or one was cut between its writes, `foreign` which variables
  somebody else wrote while a sync ran. `MCOperations` gives it its constants.
* `Reviewer`: adds the dispatcher's caches (three refreshes per claimed ticket)
  and `factory.get_provider`'s adapters. `MCReviewer` gives it its constants.

Creds, models and places are model values; the provider's answer to a probe
depends on the pair of credential and model and on the presence of a place.

### Proofs

`ReviewQueueProofs` (rows, then the queue), `ReviewQueueSafety`,
`ReviewQueueRefinement` and `CommentProofs` (the queue, each on top of the one
before, the last about what the author of a pull request sees);
`UsageCapProofs`; `DeploymentsProofs` (the demo and the walk over a diff);
`OperationsProofs` (types, groups, syncs) and `ArmingProofs` (probed slots), on
top of it.

## 3. Runs

### The queue

Passing runs use one dispatcher, `MaxFailures = 2`, cooldowns of 1 and 2 ticks
(two levels) and a clock of 2 ticks plus whatever waiting rows need. These are
the least values at which a retry is followed by a final attempt and the
cooldown escalates and is capped. `MaxNoticePosts` is 2, so that the notice is
retried once, but for `queue_troubles`, where every attempt counts.

| Run | Instance | Shows |
|---|---|---|
| `queue_reviews` | 2 PRs (symmetric), 3 pushes, 3 of limited, capped, tuning, skipped, failed; sweep batch 1 | `TypeOK`, `NoStaleNotice`, `NoticeTracked`, `GoodReviewKept` |
| `queue_troubles` | 1 PR, 3 pushes or closes, any 4 of eight troubles, crash and database errors among them; `MaxNoticePosts` 1 | `WorkIsRunning`, `CooldownRespected`, `NoSpuriousReview`, `AttemptsBounded` |
| `queue_settles` | 1 PR, 3 pushes or closes, 3 of limited, failed, capped, skipped, crash, github, with fairness | `EverySettles`, `RunningIsOwned`, `FailureIsVisible` |
| `queue_service` | 2 PRs (symmetric), 4 pushes or closes, 1 of limited, capped, tuning, deleted; a Retry-After below and one above the minimum | `NoLostPush`, the refinement `ImplementsService` |
| `lost_when_failing`, `lost_when_skipped`, `lost_after_boot`, `closed_while_running` | 1 PR, one kind of trouble | the violations of section 5 |

Two PRs are enough for what tickets share: the block of the provider, the
dispatcher, the batch of one, the order of the claim. Three or four troubles
combine, for instance, a failure, a rate limit and a crash around two pushes,
and go past both ceilings of the retry loop. None of these runs excludes
deadlock: the idle loop of the dispatcher always has a step.

Left out of some runs because the property is meant to hold only without them:

* `RunningIsOwned` and `EverySettles` without `database` and `cooldown`: a
  statement that raises out of `process_next_due` leaves the row running until
  the next boot (the test `test_claim_surfaces_a_real_failure_when_the_cooldown_read_fails`
  accepts it).
* `NoStaleNotice`, `NoticeTracked` and `GoodReviewKept` without failing GitHub
  calls, crashes, deleted comments and closes: the code treats the notices as
  best effort there. A crash between the post and `finalize_review` breaks
  `GoodReviewKept`, a close during the sweep `NoStaleNotice`, and a deleted
  comment followed by a failed strip and a skip `NoticeTracked`; they are listed
  as hazards.
* `FailureIsVisible` exempts a ticket that failed after the last retry of its
  notice, which the code gives up on by design, and one step: that of a close
  handler whose strip comes late, when the pull request was reopened and given up
  meanwhile, and takes the footnote of that failure with it (`webhook.py:131`).
  Whatever else happens before or after, no other step takes the notice away.
  `queue_settles` closes pull requests but has too few events for that step; with
  five events TLC finds it, and refutes the property without the exception. The
  theorem `FailuresShow` has no such bound.
* `NoLostPush` and `ImplementsService` without failed or skipped attempts and
  crashes: section 5 shows what each of these does.

`FairSpec` is weak fairness of the dispatcher, the webhook handlers and the
restart, which the event loop and the host platform provide (each task is ready
when its await returns, and calls have timeouts), and of the clock while some
row waits for it. Troubles carry none, but are finite.

### The rest

| Run | Instance | Shows |
|---|---|---|
| `operations` | Gemini and Vertex with 2 slots each, four configurations to start from, 2 requests at a time out of 16, `set_override` with 6 command lines, `--sync-env`; 2 operations and 2 of database, render, probe, cut in a behaviour | `OpsTypeOK`, `ArmedIsProbed`, `ReportedLiveServes`, `GroupsUsable` |
| `synced_not_serving` | two syncs, one trouble | the violation of `SyncMeansServing` |
| `stale_adapter` | two reviews around one edit of a Vertex slot | the violation of `AdapterIsCurrent` |
| `deployments` | service: 1 ticket, 3 pushes, two slots, two days of two instants with the reset at the second, calls of 1 token against a cap of 4, 1 trouble of five kinds; demo: 3 sessions, two of which have the same PR number, 2 visits, the rolling caps and the dedup cache at 1; diffs of up to 6 lines over 2 files, one with a name that is not found in its header, hunks at line 1 or 5 | `CapTypeOK`, `UsageBounded`, `CapLifts`, `StoreBounded`, `RunsAsAsked`, `SweptIsGone`, `VisitorServed`, `LabelsAreReal` |

Two operations are what it takes to overlap; each is several steps, any of which
a trouble may cut. A review costs 3 tokens, 4 with a repair and 2 when a
specialist raises, so that a cap of 4 is reached exactly, overshot, and missed
by one; the clock passes two resets and touches three windows.
A cap of 1 makes every second visitor crowd the first out.

`VisitorServed` assumes weak fairness of the demo's dispatcher and of the
requests that have begun, both tasks of the event loop; nobody has to visit, and
the sweep need not run. These runs say `CHECK_DEADLOCK FALSE`, because in their
bounds everything may come to an end: the operators are done, the last day is
over, the visitors are served.

What the properties except, and why:

* `ArmedIsProbed` excepts states between the writes of one change, and those
  after two changes overlapped or one was cut there (`torn`): the code claims no
  isolation between operators, and names the order of its writes as its
  protection against interruption. `_cascade_delete` racing a PATCH is the
  hazard behind it.
* `ReportedLiveServes` excepts variables that somebody else wrote while the sync
  ran (`foreign`), and a sync that found nothing to push, which is the finding.
* `UsageBounded` excepts behaviours in which a check failed and the gate was
  passed, which the code does on purpose (`unchecked`), and speaks of recorded
  tokens: calls that raise or are limited, and reviews that are not posted, are
  not counted by the code.
* `SweptIsGone` excepts sessions whose review was running when they were swept
  (`late`). `RunsAsAsked` speaks of rows that carry a session.
* `ArmedIsProbed` thereby says nothing of the race that `_cascade_delete` loses
  to a PATCH, `GoodReviewKept` nothing of deleted comments, and `StoreBounded`
  nothing of a delivery that is handled twice: these hazards have no property.
* `LabelsAreReal` speaks of the added lines that the walk had a chance with: the
  name of the file could be read from its header, no broken line since reads as
  another header, and no line of the same hunk before it was broken, or was a
  removed `---x`, which is counted as a line of the new file. For others it
  fails, and section 5 says how; an added `+++x` gets no label, but is counted.
  What the property shows is that no such damage leaves its hunk, or its file.

Every property of a passing run has a mutated definition, kept next to the
original, that TLC refutes under the same `.cfg`.

## 4. What is proved

| Theorem | Property | Assumes of the environment |
|---|---|---|
| `ReviewQueueProofs!TypeCorrect` | `TypeOK` | nothing |
| `ReviewQueueProofs!WorkStaysRunning` | `WorkIsRunning` | nothing |
| `ReviewQueueProofs!RetriesEnd` | `AttemptsBounded` | nothing |
| `ReviewQueueSafety!CooldownHolds` | `CooldownRespected` | nothing |
| `ReviewQueueSafety!NoReviewOnNothing` | `NoSpuriousReview` | nothing |
| `ReviewQueueRefinement!RunningStaysOwned` | `RunningIsOwned` | neither `database` nor `cooldown` |
| `ReviewQueueRefinement!NoPushIsLost` | `NoLostPush` | only `limited`, `capped`, `tuning`, `deleted` |
| `ReviewQueueRefinement!QueueRefinesService` | `ImplementsService` | only `limited`, `capped`, `tuning`, `deleted` |
| `CommentProofs!GoodReviewsStay` | `GoodReviewKept` | neither `crash` nor `deleted` |
| `CommentProofs!FailuresShow` | `FailureIsVisible` | no `deleted` |
| `CommentProofs!NoticesAreTracked` | `NoticeTracked` | no closes; no `deleted`, `database`, `crash` |
| `CommentProofs!SettledSaysNothing` | `NoStaleNotice` | the same, and no `github` |
| `UsageCapProofs!CapTypeCorrect` | `CapTypeOK` | nothing |
| `UsageCapProofs!UsageIsBounded` | `UsageBounded` | nothing |
| `UsageCapProofs!CapDoesLift` | `CapLifts` | nothing |
| `DeploymentsProofs!StoreStaysBounded` | `StoreBounded` | nothing |
| `DeploymentsProofs!ReviewsRunAsAsked` | `RunsAsAsked` | nothing |
| `DeploymentsProofs!SweptSessionsGo` | `SweptIsGone` | nothing |
| `DeploymentsProofs!LabelsStayReal` | `LabelsAreReal` | nothing |
| `OperationsProofs!OperationsTyped` | `OpsTypeOK` | nothing |
| `OperationsProofs!GroupsStayUsable` | `GroupsUsable` | nothing |
| `OperationsProofs!ReportedLiveIsServed` | `ReportedLiveServes` | nothing |
| `ArmingProofs!ArmedWasProbed` | `ArmedIsProbed` | gated starts, probing commands |

They hold for every finite set of PRs (tickets, slots, requests), any sessions and
files, any bounds, and every configuration admitted by the modules' assumptions: these state the bounds
that the `problems` functions of the configuration modules enforce, with an
integral cooldown factor, plus that the finitely many powers the code computes
are natural numbers, which the provers do not know. The assumptions of the
first eight theorems on `Troubles` are those of the runs, and needed:
section 5 has the counterexamples. Of those of `CommentProofs` all are needed
but `deleted`, see below; `ArmedWasProbed` speaks of starts the boot gate let
pass and of `set_override` commands that probe what they activate: no
`--skip-probe`, no `--clear-model`, and no `--clear-index` with `--no-activate`
and nothing else, which change what a slot means without a probe. The
constants of `MCOperations` are assumed to be so, and TLC evaluates
that.

**The queue.** `IInv == TypeOK /\ WorkIsRunning /\ HeldTicket /\ AttemptsBounded`
is inductive, and no part of it is alone: the backoff is a natural number only
while the attempts stay below the ceiling; the attempts are bounded only because
the snapshot's attempts, from which the handler decides, are the row's; and these
agree because no handler touches a running row but to mark it. `HeldTicket` says
that the ticket is still held while its placeholder is posted.

`SInv == CooldownRespected /\ Rested /\ Owed` is inductive relative to `IInv`.
`Rested` carries the cooldown over an attempt (deferrals are computed from the
instant of the claim), and `Owed` says what the counters of pushes, claims and
reviews are for a row of each status: a queued or running row has a push that no
review covers, and a dirty flag one that came after the claim.

`OInv == RunningIsOwned /\ Refreshed /\ Discarding` is inductive relative to
`IInv`. `Refreshed` says that the cooldown is in memory from the refresh on, so
that `finalize_review` does not raise; `Discarding`, that one of the statements
of `discard_skipped_ticket` matches: at the third, the ticket was reviewed.

`MInv` adds what the service needs: `Configured` (a reviewed row implies a
cooldown in memory, so no push is answered 500) and `Covered`, the converse of
`Owed`: a running row without the flag, and a row with nothing to do, has no push
after its last claim. `Owed` and `Covered` together say that the flag is set
exactly when a push came after the claim, which is why `finalize_review` re-arms
exactly when the service does. Each step of the queue is then shown to be one of
`Ask`, `Start`, `PutOff`, `Complete`, `Withdraw`, or a stutter.

**The comment.** Everything in `CommentProofs` rests on `BInv == Numbered /\ Batch
/\ Found`: ids of tickets are handed out once, the sweep's batch consists of rows
as they still are, and the comment's id on file, in the row, in the snapshot, in
the batch, or just returned by GitHub, is that of the comment there is. So
`_comment_was_recreated` is false and no statement forgets a review. This is
where `deleted` is excluded; TLC finds no counterexample with it for the first,
third and fourth theorem, and one for the second, as the notice goes with the
comment.

`GInv` is for the good reviews. `Shown`: a review on a comment is on record
(`last_reviewed_at`), or its `finalize_review` is next, or that statement raised
and the ticket is `Stuck`: running, nobody's, and not claimed before the next
boot. `Snapshot`: what the dispatcher read at the claim still tells whether there
is a review, because only its own `finalize_review` writes that column of a
running row. `NoneToKeep`: a placeholder is due only on a comment without one.
With `crash` the boot frees a stuck ticket and the next attempt's placeholder
overwrites the review: this is the hazard at `orchestrator.py:221`.

`FInv` is for the failures: whoever could edit the comment of a failed ticket,
the sweep (`SweepSpares`) and the placeholder (`DeferSpares`), works on others.
The property is about steps, so that the rest is shown step by step: one that
gives a ticket up finds the notice there, as `mark_failed` comes after it was
posted (`ToldMoves`, `NoticeSays`), and of those after it only a close handler's
strip, which the property names, edits the comment (`EditMoves`, `GivenUpMoves`).

`NInv` is for the notices: a notice is announced on reviewed pull requests only
(`Announced`, `ToAnnounce`), so that `discard_skipped_ticket` does not delete the
row that knows of it, and the row forgets it only after it went (`Stripped`).
`QInv` adds that the snapshot knows of a notice what the row does up to the
strip (`Informed`), that past the strip the comment announces nothing
(`WorkIsSilent`), and that the sweep's tickets are unsettled (`Awaiting`): only
the ticket at hand settles, past the strip. A failed strip is not tried again,
so that the fourth theorem needs GitHub to answer.

**The cap.** `UsageBounded` is not inductive: a review is recorded under the
instant it ends, maybe in a later window than the gate looked at. `CapInv` adds
that the claim is no later than the clock (`ClaimedBefore`), that no row lies in
a window later than the claim's while a ticket is held (`NoLaterRows`: there is
one attempt at a time, so a later window starts empty), that the attempt runs on
the slot whose budget was checked (`AttemptAsGated`), that the checked window has
not filled up since (`GateChecked`), and when a capped ticket comes due
(`CappedUntil`).

**The groups.** `GroupsInv` says that what is stored is a table and usable while
the process serves. Every writer stores a group it has just validated as a
whole, or the backfill that the boot gates then judge.

**Syncs.** `Typed` is `OpsTypeOK` with the shape of every request, command and
sync in progress. `SyncServes` follows a sync: while it pushes, each wanted
variable has its value or is left to push; when it waits, the platform has them
all; the deploy it polls, if still the latest, resolved them, and if live, is the
one that serves. Variables somebody else wrote meanwhile are out of it.

**Probed slots.** `ArmedInv` says that, unless two changes overlapped or one was
cut (`torn`), the configuration is `Sound`: at most one change is in progress;
between changes the active slot holds a row that was vouched for; and a change
that is in progress carries in its local variables what makes it so again at its
last write, step by step of each handler and of the command's phases. That a
change is alone is what each step needs: without it the values a handler read
need not be those it writes over.

**The demo.** `DemoInv` has a part for each property. `Numbered`: a request
inserts one ticket, under its own number, so that ids are distinct and `_trim`
drops as many tickets as are too many. `Trimmed`: the tickets exceed the cap by
at most the requests in `ToTrim`, that inserted one and are yet to store its
context, which is when they trim; a request that found its ticket does not count,
nor does it trim. `Owned`: requests and contexts are of known sessions (the sweep
spares those with a bootstrap in progress), rows and the review in progress of known ones or
`late` ones. `AsChosen`: from the refresh on the attempt is the turn's, its cached
models are the visitor's, and each specialist that answered did so with the
visitor's choice: `processing` does not change during a turn, and what it was
published from, the side table, is not read again. None of the parts needs the
bounds of the run.

**Labels.** `DiffInv` says of the walk what the reference says of the diff, as far
as the lines could be read (`IsRead`): `Carried`, the file and the number carried
over a line are those of the latest headers and of the lines counted since;
`Labelled`, the same of each label. `Headed` says that a diff begins with a file.
That a label's place is the reference's then follows from the latest header being
the only such line (`LastIs`), and stays so because what comes later does not move
it (`PlacesStay`). Nothing is assumed of `ReadAs`: any names may be unreadable.

**Induction.** `Keep`, the filter of the demo's store, is a recursive function, and
the library's induction theorems take an operator, which the provers cannot
instantiate. What `Keep` returns for every sequence is shown from a least
counterexample: the naturals are well founded under `<` (`Least`), and the step
up to the least length at which a claim fails refutes that it fails (`KeepPart`).

Model-checked only: `EverySettles` and `VisitorServed`. They are liveness under
fairness, which like `ENABLED` is out of reach of TLAPS; so is what recursive
operators compute (there are none in the modules proved about).

## 5. Where the code does not do what it says

* `lost_when_failing`: a push during the attempt that exhausts the retries only
  sets the dirty flag; `mark_failed` ignores it. The comment then says "It will
  retry automatically on the next push".
* `lost_when_skipped`: `discard_skipped_ticket` is three statements; a push that
  commits between the second and the third loses its flag.
* `lost_after_boot`: the cooldown cache is empty until the dispatcher has claimed
  a ticket; the first push to a reviewed ticket after a boot raises in
  `effective_cooldown` and is answered 500.
* `closed_while_running`: a PR closed during an attempt that ends in a deferral
  is claimed again, though a running attempt is supposed to have posted already.
* `synced_not_serving`: `--sync-env` pushes its variables, loses its deploy and
  exits 1; run again, as its message asks, it finds nothing to push, deploys
  nothing and exits 0, while the service runs with the old values.
* `stale_adapter`: adapters are cached by provider, index and model, but a Vertex
  adapter has its project and location built in; editing only those has no
  effect before the next boot.
* No run, but what `LabelsAreReal` excepts: "Prefix every added line with its real
  `file:line` target" (`diff_utils.py:50`) is not so for a file with white space in
  its name, whose header `_FILE_HEADER_RE` does not match, so that its added lines
  carry the name of the file before; nor after a removed `---x`, or after a form
  feed or U+2028 in a line of the hunk, from where the numbers are shifted.

## 6. Not modelled, and why

* Two processes of the queue at once during a deploy, the rename of a repository
  with its collision, the interleaving of two read-modify-writes of one comment
  body, and a call to GitHub that takes effect though it reports failure: listed
  as hazards without a property. Each needs state of its own in `ReviewQueue`,
  whose runs are at the size that can be checked in minutes; a second provider
  in `_blocked_until` likewise.
* GitHub App authentication, the signature check, settings, prices, prompts and
  findings are single calls or data. The dashboard's reads and its login change
  no state. In the Environment tab, the GitHub App identity and the variables
  edited directly; in the scripts, the read-only checks of `deploy.py`, `doctor`,
  `init_env`, `reset_queue` and `create_github_app`: sequential, or without
  effect on what is modelled.
* Text: formatting, the marker and footnote strings, truncation of a long diff.
* Bootstraps of the demo without a session (a visitor without the
  session's cookie who was not found to refuse cookies), whose reviews belong to nobody, and a sweep cut
  between its writes.
* The demo's cookies, login bypass, mocked dashboards and catalogues; its store
  has cooldown, retries and deferrals as no-ops.
* Contracts, documentation and tests have no runtime behaviour.

What would come next: a second process and a second provider in the queue, and
`GoodReviewsStay` with deleted comments.
