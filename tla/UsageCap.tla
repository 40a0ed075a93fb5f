------------------------------ MODULE UsageCap ------------------------------
(***************************************************************************)
(* The daily usage cap of a credential slot: the dispatcher's pre-flight   *)
(* gate over the tokens recorded since the last reset (process_next_due,   *)
(* usage_cap_config.py, store.usage_bucket_start, record_review and        *)
(* get_key_usage), around attempts that take time, fail and are recorded   *)
(* under the instant they end.                                             *)
(*                                                                         *)
(* How long other deferrals last, and what becomes of the comment, is the  *)
(* subject of ReviewQueue: here those tickets are due again at once.       *)
(***************************************************************************)
EXTENDS ReviewPipeline

CONSTANTS
    Tickets,          \* the pull requests
    NoTicket,         \* the dispatcher has claimed none
    Armable,          \* the slots an operator selects
    TokenCap,         \* key_usage_token_cap
    DayLength,        \* instants in a day
    ResetTime,        \* key_usage_reset_time_utc
    LastDay,          \* bound: the day the clock stops on
    CapTroubles,      \* the kinds of trouble that occur
    MaxCapTroubles,   \* bound: how many of them in a behaviour
    MaxPushes         \* bound: how many pushes there are

CapTroubleKinds == {"database", "github", "invalid", "raises", "limited"}

ASSUME CapAssumption ==
    /\ TokenCap \in Nat \ {0} /\ LastDay \in Nat
    /\ DayLength \in Nat \ {0} /\ ResetTime \in 0 .. DayLength - 1
    /\ NoTicket \notin Tickets /\ Armable \subseteq Selections
    /\ CapTroubles \subseteq CapTroubleKinds
    /\ MaxCapTroubles \in Nat /\ MaxPushes \in Nat

VARIABLES
    now,              \* the time: a date and a time of day
    ticket,           \* [Tickets -> status and not_before]
    armed,            \* the slot the runtime configuration selects
    step,             \* process_next_due: where it is, its ticket, its `now'
    usage,            \* the reviews table, summed by slot and window
    troubles,         \* how many there were
    pushes,           \* how many there were
    unchecked         \* history: the gate was passed without a check

capVars == <<now, ticket, armed, step, usage, troubles, pushes, unchecked>>

-----------------------------------------------------------------------------
(* usage_bucket_start: the date whose reset opened the window of t.  The
   boundary instant itself belongs to the new window. *)

(* Mutant: the boundary instant belongs to the old window. *)
LateWindow(t) == IF t.time <= ResetTime THEN t.day - 1 ELSE t.day
Window(t) == IF t.time < ResetTime THEN t.day - 1 ELSE t.day

Instants == [day : 0 .. LastDay + 1, time : 0 .. DayLength - 1]
Windows == -1 .. LastDay
Before(t, u) == t.day < u.day \/ (t.day = u.day /\ t.time < u.time)

(* Mutant: the 24 hours are counted from the next reset. *)
SecondReset(t) == [day |-> Window(t) + 2, time |-> ResetTime]
(* bucket_start + 24 h *)
NextReset(t) == [day |-> Window(t) + 1, time |-> ResetTime]

(* The SUM of get_key_usage over a window: its total, and (history) what the
   last of its rows added. *)
Sum == [total : Nat, last : Nat]
Unused == [total |-> 0, last |-> 0]

(* record_review with created_at = t. *)
Recorded(choice, t, n) ==
    [usage EXCEPT ![choice][Window(t)] = [total |-> @.total + n, last |-> n]]

(* get_key_usage since the bucket's start: no row is of a later window. *)
KeyUsage(choice, t) == usage[choice][Window(t)].total

-----------------------------------------------------------------------------
Idle == [at |-> "idle", ticket |-> NoTicket, now |-> [day |-> 0, time |-> 0],
         cached |-> NoSelection, cap |-> FALSE]

CapTypeOK ==
    /\ PipelineTypeOK
    /\ now \in Instants /\ now.day <= LastDay
    /\ ticket \in [Tickets -> [status : {"none", "pending", "running", "capped", "done"},
                               not_before : Instants, window : Windows]]
    /\ armed \in Armable
    /\ step \in [at : {"idle", "refresh", "gate", "review"}, ticket : Tickets \cup {NoTicket},
                 now : Instants, cached : Selections \cup {NoSelection}, cap : BOOLEAN]
    /\ usage \in [Selections -> [Windows -> Sum]]
    /\ troubles \in 0 .. MaxCapTroubles /\ pushes \in 0 .. MaxPushes
    /\ unchecked \in BOOLEAN

CapInit ==
    /\ PipelineInit
    /\ now = [day |-> 0, time |-> 0]
    /\ ticket = [t \in Tickets |-> [status |-> "none", not_before |-> now, window |-> -1]]
    /\ armed \in Armable /\ step = Idle
    /\ usage = [c \in Selections |-> [w \in Windows |-> Unused]]
    /\ troubles = 0 /\ pushes = 0 /\ unchecked = FALSE

CapTrouble(kind) ==
    /\ kind \in CapTroubles /\ troubles < MaxCapTroubles
    /\ troubles' = troubles + 1
AllWell == UNCHANGED troubles

World == UNCHANGED <<now, armed, pushes>>
Is(t, status) == ticket' = [ticket EXCEPT ![t].status = status]

-----------------------------------------------------------------------------
(* The world: time passes, a push enqueues, an operator arms another slot. *)

Tick ==
    /\ IF now.time < DayLength - 1 THEN now' = [now EXCEPT !.time = @ + 1]
       ELSE now.day < LastDay /\ now' = [day |-> now.day + 1, time |-> 0]
    /\ UNCHANGED <<ticket, armed, step, usage, troubles, pushes, unchecked, attempt>>

Push(t) ==
    /\ pushes < MaxPushes /\ pushes' = pushes + 1
    /\ ticket[t].status \in {"none", "done"} /\ Is(t, "pending")
    /\ UNCHANGED <<now, armed, step, usage, troubles, unchecked, attempt>>

Arm(choice) ==
    /\ choice # armed /\ armed' = choice
    /\ UNCHANGED <<now, ticket, step, usage, troubles, pushes, unchecked, attempt>>

-----------------------------------------------------------------------------
(* process_next_due *)

IsDue(t) ==
    \/ ticket[t].status = "pending"
    \/ ticket[t].status = "capped" /\ ~Before(now, ticket[t].not_before)

Claim(t) ==
    /\ step.at = "idle" /\ IsDue(t)
    /\ Is(t, "running")
    /\ step' = [Idle EXCEPT !.at = "refresh", !.ticket = t, !.now = now]
    /\ World /\ AllWell /\ UNCHANGED <<usage, unchecked, attempt>>

(* The slot, and the cap: unreadable, it is not enforced this tick.  (What a
   failed refresh of the slot leads to is the subject of Reviewer.) *)
RefreshCaps ==
    /\ step.at = "refresh"
    /\ \/ step' = [step EXCEPT !.at = "gate", !.cached = armed, !.cap = TRUE] /\ AllWell
       \/ step' = [step EXCEPT !.at = "gate", !.cached = armed] /\ CapTrouble("database")
    /\ World /\ UNCHANGED <<ticket, usage, unchecked, attempt>>

Reviews == step' = [step EXCEPT !.at = "review"] /\ StartAttempt(step.cached)

(* Mutant: a budget that is spent to the last token passes. *)
SpentBeyond(n) == n > TokenCap
Spent(n) == n >= TokenCap

DeferUsageCapped ==
    /\ step.at = "gate" /\ step.cap /\ Spent(KeyUsage(step.cached, step.now))
    /\ ticket' = [ticket EXCEPT ![step.ticket] =
                    [status |-> "capped", not_before |-> NextReset(step.now),
                     window |-> Window(step.now)]]
    /\ step' = Idle
    /\ World /\ AllWell /\ UNCHANGED <<usage, unchecked, attempt>>

(* The budget is not spent; or the check fails, and is passed. *)
PassGate ==
    /\ step.at = "gate" /\ Reviews
    /\ \/ /\ step.cap /\ ~Spent(KeyUsage(step.cached, step.now))
          /\ AllWell /\ UNCHANGED unchecked
       \/ ~step.cap /\ AllWell /\ unchecked' = TRUE
       \/ step.cap /\ CapTrouble("database") /\ unchecked' = TRUE
    /\ World /\ UNCHANGED <<ticket, usage>>

-----------------------------------------------------------------------------
(* The attempt, with the service's adapters and the model's answers. *)

InReview == World /\ UNCHANGED <<ticket, step, usage, unchecked>>

SpecialistStarts(s) == GetProvider(s, step.cached) /\ AllWell /\ InReview
SpecialistAnswers(s) == (\E n \in Amounts : CallAnswers(s, n)) /\ AllWell /\ InReview
SpecialistErrs(s) ==
    /\ \/ (\E n \in Amounts : OutputInvalid(s, n)) /\ CapTrouble("invalid")
       \/ (GetProviderRaises(s) \/ CallRaises(s)) /\ CapTrouble("raises")
       \/ CallLimited(s) /\ CapTrouble("limited")
    /\ InReview

(* Rate limited, or every specialist failed: nothing is posted or recorded. *)
TryAgain ==
    /\ IsLimited \/ AllFailed
    /\ Is(step.ticket, "pending") /\ step' = Idle /\ EndAttempt
    /\ World /\ AllWell /\ UNCHANGED <<usage, unchecked>>

PostFails ==
    /\ IsReviewed /\ CapTrouble("github")
    /\ Is(step.ticket, "pending") /\ step' = Idle /\ EndAttempt
    /\ World /\ UNCHANGED <<usage, unchecked>>

(* Merged, posted and recorded.  A row that cannot be recorded does not fail
   the review. *)
PostAndRecord ==
    /\ IsReviewed
    /\ \/ usage' = Recorded(Reported, now, TotalTokens) /\ AllWell
       \/ UNCHANGED usage /\ CapTrouble("database")
    /\ Is(step.ticket, "done") /\ step' = Idle /\ EndAttempt
    /\ World /\ UNCHANGED unchecked

CapNext ==
    \/ Tick
    \/ \E t \in Tickets : Push(t) \/ Claim(t)
    \/ \E c \in Armable : Arm(c)
    \/ RefreshCaps \/ DeferUsageCapped \/ PassGate
    \/ \E s \in Specialists : SpecialistStarts(s) \/ SpecialistAnswers(s) \/ SpecialistErrs(s)
    \/ TryAgain \/ PostFails \/ PostAndRecord

CapSpec == CapInit /\ [][CapNext]_<<capVars, attempt>>

-----------------------------------------------------------------------------
(* A review of a slot starts only while the slot's budget of the window is not
   spent: without the row of its last review, no window holds as much as the
   cap.  Claimed before a reset and recorded after it, on the boundary instant,
   after any other slot was armed: unless a check failed and was passed. *)
UsageBounded ==
    ~unchecked =>
        \A c \in Selections, w \in Windows :
            usage[c][w].total - usage[c][w].last < TokenCap

(* A ticket deferred for the cap comes due exactly when the window it ran out
   of budget in is over: not an instant earlier, when it would be deferred by
   another day, nor later. *)
CapLifts ==
    \A t \in Tickets : ticket[t].status = "capped" =>
        (IsDue(t) <=> Window(now) > ticket[t].window)
=============================================================================
