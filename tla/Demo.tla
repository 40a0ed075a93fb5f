-------------------------------- MODULE Demo --------------------------------
(***************************************************************************)
(* The public demo: the same app with every boundary replaced              *)
(* (demo/app.py's install_mocks) and an in-memory store (demo/store.py).   *)
(* Each visitor's bootstrap delivers a webhook to the app itself; the      *)
(* dispatcher reviews with the provider and model that the visitor chose,  *)
(* which reach it through a side table of the store.  Handlers write the   *)
(* store in worker threads, the dispatcher claims in another, the sweep    *)
(* evicts in the event loop: one action is one write to a structure they   *)
(* share, but for the sweep, whose writes are one action.                  *)
(***************************************************************************)
EXTENDS ReviewPipeline, FiniteSets, Sequences, SequencesExt

CONSTANTS
    Sessions,         \* the visitors, the shared identity being one of them
    NoSession,        \* a review that belongs to nobody
    PRNumber,         \* pr_number_for: a hash, two sessions may collide
    DemoProviders,    \* demo.provider._PRICED, its keys
    ProviderOf,       \* the provider of a choice of provider and model
    Priced,           \* the default choice of a provider
    DefaultProvider,  \* _ACTIVE_PROVIDER, as the process starts
    Nobody,           \* _processing is None
    Visits,           \* which session comes with which choice
    MaxVisits,        \* bound: how many bootstraps there are
    MaxTickets,       \* MAX_TICKETS
    MaxRows,          \* MAX_REVIEWS
    DedupCapacity     \* webhook._DEDUP_CAPACITY

ASSUME DemoAssumption ==
    /\ NoSession \notin Sessions
    /\ Visits \subseteq Sessions \X Selections /\ MaxVisits \in Nat
    /\ ProviderOf \in [Selections -> DemoProviders]
    /\ Priced \in [DemoProviders -> Selections]
    /\ \A p \in DemoProviders : ProviderOf[Priced[p]] = p
    /\ DefaultProvider \in DemoProviders
    /\ {MaxTickets, MaxRows, DedupCapacity} \subseteq Nat \ {0}

VARIABLES
    known,            \* session._last_seen: the sessions not swept since
    delivered,        \* webhook._seen_deliveries, one per session, oldest first
    request,          \* the bootstraps in progress, by their number
    tickets,          \* _tickets, in the order of the dictionary
    context,          \* _ticket_context
    processing,       \* _processing
    active,           \* _ACTIVE_PROVIDER
    rows,             \* _reviews
    turn,             \* process_next_due: where it is, its ticket, its caches
    visits,           \* how many bootstraps there were: numbers the tickets, too
    waiting,          \* history: who is owed a review
    late              \* history: whose review ran on while they were swept

demoVars == <<known, delivered, request, tickets, context, processing,
              active, rows, turn, visits, waiting, late>>

Ids(seq) == {seq[i].id : i \in DOMAIN seq}
At(id) == CHOOSE i \in DOMAIN tickets : tickets[i].id = id
Requests == 1 .. MaxVisits
NotAsking == [at |-> "idle"]
Resting == [at |-> "idle", id |-> 0]

DemoInit ==
    /\ PipelineInit
    /\ known = {} /\ delivered = <<>>
    /\ request = [r \in Requests |-> NotAsking]
    /\ tickets = <<>> /\ context = <<>> /\ processing = Nobody
    /\ active = DefaultProvider
    /\ rows = <<>> /\ turn = Resting
    /\ visits = 0 /\ waiting = {} /\ late = {}

(* Mutant: one more is kept. *)
NewestButOne(seq, n) == IF Len(seq) > n + 1 THEN SubSeq(seq, Len(seq) - n, Len(seq)) ELSE seq
(* The last n of a sequence: what a rolling cap keeps. *)
Newest(seq, n) == IF Len(seq) > n THEN SubSeq(seq, Len(seq) - n + 1, Len(seq)) ELSE seq

(* What of a sequence is kept when the rest is filtered out of it. *)
Keep(seq, kept) ==
    LET part[n \in 0 .. Len(seq)] ==
            IF n = 0 THEN <<>>
            ELSE IF seq[n] \in kept THEN Append(part[n - 1], seq[n]) ELSE part[n - 1]
    IN  part[Len(seq)]

(* The tickets that _trim drops. *)
Crowded == Ids(tickets) \ Ids(Newest(tickets, MaxTickets))

(* Tickets go together with what the side table holds for them. *)
Drop(ids, table) ==
    /\ tickets' = Keep(tickets, {t \in ToSet(tickets) : t.id \notin ids})
    /\ context' = [d \in DOMAIN table \ ids |-> table[d]]

-----------------------------------------------------------------------------
(* A bootstrap: the middleware and routes.bootstrap, trigger.py's delivery,   *)
(* the webhook's dedup, enqueue_or_update.                                    *)

InRequest == UNCHANGED <<known, processing, active, rows, turn, visits, late, attempt>>
Asks(r, value) == request' = [request EXCEPT ![r] = value]

(* The middleware: whoever cannot keep a cookie is the shared session. *)
Touch(s) == known' = known \cup {s}

(* A delivery id already seen is a no-op. *)
Bootstrap(s, choice) ==
    /\ visits < MaxVisits /\ visits' = visits + 1
    /\ Touch(s)
    /\ IF Contains(delivered, s)
       THEN /\ delivered' = Append(Keep(delivered, Sessions \ {s}), s)
            /\ UNCHANGED request
       ELSE /\ Asks(visits', [at |-> "enqueue", session |-> s, choice |-> choice,
                             id |-> visits', new |-> TRUE])
            /\ UNCHANGED delivered
    /\ UNCHANGED <<tickets, context, processing, active, rows, turn, waiting, late, attempt>>

(* First the ticket: the one of this pull request becomes pending again,
   whatever its status, or a new one is inserted. *)
EnqueueTicket(r) ==
    /\ request[r].at = "enqueue"
    /\ LET number == PRNumber[request[r].session]
           found == {i \in DOMAIN tickets : tickets[i].pr = number}
       IN  IF found # {}
           THEN \E i \in found :
                  /\ tickets' = [tickets EXCEPT ![i].status = "pending"]
                  /\ Asks(r, [request[r] EXCEPT !.at = "context", !.id = tickets[i].id, !.new = FALSE])
           ELSE /\ tickets' = Append(tickets, [id |-> request[r].id, pr |-> number, status |-> "pending"])
                /\ Asks(r, [request[r] EXCEPT !.at = "context"])
    /\ InRequest /\ UNCHANGED <<delivered, context, waiting>>

(* The walk over the dictionary raises when another thread changes it. *)
EnqueueRaises(r) ==
    /\ request[r].at = "enqueue" /\ Asks(r, NotAsking)
    /\ InRequest /\ UNCHANGED <<delivered, tickets, context, waiting>>

(* A ticket that will be claimed for the context it is given here. *)
Awaits(id) ==
    /\ turn.id # id
    /\ \E i \in DOMAIN tickets : tickets[i].id = id /\ tickets[i].status = "pending"

(* Then the side table; and, for a new ticket, _trim: the oldest go. *)
StoreContext(r) ==
    /\ request[r].at = "context"
    /\ LET id == request[r].id
           s == request[r].session
           written == [d \in DOMAIN context \cup {id} |->
                          IF d = id THEN [session |-> s, choice |-> request[r].choice]
                          ELSE context[d]]
           dropped == IF request[r].new THEN Crowded ELSE {}
           displaced == {d \in DOMAIN context : d \in dropped \/ (d = id /\ turn.id # id)}
       IN  /\ Drop(dropped, written)
           /\ waiting' = (waiting \ {context[d].session : d \in displaced})
                            \cup (IF Awaits(id) /\ id \notin dropped THEN {s} ELSE {})
    /\ Asks(r, [request[r] EXCEPT !.at = "mark"])
    /\ InRequest /\ UNCHANGED delivered

(* The delivery is marked only after it was handled; the oldest is forgotten. *)
MarkDelivery(r) ==
    /\ request[r].at = "mark" /\ Asks(r, NotAsking)
    /\ delivered' = Newest(Append(Keep(delivered, Sessions \ {request[r].session}),
                                  request[r].session), DedupCapacity)
    /\ InRequest /\ UNCHANGED <<tickets, context, waiting>>

-----------------------------------------------------------------------------
(* The dispatcher over the store: process_next_due and attempt_review. *)

InTurn == UNCHANGED <<known, delivered, request, active, visits, late>>

(* The first pending ticket is claimed and its context published; without one
   the context of the last is withdrawn. *)
ClaimNextDue ==
    LET due == {i \in DOMAIN tickets : tickets[i].status = "pending"}
        first == CHOOSE i \in due : \A j \in due : i <= j
    IN  /\ turn = Resting
        /\ \/ /\ due # {}
              /\ tickets' = [tickets EXCEPT ![first].status = "running"]
              /\ turn' = [at |-> "refresh", id |-> tickets[first].id]
              /\ processing' = IF tickets[first].id \in DOMAIN context
                               THEN context[tickets[first].id] ELSE Nobody
           \/ due = {} /\ processing' = Nobody /\ UNCHANGED <<tickets, turn>>
        /\ InTurn /\ UNCHANGED <<context, rows, waiting, attempt>>

(* get_provider_override *)
ProviderInForce ==
    IF processing = Nobody THEN active ELSE ProviderOf[processing.choice]

(* Mutant: the models are the defaults, whatever the visitor chose. *)
DefaultModels == Priced
(* get_all_slot_configs *)
Models ==
    IF processing = Nobody THEN Priced
    ELSE [Priced EXCEPT ![ProviderOf[processing.choice]] = processing.choice]

RefreshFromStore ==
    /\ turn.at = "refresh"
    /\ turn' = [at |-> "review", id |-> turn.id, models |-> Models]
    /\ StartAttempt(Models[ProviderInForce])
    /\ InTurn /\ UNCHANGED <<tickets, context, processing, rows, waiting>>

InAttempt == InTurn /\ UNCHANGED <<tickets, context, processing, rows, turn, waiting>>

(* _demo_provider: the provider is read when the adapter is asked for, its
   model comes from the cache; the pair is one that MockProvider offers. *)
DemoProvider == turn.models[ProviderInForce]

(* MockProvider answers at once, with output that validates: the tasks run in
   the order they were created. *)
Earlier == "security" :> {} @@ "performance" :> {"security"}
             @@ "quality" :> {"security", "performance"}
SpecialistRuns(s) ==
    /\ \A p \in Earlier[s] : Ended(p) = "ok"
    /\ \E n \in Amounts : GetProviderAnswers(s, DemoProvider, n)
    /\ InAttempt

(* Mutant: the session of the request, and the dispatcher is in none. *)
NoTag == NoSession
(* The session whose ticket is being processed. *)
Tag == IF processing = Nobody THEN NoSession ELSE processing.session

(* The comment is a mock's.  record_review, and its _trim. *)
RecordReview ==
    /\ IsReviewed /\ EndAttempt
    /\ rows' = Newest(Append(rows, [session |-> Tag, reported |-> Reported, used |-> Used]), MaxRows)
    /\ Drop(Crowded, context)
    /\ waiting' = waiting \ ({Tag} \cup {context[d].session : d \in Crowded \cap DOMAIN context})
    /\ turn' = [at |-> "finalize", id |-> turn.id]
    /\ InTurn /\ UNCHANGED processing

(* finalize_review: done, if it is still there. *)
FinalizeReview ==
    /\ turn.at = "finalize" /\ turn' = Resting
    /\ tickets' = IF turn.id \in Ids(tickets)
                  THEN [tickets EXCEPT ![At(turn.id)].status = "done"] ELSE tickets
    /\ InTurn /\ UNCHANGED <<context, processing, rows, waiting, attempt>>

(* dashboard_reviews: one's own reviews, and those that are nobody's. *)
Shown(s) == {i \in DOMAIN rows : rows[i].session \in {s, NoSession}}

-----------------------------------------------------------------------------
(* The periodic sweep, and PATCH /config. *)

(* A session may have been idle for longer than TTL_SECONDS. *)
MayBeStale(s) == \A r \in Requests : request[r] # NotAsking => request[r].session # s

Evicted(sessions) == {d \in DOMAIN context : context[d].session \in sessions}
(* Mutant: the tickets are evicted, their reviews are left. *)
LeaveReviews(sessions) == Drop(Evicted(sessions), context) /\ UNCHANGED rows
EvictSessions(sessions) ==
    /\ Drop(Evicted(sessions), context)
    /\ rows' = Keep(rows, {row \in ToSet(rows) : row.session \notin sessions})

(* sweep_once: session.sweep, then evict_sessions, as one step.  The code filters
   the rows and drops the tickets in turn, beside the worker threads. *)
Reviewing == IF turn = Resting \/ processing = Nobody THEN {} ELSE {processing.session}
SweepOnce ==
    /\ \E stale \in SUBSET {s \in known : MayBeStale(s)} :
          /\ stale # {} /\ known' = known \ stale
          /\ EvictSessions(stale)
          /\ waiting' = waiting \ stale
          /\ late' = (late \ stale) \cup (Reviewing \cap stale)
    /\ UNCHANGED <<delivered, request, processing, active, turn, visits, attempt>>

(* A visitor selects another provider in the dashboard's Environment tab. *)
SetActiveProvider(p) ==
    /\ p # active /\ active' = p
    /\ UNCHANGED <<known, delivered, request, tickets, context, processing, rows,
                   turn, visits, waiting, late, attempt>>

-----------------------------------------------------------------------------
DispatcherTurn ==
    \/ ClaimNextDue \/ RefreshFromStore
    \/ \E s \in Specialists : SpecialistRuns(s)
    \/ RecordReview \/ FinalizeReview
RequestStep(r) == EnqueueTicket(r) \/ EnqueueRaises(r) \/ StoreContext(r) \/ MarkDelivery(r)

DemoNext ==
    \/ \E v \in Visits : Bootstrap(v[1], v[2])
    \/ \E r \in Requests : RequestStep(r)
    \/ DispatcherTurn
    \/ SweepOnce
    \/ \E p \in DemoProviders : SetActiveProvider(p)

-----------------------------------------------------------------------------
(* The process's memory is bounded whatever visitors do and however their
   requests interleave: the rolling caps hold, up to the tickets of requests
   that are between their two writes. *)
StoreBounded ==
    /\ Len(tickets) <= MaxTickets
                         + Cardinality({r \in Requests : request[r].at = "context"})
    /\ Len(rows) <= MaxRows /\ Len(delivered) <= DedupCapacity

(* Concurrent visitors do not get each other's choice: a review shown to a
   session was made, by all three specialists, with a provider and model this
   session asked for, and says so; although the choice travels through global
   state from the visitor's request to the dispatcher, other visitors collide
   with its pull request and anyone may change the active provider meanwhile. *)
RunsAsAsked ==
    \A s \in Sessions : \A i \in Shown(s) : rows[i].session # NoSession =>
        /\ <<s, rows[i].reported>> \in Visits
        /\ rows[i].used = {rows[i].reported}

(* The sweep and the store do not drift apart: nothing is kept of a session
   that was evicted and did not return, a review excepted that was running at
   that moment. *)
SweptIsGone ==
    \A s \in Sessions \ (known \cup late) :
        /\ \A i \in DOMAIN rows : rows[i].session # s
        /\ \A d \in DOMAIN context : context[d].session # s

(* Once no more visitors come, each whose ticket waited to be claimed has been
   served: a review of theirs was recorded, unless they were swept, crowded
   out, or displaced by a visitor with the same pull request number. *)
VisitorServed == []<>(waiting = {})
=============================================================================
