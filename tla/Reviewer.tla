------------------------------ MODULE Reviewer ------------------------------
(***************************************************************************)
(* The configuration a review runs with.  Once per claimed ticket the      *)
(* dispatcher reads the provider, the key indexes and the slot rows into   *)
(* the caches of providers/, in three statements; every specialist then    *)
(* asks providers/factory.py for an adapter, which it builds from the      *)
(* caches and keeps for the life of the process.                           *)
(***************************************************************************)
EXTENDS Operations

CONSTANTS
    NoAdapter,        \* the cache has no instance for the key
    MaxReviews        \* bound: how many reviews are started

NotReviewing == [at |-> "idle"]

VARIABLES
    caches,           \* active._override, key_index._overrides and the rows behind
                      \* active_model._overrides and active_vertex_slot._overrides
    instances,        \* factory._instances
    review,           \* the review in progress, and the adapter it was given
    reviews           \* how many were started

reviewerVars == <<caches, instances, review, reviews>>

(* The cache keys, and what an adapter holds. *)
CacheKeys == Keys \X Models
Adapter == [place : Places \cup {NoPlace}, cred : Creds \cup {NoCred}]

EmptyRows == [k \in Keys |-> NoRow]
NoIndexes == [p \in Providers |-> NoIndex]
NoInstances == [k \in CacheKeys |-> NoAdapter]

(* A process that just started. *)
FreshProcess ==
    /\ caches' = [provider |-> NoProvider, indexes |-> NoIndexes, rows |-> EmptyRows]
    /\ instances' = NoInstances
    /\ review' = NotReviewing
ReviewerInit ==
    /\ caches = [provider |-> NoProvider, indexes |-> NoIndexes, rows |-> EmptyRows]
    /\ instances = NoInstances
    /\ review = NotReviewing /\ reviews = 0

(* A refresh that fails degrades to no provider, to index 0, to no rows. *)
Refresh(at, next, cache, stored_, degraded) ==
    /\ review.at = at
    /\ \/ caches' = [caches EXCEPT ![cache] = stored_] /\ Fine
       \/ caches' = [caches EXCEPT ![cache] = degraded] /\ Trouble("database")
    /\ review' = [at |-> next]
    /\ UNCHANGED <<instances, reviews>>

ClaimTicket ==
    /\ review = NotReviewing /\ reviews < MaxReviews
    /\ review' = [at |-> "provider"] /\ reviews' = reviews + 1
    /\ Fine /\ UNCHANGED <<caches, instances>>

RefreshProvider == Refresh("provider", "indexes", "provider", provider, NoProvider)
RefreshKeyIndex == Refresh("indexes", "rows", "indexes", key_index, NoIndexes)
RefreshSlotConfig == Refresh("rows", "build", "rows", slot_config, EmptyRows)

(* What the caches say. *)
CachedSlot == <<caches.provider, IndexOrZero(caches.indexes[caches.provider])>>

(* factory.get_provider, for the first of the specialists: an instance of the
   same provider, index and model is used as it is. *)
GetProvider ==
    /\ review.at = "build" /\ caches.provider \in Providers
    /\ LET slot == CachedSlot
           row == caches.rows[slot]
           key == <<slot, row.model>>
       IN  /\ row # NoRow /\ row.model # NoModel
           /\ IF instances[key] = NoAdapter
              THEN /\ Builds(slot[1], serving[slot], row)
                   /\ instances' = [instances EXCEPT ![key] =
                                      [place |-> row.place, cred |-> serving[slot]]]
              ELSE UNCHANGED instances
           /\ review' = [at |-> "calls", slot |-> slot, row |-> row,
                         adapter |-> instances'[key]]
    /\ Fine /\ UNCHANGED <<caches, reviews>>

(* Nothing to build from: every specialist fails, and with them the attempt. *)
GetProviderRaises ==
    /\ review.at = "build"
    /\ \/ caches.provider \notin Providers
       \/ /\ caches.provider \in Providers
          /\ LET slot == CachedSlot
                 row == caches.rows[slot]
             IN  \/ row = NoRow \/ ModelOf(row) = NoModel
                 \/ /\ row # NoRow /\ row.model # NoModel
                    /\ instances[<<slot, row.model>>] = NoAdapter
                    /\ ~Builds(slot[1], serving[slot], row)
    /\ review' = NotReviewing
    /\ Fine /\ UNCHANGED <<caches, instances, reviews>>

(* The specialists' calls return and the review is posted. *)
ReviewEnds ==
    /\ review.at = "calls"
    /\ review' = NotReviewing
    /\ Fine /\ UNCHANGED <<caches, instances, reviews>>

ReviewSteps ==
    \/ ClaimTicket \/ RefreshProvider \/ RefreshKeyIndex \/ RefreshSlotConfig
    \/ GetProvider \/ GetProviderRaises \/ ReviewEnds

(* The caches and the instances are the process's: a boot empties them. *)
AnotherProcess == up' # up \/ (deploy'.status = "live" /\ deploy.status # "live")
Operating ==
    /\ OpsNext
    /\ IF AnotherProcess
       THEN FreshProcess /\ UNCHANGED reviews ELSE UNCHANGED reviewerVars
Reviewing ==
    /\ up /\ ReviewSteps
    /\ UNCHANGED <<renderVars, configVars, stored, vouched, req, cli, sync,
                   up, ops, torn, foreign>>

ReviewerSpec ==
    OpsInit /\ ReviewerInit /\ [][Operating \/ Reviewing]_<<opsVars, reviewerVars>>

(* A review runs with the project and location of the row it was configured
   with: editing a slot takes effect on the next claimed ticket. *)
AdapterIsCurrent ==
    review.at = "calls" => review.adapter.place = review.row.place
=============================================================================
