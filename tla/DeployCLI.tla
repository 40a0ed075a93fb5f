------------------------------ MODULE DeployCLI ------------------------------
(***************************************************************************)
(* scripts/deploy.py --sync-env: pushes the operator's local configuration *)
(* to Postgres and to Render, deploys, and waits until the deploy is live. *)
(* Its exit code is what the operator goes by: 0 means that the service    *)
(* runs with the local values, 2 that nothing was pushed, 1 anything else. *)
(***************************************************************************)
EXTENDS OverrideCLI

CONSTANTS
    LocalGroups,      \* .env.config's values of the groups
    LocalRow          \* .env.config's model and place, which seed slot 0

ASSUME SyncAssumption ==
    /\ LocalGroups \in [Groups -> Group]
    /\ LocalRow \in [Providers -> SlotRow]

VARIABLES sync        \* what the script is doing, and its exit code at the end

SyncNever == [at |-> "idle"]
SyncBusy == sync.at \notin {"idle", "done"}
SyncAt(at) == sync.at = at
SyncTo(at) == sync' = [sync EXCEPT !.at = at]
SyncExits(code) == sync' = [sync EXCEPT !.at = "done", !.code = code]

SyncOnlyReads == OnlyReads /\ UNCHANGED <<req, cli>>

(* A call raises. *)
SyncFails(kind, code) == Trouble(kind) /\ SyncExits(code) /\ SyncOnlyReads

SyncEnv ==
    /\ ~SyncBusy
    /\ sync' = [at |-> "provider", code |-> 0, provider |-> NoProvider, wanted |-> {},
                todo |-> <<>>, pushed |-> {}, id |-> 0]
    /\ Fine /\ SyncOnlyReads

(* _wanted_env: the credential of the provider in force, empty or not, and every
   other one that has a local value. *)
WantedEnv(p) == {<<p, 0>>} \cup {k \in Keys : Local[k] # NoCred}

(* _resolved_provider; then the guard against empty values. *)
ResolveProvider ==
    /\ SyncAt("provider")
    /\ \/ /\ IF provider = NoProvider \/ (provider # NoProvider /\ Local[<<provider, 0>>] = NoCred)
             THEN SyncExits(2)
             ELSE sync' = [sync EXCEPT !.at = "groups", !.provider = provider,
                                       !.wanted = WantedEnv(provider)]
          /\ Fine /\ SyncOnlyReads
       \/ SyncFails("database", 2)

(* sync_config_db: validated whole, then written in one upsert. *)
SyncConfigDB ==
    /\ SyncAt("groups")
    /\ \/ /\ \A g \in Groups : GroupUsable(g, LocalGroups[g])
          /\ SetAllGroups(LocalGroups) /\ SyncTo("seed") /\ Fine
          /\ UNCHANGED <<renderVars, configVars, vouched, req, cli>>
       \/ /\ \E g \in Groups : ~GroupUsable(g, LocalGroups[g])
          /\ SyncExits(2) /\ Fine /\ SyncOnlyReads
       \/ SyncFails("database", 2)

(* _seed_slot_zero_config_if_missing: never over an existing row. *)
SeedSlotZero ==
    /\ SyncAt("seed")
    /\ \/ /\ IF slot_config[<<sync.provider, 0>>] = NoRow
             THEN SetSlotConfig(<<sync.provider, 0>>, LocalRow[sync.provider])
             ELSE UNCHANGED configVars
          /\ SyncTo("compare") /\ Fine
          /\ OnlyConfig /\ UNCHANGED <<req, cli>>
       \/ SyncFails("database", 2)

(* Which of the wanted variables differ on Render. *)
CompareEnv ==
    /\ SyncAt("compare")
    /\ \/ /\ LET changed == {k \in sync.wanted : env[k] # Local[k]}
             IN  IF changed = {} THEN SyncExits(0)
                 ELSE sync' = [sync EXCEPT !.at = "push", !.todo = SetToSeq(changed)]
          /\ Fine /\ SyncOnlyReads
       \/ SyncFails("render", 2)

(* One variable at a time; a failure after the first is a partial push. *)
PushNext ==
    /\ SyncAt("push")
    /\ \/ /\ PushEnvVar(Head(sync.todo), Local[Head(sync.todo)])
          /\ sync' = [sync EXCEPT !.todo = Tail(@), !.pushed = @ \cup {Head(sync.todo)},
                                  !.at = IF Tail(sync.todo) = <<>> THEN "wait" ELSE @]
          /\ Fine /\ OnlyRender /\ UNCHANGED <<req, cli>>
       \/ SyncFails("render", IF sync.pushed = {} THEN 2 ELSE 1)

(* Mutant: a deploy in flight is adopted as the one to wait for. *)
AdoptInFlight ==
    /\ SyncAt("wait")
    /\ \/ /\ IF deploy.status \notin InFlight THEN SyncTo("trigger")
             ELSE sync' = [sync EXCEPT !.at = "poll", !.id = deploys]
          /\ Fine /\ SyncOnlyReads
       \/ SyncFails("render", 1)
(* _wait_for_in_flight: waits for a deploy that may have resolved its
   environment before the push, rather than adopt it. *)
WaitForInFlight ==
    /\ SyncAt("wait")
    /\ \/ /\ deploy.status \notin InFlight
          /\ SyncTo("trigger") /\ Fine /\ SyncOnlyReads
       \/ SyncFails("render", 1)

TriggerAndPoll ==
    /\ SyncAt("trigger")
    /\ \/ /\ TriggerDeploy
          /\ sync' = [sync EXCEPT !.at = "poll", !.id = deploys']
          /\ Fine /\ OnlyRender /\ UNCHANGED <<req, cli>>
       \/ SyncFails("render", 1)

(* Polls its own deploy; one superseded by another is not its success. *)
PollDeploy ==
    /\ SyncAt("poll")
    /\ \/ /\ StatusOf(sync.id) \notin InFlight
          /\ SyncExits(IF StatusOf(sync.id) = "live" THEN 0 ELSE 1)
          /\ Fine /\ SyncOnlyReads
       \/ SyncFails("render", 1)

SyncCut == SyncBusy /\ Trouble("cut") /\ SyncExits(1) /\ SyncOnlyReads

Sync ==
    \/ ResolveProvider \/ SyncConfigDB \/ SeedSlotZero \/ CompareEnv
    \/ PushNext \/ WaitForInFlight \/ TriggerAndPoll \/ PollDeploy \/ SyncCut
=============================================================================
