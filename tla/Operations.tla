----------------------------- MODULE Operations -----------------------------
(***************************************************************************)
(* Operating the bot: the dashboard's Environment tab, set_override and     *)
(* deploy --sync-env, all over one service on Render and one database,      *)
(* while the platform deploys and the service boots and crashes.            *)
(***************************************************************************)
EXTENDS DeployCLI

CONSTANTS
    Starts,           \* bound: the configurations a behaviour starts from
    MaxOps            \* bound: how many operations are started

ASSUME OpsAssumption ==
    /\ \A start \in Starts :
          /\ start.env \in Env /\ start.stored \in [Groups -> Group]
          /\ start.provider \in Providers \cup {NoProvider}
          /\ start.key_index \in [Providers -> Slots \cup {NoIndex}]
          /\ start.slot_config \in [Keys -> SlotRow \cup {NoRow}]
    /\ MaxOps \in Nat

VARIABLES
    up,               \* the process serves: its boot gates were passed
    ops,              \* how many operations were started
    torn,             \* history: changes overlapped, or one was cut between its writes
    foreign           \* history: variables somebody else wrote since the sync began

opsVars == <<renderVars, configVars, stored, vouched, req, troubles, cli, sync,
             up, ops, torn, foreign>>

Tab == UNCHANGED <<cli, sync, up>>
CLI == UNCHANGED <<sync, up>>
Script == UNCHANGED up
Platform == UNCHANGED <<configVars, vouched, cli, sync>>

-----------------------------------------------------------------------------
(* What is going on, for the history variables. *)

Writers == {r \in Requests : Busy(r)}
InProgress ==
    Cardinality(Writers) + (IF Running THEN 1 ELSE 0) + (IF SyncBusy THEN 1 ELSE 0)

(* A PATCH that is past its probes; a set_override at its writes whose provider
   is already active. *)
MidPatch == \E r \in Requests : At(r, "config", "tasks") \/ At(r, "config", "group")
MidModel ==
    /\ Running /\ cli.at = "phases" /\ cli.args.model # Absent
    /\ cli.args.provider = provider

Tears == InProgress' > 1 \/ (troubles' # troubles /\ (MidPatch \/ MidModel))

History ==
    /\ torn' = (torn \/ Tears)
    /\ foreign' = IF sync'.at = "provider" /\ sync.at # "provider" THEN {}
                  ELSE foreign \cup {k \in Keys : env'[k] # env[k] /\ sync' = sync}

(* An operation starts, or what was started goes on. *)
Starting == ops < MaxOps /\ ops' = ops + 1 /\ History
Going == UNCHANGED ops /\ History

-----------------------------------------------------------------------------
(* Boot: init_pool fills the columns that are NULL, then main.py's gates. *)

GatesPass(groups) == BootGate /\ \A g \in Groups : GroupUsable(g, groups[g])

Boot ==
    /\ ~up /\ up' = GatesPass(Backfilled)
    /\ stored' = Backfilled
    /\ Fine
    /\ UNCHANGED <<renderVars, req>> /\ Platform /\ Going

Crash ==
    /\ up /\ Trouble("cut") /\ up' = FALSE
    /\ req' = [r \in Requests |-> Idle]
    /\ UNCHANGED <<renderVars, stored>> /\ Platform /\ Going

(* A deploy boots a process beside the one that serves; if its gates pass it
   takes over, and the old one is torn down with the handlers it runs. *)
NewProcessServes ==
    /\ DeployGoesLive /\ GatesPass(Backfilled)
    /\ stored' = Backfilled /\ up' = TRUE
    /\ IF req = [r \in Requests |-> Idle] THEN Fine ELSE Trouble("cut")
    /\ req' = [r \in Requests |-> Idle]
    /\ Platform /\ Going

(* It is refused, or does not build. *)
NewProcessFails ==
    /\ DeployFails
    /\ stored' \in {stored, Backfilled}
    /\ Fine
    /\ UNCHANGED <<req, up>> /\ Platform /\ Going

Resolves ==
    /\ DeployResolves /\ Fine
    /\ UNCHANGED <<stored, req, up>> /\ Platform /\ Going

-----------------------------------------------------------------------------
OpsInit ==
    /\ \E start \in Starts :
          /\ env = start.env /\ provider = start.provider /\ key_index = start.key_index
          /\ slot_config = start.slot_config /\ stored = start.stored
    /\ RenderInit /\ TabInit
    /\ vouched = IF BootGate THEN {<<ArmedSlot, ArmedRow>>} ELSE {}
    /\ cli = NotRunning /\ sync = SyncNever
    /\ up = FALSE /\ ops = 0 /\ torn = FALSE /\ foreign = {}

DashboardArrives == up /\ (\E r \in Requests : Arrivals(r)) /\ Tab /\ Starting
DashboardHandles == (\E r \in Requests : Handling(r)) /\ Tab /\ Going
CommandStarts == (\E args \in Commands : Command(args)) /\ CLI /\ Starting
CommandRuns == SetOverride /\ CLI /\ Going
SyncStarts == SyncEnv /\ Script /\ Starting
SyncRuns == Sync /\ Script /\ Going
OpsNext ==
    \/ DashboardArrives \/ DashboardHandles
    \/ CommandStarts \/ CommandRuns
    \/ SyncStarts \/ SyncRuns
    \/ Boot \/ Crash \/ NewProcessServes \/ NewProcessFails \/ Resolves

OpsSpec == OpsInit /\ [][OpsNext]_opsVars

-----------------------------------------------------------------------------
OpsTypeOK ==
    /\ RenderTypeOK /\ ConfigTypeOK /\ GroupsTypeOK
    /\ troubles \in 0 .. MaxTroubles /\ ops \in 0 .. MaxOps
    /\ up \in BOOLEAN /\ torn \in BOOLEAN /\ foreign \subseteq Keys

(* What ArmedIsProbed is about, as assumptions on the two bounds.  The service
   is configured when a behaviour starts: the slot that is armed has a row,
   which is what the boot gate asks for.  The command lines are those that probe
   what they arm: not --skip-probe, not --clear-model, and not --clear-index
   alone, which resets an index without a probe. *)
GatedStarts ==
    \A start \in Starts :
        start.provider # NoProvider =>
            start.slot_config[<<start.provider, IndexOrZero(start.key_index[start.provider])>>]
                # NoRow
ProbingCommands ==
    \A args \in Commands :
        \/ args.clear
        \/ /\ args.probe /\ args.model # NoModel
           /\ args.activate \/ args.index # NoIndex \/ args.model # Absent

(* The slot that reviews run with, as it stands, was accepted by a probe of
   that very slot: whichever of the dashboard and set_override armed it or
   edited it, in whatever sequence, with refused probes and failing calls.  Not
   promised while a change is between two writes, nor after two changes
   overlapped or one was interrupted there (torn). *)
ArmedIsProbed ==
    ~torn /\ ~MidPatch /\ ~MidModel /\ provider # NoProvider
        => <<ArmedSlot, ArmedRow>> \in vouched

(* When --sync-env waited for its deploy and exits 0, the process that serves
   has every value it pushed or found, whatever other deploys were in flight,
   failed or superseded it; only variables that somebody else wrote meanwhile
   are excepted. *)
ReportedLiveServes ==
    sync.at = "done" /\ sync.code = 0 /\ sync.id # 0
        => \A k \in sync.wanted \ foreign : serving[k] = Local[k]

(* Once the boot gate let the process serve, every group of settings stays
   usable as a whole, with PATCHes and syncs interleaving at will: nobody
   stores a combination that was not validated. *)
GroupsUsable == up => AllUsable

(* What --sync-env's exit code is taken for: 0 means that the service runs with
   the values in the operator's .env. *)
SyncMeansServing ==
    sync.at = "done" /\ sync.code = 0
        => \A k \in sync.wanted \ foreign : serving[k] = Local[k]
=============================================================================
