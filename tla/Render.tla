------------------------------- MODULE Render -------------------------------
(***************************************************************************)
(* The hosting platform (Render) as the bot's code sees it through         *)
(* render_client.py and scripts/deploy.py: the service's environment       *)
(* variables, its latest deploy, and the environment of the process that   *)
(* serves.  Changing a variable deploys nothing; a deploy resolves the     *)
(* variables at a moment of its own after it was created; a newer deploy   *)
(* supersedes one that is still in flight.                                 *)
(*                                                                         *)
(* Only the variables that hold credentials are modelled, one per slot.    *)
(***************************************************************************)
EXTENDS Naturals, FiniteSets

CONSTANTS
    Providers,        \* registry.PROVIDERS
    MaxSlots,         \* MAX_CREDENTIAL_SLOTS
    Creds,            \* the credentials there are
    NoCred            \* an environment variable that is not set

Slots == 0 .. MaxSlots - 1

(* slot_env_name: one variable per provider and slot. *)
Keys == Providers \X Slots
Env == [Keys -> Creds \cup {NoCred}]

ASSUME RenderAssumption ==
    /\ IsFiniteSet(Providers) /\ Providers # {}
    /\ MaxSlots \in Nat \ {0}
    /\ NoCred \notin Creds

VARIABLES
    env,              \* the service's environment variables
    serving,          \* the environment of the process that serves
    deploy,           \* the latest deploy
    deploys           \* how many there were: the id of the latest

renderVars == <<env, serving, deploy, deploys>>

InFlight == {"created", "building"}
Deploy == [status : InFlight \cup {"none", "live", "failed"}, env : Env]

RenderTypeOK ==
    /\ env \in Env /\ serving \in Env
    /\ deploy \in Deploy /\ deploys \in Nat

RenderInit ==
    /\ serving = env
    /\ deploy = [status |-> "none", env |-> env] /\ deploys = 0

-----------------------------------------------------------------------------
(* The calls of render_client.py, each one HTTP request. *)

PushEnvVar(key, value) ==
    /\ env' = [env EXCEPT ![key] = value]
    /\ UNCHANGED <<serving, deploy, deploys>>

DeleteEnvVar(key) == PushEnvVar(key, NoCred)

(* A deploy id other than the latest that was still in flight is canceled. *)
TriggerDeploy ==
    /\ deploy' = [status |-> "created", env |-> env]
    /\ deploys' = deploys + 1
    /\ UNCHANGED <<env, serving>>

(* The status a poll of deploy `id' reads. *)
StatusOf(id) == IF id = deploys THEN deploy.status ELSE "canceled"

-----------------------------------------------------------------------------
(* What the platform does by itself. *)

(* The deploy resolves the environment it will run with. *)
DeployResolves ==
    /\ deploy.status = "created"
    /\ deploy' = [status |-> "building", env |-> env]
    /\ UNCHANGED <<env, serving, deploys>>

(* The new container passes its health check and takes over. *)
DeployGoesLive ==
    /\ deploy.status = "building"
    /\ deploy' = [deploy EXCEPT !.status = "live"]
    /\ serving' = deploy.env
    /\ UNCHANGED <<env, deploys>>

(* The build fails, or the new process refuses to boot: the old one serves on. *)
DeployFails ==
    /\ deploy.status \in InFlight
    /\ deploy' = [deploy EXCEPT !.status = "failed"]
    /\ UNCHANGED <<env, serving, deploys>>
=============================================================================
