---------------------------- MODULE Deployments ----------------------------
(***************************************************************************)
(* The two deployments of the review pipeline: the service, whose reviews  *)
(* are limited by the usage cap, and the demo.  Which one a process is, is *)
(* decided when it is imported: uvicorn runs main:app or demo.app:app.     *)
(* In both, an attempt annotates the diff before it starts its specialists *)
(* and awaits nothing meanwhile: that walk meets no other step, and stands *)
(* beside the two as a behaviour of its own.                               *)
(***************************************************************************)
EXTENDS UsageCap, Demo, DiffAnnotation

VARIABLES deployment  \* which of them runs, or the walk

Service ==
    /\ deployment = "service" /\ CapNext
    /\ UNCHANGED <<demoVars, diffVars, deployment>>
DemoApp ==
    /\ deployment = "demo" /\ DemoNext
    /\ UNCHANGED <<capVars, diffVars, deployment>>
Annotation ==
    /\ deployment = "annotation" /\ DiffNext
    /\ UNCHANGED <<capVars, demoVars, attempt, deployment>>

DeploymentsInit ==
    /\ deployment \in {"service", "demo", "annotation"}
    /\ CapInit /\ DemoInit /\ DiffInit
    /\ deployment # "service" => armed = CHOOSE choice \in Armable : TRUE
DeploymentsNext == Service \/ DemoApp \/ Annotation

deploymentVars == <<capVars, demoVars, diffVars, attempt, deployment>>

(* The event loop runs the dispatcher's loop and every handler that started. *)
DeploymentsSpec ==
    /\ DeploymentsInit /\ [][DeploymentsNext]_deploymentVars
    /\ WF_deploymentVars(DemoApp /\ (DispatcherTurn \/ \E r \in Requests : RequestStep(r)))
=============================================================================
