----------------------------- MODULE OverrideCLI -----------------------------
(***************************************************************************)
(* scripts/set_override.py: the operator's command that selects a provider, *)
(* one of its credential slots and the slot's model.  It verifies and       *)
(* probes before it writes, and writes in separate statements, in an order  *)
(* chosen so that an interruption leaves no provider active against a slot  *)
(* that was not checked.  One action is one statement, probe or HTTP call.  *)
(***************************************************************************)
EXTENDS EnvironmentTab

CONSTANTS
    Commands,         \* bound: the command lines that are run
    Local,            \* the credentials in the operator's .env file
    Shell,            \* those credentials.resolve finds on that machine
    Absent,           \* an option that is not given
    Unread            \* the index is not resolved

ASSUME CommandAssumption ==
    /\ Local \in Env /\ Shell \in Env /\ Unread \notin Slots
    /\ \A args \in Commands :
          \/ args.clear
          \/ /\ args.provider \in Providers
             /\ args.index \in Slots \cup {NoIndex, Absent}
             /\ args.model \in Models \cup {NoModel, Absent}
             /\ args.activate \/ args.index # Absent \/ args.model # Absent

VARIABLES cli         \* what the command is doing

NotRunning == [at |-> "idle"]
Running == cli # NotRunning
Exits == cli' = NotRunning

(* A command line: the provider, --index N or --clear-index (NoIndex) or neither
   (Absent), --model NAME or --clear-model (NoModel) or neither (Absent),
   ~activate for --no-activate, ~probe for --skip-probe, --force; or --clear.
   main() takes any N >= 0; only the slots that exist are modelled. *)
(* Mutant: the model is written although none was given. *)
PhasesWithModel(args) ==
    LET If(condition, phases) == IF condition THEN phases ELSE <<>>
        named == args.model \notin {Absent, NoModel}
        touched == args.activate \/ args.index \in Slots
    IN  If(named /\ args.probe, <<"probe model">>)
        \o If(touched, <<"verify">>)
        \o If(touched /\ args.probe /\ ~named, <<"probe armed">>)
        \o If(args.index # Absent, <<"write index">>)
        \o <<"read row", "write model">>
        \o If(args.activate, <<"activate">>)
(* What is left to do after the argument checks of main(). *)
Phases(args) ==
    LET If(condition, phases) == IF condition THEN phases ELSE <<>>
        named == args.model \notin {Absent, NoModel}
        touched == args.activate \/ args.index \in Slots
    IN  If(named /\ args.probe, <<"probe model">>)
        \o If(touched, <<"verify">>)
        \o If(touched /\ args.probe /\ ~named, <<"probe armed">>)
        \o If(args.index # Absent, <<"write index">>)
        \o If(args.model # Absent, <<"read row", "write model">>)
        \o If(args.activate, <<"activate">>)

Command(args) ==
    /\ ~Running
    /\ cli' = IF args.clear THEN [at |-> "clear"]
              ELSE [at |-> "phases", args |-> args, todo |-> Phases(args),
                    index |-> Unread, row |-> NoRow, found |-> provider]
    /\ Fine /\ OnlyReads /\ UNCHANGED req

Phase(name) == Running /\ cli.at = "phases" /\ Head(cli.todo) = name
CLISlot == <<cli.args.provider, cli.index>>

(* The phases that share the index resolved by the one before. *)
KeepsIndex == {"probe armed", "write model"}
NextPhase ==
    LET rest == Tail(cli.todo)
    IN  IF rest = <<>> THEN Exits
        ELSE cli' = [cli EXCEPT !.todo = rest,
                        !.index = IF Head(rest) \in KeepsIndex THEN @ ELSE Unread]

(* --index N, else 0 for --clear-index, else the stored override or 0. *)
ResolveIndex ==
    /\ Running /\ cli.at = "phases" /\ cli.index = Unread
    /\ Head(cli.todo) \in {"probe model", "verify", "read row"}
    /\ cli' = [cli EXCEPT !.index =
                 IndexOrZero(IF cli.args.index = Absent THEN key_index[cli.args.provider]
                             ELSE cli.args.index)]
    /\ Fine /\ OnlyReads /\ UNCHANGED req

Probes(row) ==
    /\ \/ ProbeAccepts(CLISlot, Shell[CLISlot], row) /\ NextPhase
       \/ ProbeRefuses(CLISlot, Shell[CLISlot], row) /\ Exits
    /\ UNCHANGED <<renderVars, configVars, stored, req>>

(* The model named, at the place stored in the slot. *)
ProbeModel ==
    /\ Phase("probe model") /\ cli.index # Unread
    /\ Probes(RowOf(cli.args.model, PlaceOf(slot_config[CLISlot])))

(* The row stored in the slot that is being armed. *)
ProbeArmed ==
    /\ Phase("probe armed")
    /\ Probes(slot_config[CLISlot])

(* verify_render_slot: refused if Render lacks the credential or has another
   than the operator; what cannot be verified passes. *)
RenderHolds(slot) == env[slot] # NoCred /\ Local[slot] \in {NoCred, env[slot]}
VerifySlot ==
    /\ Phase("verify") /\ cli.index # Unread
    /\ \/ /\ Fine
          /\ IF RenderHolds(CLISlot) \/ cli.args.force THEN NextPhase ELSE Exits
       \/ Trouble("render") /\ NextPhase
    /\ OnlyReads /\ UNCHANGED req

WriteIndex ==
    /\ Phase("write index")
    /\ SetKeyIndexOverride(cli.args.provider, cli.args.index)
    /\ NextPhase /\ Fine /\ OnlyConfig /\ UNCHANGED req

(* The place is read back and written unchanged with the model. *)
ReadRow ==
    /\ Phase("read row") /\ cli.index # Unread
    /\ cli' = [cli EXCEPT !.row = slot_config[CLISlot], !.todo = Tail(@)]
    /\ Fine /\ OnlyReads /\ UNCHANGED req

WriteModel ==
    /\ Phase("write model")
    /\ SetSlotConfig(CLISlot, RowOf(cli.args.model, PlaceOf(cli.row)))
    /\ NextPhase /\ Fine /\ OnlyConfig /\ UNCHANGED req

Activate ==
    /\ Phase("activate")
    /\ SetProviderOverride(cli.args.provider)
    /\ Exits /\ Fine /\ OnlyConfig /\ UNCHANGED req

(* --clear *)
ClearProvider ==
    /\ Running /\ cli.at = "clear"
    /\ SetProviderOverride(NoProvider)
    /\ Exits /\ Fine /\ OnlyConfig /\ UNCHANGED req

(* A statement raises, or the command is interrupted: it ends where it is. *)
CommandDies ==
    /\ Running /\ (Trouble("database") \/ Trouble("cut")) /\ Exits
    /\ OnlyReads /\ UNCHANGED req

SetOverride ==
    \/ ResolveIndex \/ ProbeModel \/ VerifySlot \/ ProbeArmed
    \/ WriteIndex \/ ReadRow \/ WriteModel \/ Activate
    \/ ClearProvider \/ CommandDies
=============================================================================
