--------------------------- MODULE ReviewService ---------------------------
(***************************************************************************)
(* What the queue promises, without queue, cooldown, comments or database: *)
(* pushes ask for reviews, one pull request is under review at a time, a   *)
(* review covers the pushes that came before it was started, and a PR is   *)
(* done with only when its last review covers them all or when somebody    *)
(* closed it while it waited.                                              *)
(***************************************************************************)
EXTENDS Naturals

CONSTANT PRs

VARIABLES
    phase,       \* [PRs -> {"idle", "owed", "reviewing"}]
    asked,       \* [PRs -> Nat], pushes so far
    started,     \* [PRs -> Nat], `asked' when the last review was started
    covered      \* [PRs -> Nat], pushes the last completed review covers

serviceVars == <<phase, asked, started, covered>>

ServiceInit ==
    /\ phase = [p \in PRs |-> "idle"]
    /\ asked = [p \in PRs |-> 0]
    /\ started = [p \in PRs |-> 0]
    /\ covered = [p \in PRs |-> 0]

Moves(p, to) == phase' = [phase EXCEPT ![p] = to]

Ask(p) ==
    /\ asked' = [asked EXCEPT ![p] = @ + 1]
    /\ Moves(p, IF phase[p] = "idle" THEN "owed" ELSE phase[p])
    /\ UNCHANGED <<started, covered>>

Start(p) ==
    /\ phase[p] = "owed" /\ \A q \in PRs : phase[q] # "reviewing"
    /\ asked[p] > covered[p]
    /\ started' = [started EXCEPT ![p] = asked[p]]
    /\ Moves(p, "reviewing")
    /\ UNCHANGED <<asked, covered>>

(* The provider is busy, the budget is spent, the attempt came to nothing. *)
PutOff(p) ==
    /\ phase[p] = "reviewing" /\ Moves(p, "owed")
    /\ UNCHANGED <<asked, started, covered>>

Complete(p) ==
    /\ phase[p] = "reviewing"
    /\ covered' = [covered EXCEPT ![p] = started[p]]
    /\ Moves(p, IF asked[p] > started[p] THEN "owed" ELSE "idle")
    /\ UNCHANGED <<asked, started>>

Withdraw(p) ==
    /\ phase[p] = "owed" /\ Moves(p, "idle")
    /\ UNCHANGED <<asked, started, covered>>

ServiceNext ==
    \E p \in PRs : Ask(p) \/ Start(p) \/ PutOff(p) \/ Complete(p) \/ Withdraw(p)

ServiceSpec == ServiceInit /\ [][ServiceNext]_serviceVars
=============================================================================
