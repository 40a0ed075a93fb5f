--------------------------- MODULE ReviewPipeline ---------------------------
(***************************************************************************)
(* One attempt at a review: orchestrator.attempt_review runs the three     *)
(* specialists concurrently (specialists/base.py), each of which asks for  *)
(* an adapter and calls the model once, and once more to repair output     *)
(* that did not validate (providers/validate.py); then it merges what they *)
(* return, posts the comment and records the row.                          *)
(*                                                                         *)
(* Around it are two deployments of the same code: the service (UsageCap)  *)
(* and the demo (Demo), whose install_mocks replaces every boundary.       *)
(***************************************************************************)
EXTENDS Integers

CONSTANTS
    Selections,          \* what an adapter is built for: a provider, slot and model
    NoSelection,         \* no adapter was built
    Amounts           \* the tokens one call may consume

ASSUME PipelineAssumption ==
    /\ NoSelection \notin Selections
    /\ Amounts \subseteq Nat

(* The triple that asyncio.gather awaits. *)
Specialists == {"security", "performance", "quality"}

VARIABLES
    attempt           \* the attempt in progress: there is at most one

Stages == {"idle", "gather"}
(* "limited" and "failed" are how a specialist's task can end beside "ok". *)
Settled == {"ok", "failed", "limited"}
Work == [at : {"new", "first", "repair"} \cup Settled,
         used : Selections \cup {NoSelection},
         spent : Nat, tokens : Nat]

(* cached: what the dispatcher's refresh left in the caches of providers/. *)
PipelineTypeOK ==
    attempt \in [at : Stages, cached : Selections \cup {NoSelection},
                 work : [Specialists -> Work]]

NotStarted == [at |-> "new", used |-> NoSelection, spent |-> 0, tokens |-> 0]
NoAttempt == [at |-> "idle", cached |-> NoSelection,
              work |-> [s \in Specialists |-> NotStarted]]

PipelineInit == attempt = NoAttempt

-----------------------------------------------------------------------------
(* A specialist: run_specialist and validate_and_repair. *)

Doing(s, at) == attempt.at = "gather" /\ attempt.work[s].at = at
Does(s, work) == attempt' = [attempt EXCEPT !.work[s] = work]

(* The output validates. *)
Answered(work, n) == [work EXCEPT !.at = "ok", !.spent = @ + n, !.tokens = work.spent + n]

GetProvider(s, choice) ==
    /\ Doing(s, "new")
    /\ Does(s, [NotStarted EXCEPT !.at = "first", !.used = choice])

(* An adapter that answers without awaiting anything. *)
GetProviderAnswers(s, choice, n) ==
    /\ Doing(s, "new")
    /\ Does(s, Answered([NotStarted EXCEPT !.used = choice], n))

(* Nothing to build an adapter from. *)
GetProviderRaises(s) ==
    /\ Doing(s, "new")
    /\ Does(s, [NotStarted EXCEPT !.at = "failed"])

(* At the first call or after the repair retry. *)
CallAnswers(s, n) ==
    /\ Doing(s, "first") \/ Doing(s, "repair")
    /\ Does(s, Answered(attempt.work[s], n))

(* It does not: one repair retry, then a failed row with the tokens of both. *)
OutputInvalid(s, n) ==
    \/ /\ Doing(s, "first")
       /\ Does(s, [attempt.work[s] EXCEPT !.at = "repair", !.spent = n])
    \/ /\ Doing(s, "repair")
       /\ Does(s, [attempt.work[s] EXCEPT !.at = "failed", !.spent = @ + n,
                                         !.tokens = attempt.work[s].spent + n])

(* Any other exception: a failed row without tokens, also those of a first
   call that had answered. *)
CallRaises(s) ==
    /\ Doing(s, "first") \/ Doing(s, "repair")
    /\ Does(s, [attempt.work[s] EXCEPT !.at = "failed"])

(* A 429 is the one exception that reaches the orchestrator. *)
CallLimited(s) ==
    /\ Doing(s, "first") \/ Doing(s, "repair")
    /\ Does(s, [attempt.work[s] EXCEPT !.at = "limited"])

-----------------------------------------------------------------------------
(* attempt_review *)

StartAttempt(cached) ==
    attempt' = [at |-> "gather", cached |-> cached,
                work |-> [s \in Specialists |-> NotStarted]]
EndAttempt == attempt' = NoAttempt

Ended(s) == attempt.work[s].at
Gathered == attempt.at = "gather" /\ \A s \in Specialists : Ended(s) \in Settled

(* One rate limit defers the whole review. *)
IsLimited == Gathered /\ \E s \in Specialists : Ended(s) = "limited"
AllFailed == Gathered /\ \A s \in Specialists : Ended(s) = "failed"
IsReviewed == Gathered /\ ~IsLimited /\ ~AllFailed

Tokens(s) == attempt.work[s].tokens
TotalTokens == Tokens("security") + Tokens("performance") + Tokens("quality")

(* What the review says it was made with, and what its calls went to. *)
Reported == attempt.cached
Used == {attempt.work[s].used : s \in Specialists} \ {NoSelection}
=============================================================================
