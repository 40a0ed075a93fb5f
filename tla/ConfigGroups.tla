---------------------------- MODULE ConfigGroups ----------------------------
(***************************************************************************)
(* The operational settings of runtime_config that come in groups: the     *)
(* re-review cooldown, the usage cap, the dispatcher's tuning knobs.  The  *)
(* columns of a group are only usable together, so each writer validates   *)
(* the group it is about to store as a whole (review_queue/                *)
(* cooldown_config.py, usage_cap_config.py, dispatcher_tuning_config.py)   *)
(* and stores it in one statement.                                         *)
(*                                                                         *)
(* Two columns stand for each group: the pair whose relation makes it      *)
(* unusable as a whole.  The other columns only have bounds of their own.  *)
(***************************************************************************)
EXTENDS Naturals

CONSTANTS
    Groups,           \* which of GroupNames are modelled
    MaxValue,         \* bound: the largest value of a column
    Null              \* SQL NULL

GroupNames == {"cooldown", "usage", "tuning"}

(* cooldown: base and max seconds; tuning: base and max backoff; usage: the
   token cap and the reset time, of which 0 is text that does not parse. *)
Columns == {"lo", "hi"}
Value == 0 .. MaxValue \cup {Null}
Group == [Columns -> Value]

ASSUME GroupsAssumption ==
    /\ Groups \subseteq GroupNames /\ MaxValue \in Nat /\ Null \notin Nat

VARIABLES stored      \* [Groups -> Group], the columns of runtime_config

GroupsTypeOK == stored \in [Groups -> Group]

(* problems(config) is empty. *)
Bounded(v) == v.lo # Null /\ v.hi # Null /\ v.hi > 0 /\ v.lo <= v.hi
Capped(v) == v.lo # 0 /\ v.hi \notin {0, Null}
GroupUsable(g, v) == IF g = "usage" THEN Capped(v) ELSE Bounded(v)
AllUsable == \A g \in Groups : GroupUsable(g, stored[g])

(* The declared default of a column; the token cap has none by design. *)
Default(g) ==
    [c \in Columns |-> IF g = "usage" /\ c = "lo" THEN Null ELSE MaxValue]

(* PATCH: the submitted columns over the current row. *)
Merge(current, submitted) ==
    [c \in Columns |-> IF c \in DOMAIN submitted THEN submitted[c] ELSE current[c]]

-----------------------------------------------------------------------------
(* Statements. *)

(* get_cooldown_overrides, get_usage_cap_overrides,
   get_dispatcher_tuning_config: all of a group's columns, in one query. *)
GetGroup(g) == stored[g]

(* set_cooldown_override, set_usage_cap_override, set_dispatcher_tuning_config:
   all the columns of the group and no other. *)
SetGroup(g, v) == stored' = [stored EXCEPT ![g] = v]

(* --sync-config-db: every column of every group in one upsert. *)
SetAllGroups(values) == stored' = [g \in Groups |-> values[g]]

(* _backfill_runtime_config: COALESCE(column, default), column by column. *)
Backfilled ==
    [g \in Groups |->
        [c \in Columns |-> IF stored[g][c] = Null THEN Default(g)[c] ELSE stored[g][c]]]
=============================================================================
