---------------------------- MODULE MCOperations ----------------------------
EXTENDS Operations

CONSTANTS gemini, vertex, valid, stale, good, bad, eu, us

V(n) == <<vertex, n>>
G(n) == <<gemini, n>>

MCProviders == {gemini, vertex}
MCVertex == {vertex}
MCCreds == {valid, stale}
MCModels == {good, bad}
MCEntitled == {<<valid, good>>}

Everywhere(value) == [k \in {gemini, vertex} \X {0, 1} |-> value]
MCLocal == Everywhere(valid)

MCGroups == {"cooldown", "usage"}
Usable == [lo |-> 1, hi |-> 1]
MCLocalGroups == [g \in MCGroups |-> Usable]
MCLocalRow == [p \in MCProviders |-> [model |-> bad, place |-> NoPlace]]

Row(model, place) == [model |-> model, place |-> place]

(* The slots hold rows of every quality, armed ones that a probe accepts. *)
Start(p, indexes, row, group) ==
    [env |-> [Everywhere(valid) EXCEPT ![G(1)] = stale],
     provider |-> p, key_index |-> indexes,
     slot_config |-> G(0) :> Row(good, NoPlace) @@ G(1) :> Row(good, NoPlace)
                     @@ V(0) :> Row(good, eu) @@ V(1) :> row,
     stored |-> [g \in MCGroups |-> group]]

Unset == [p \in MCProviders |-> NoIndex]
Fresh == [lo |-> Null, hi |-> Null]
MCStarts ==
    {Start(gemini, Unset, Row(bad, eu), Fresh),
     Start(gemini, [Unset EXCEPT ![vertex] = 1], Row(good, NoPlace), Fresh),
     Start(vertex, [Unset EXCEPT ![vertex] = 1], Row(good, eu), [lo |-> 2, hi |-> 1]),
     Start(vertex, Unset, NoRow, Usable)}

(* An operator who only syncs; one who only edits the armed Vertex slot. *)
GeminiStarts == {Start(gemini, Unset, NoRow, Usable)}
VertexStarts == {Start(vertex, Unset, NoRow, Usable)}
MovePlace == {[kind |-> "slot", slot |-> V(0), fields |-> [place |-> us]]}

Patch(fields) == [kind |-> "config", fields |-> fields]
MCConfigPatches ==
    {Patch([provider |-> vertex]), Patch([provider |-> NoProvider]),
     Patch([index |-> gemini :> 1]),
     Patch([provider |-> vertex, index |-> vertex :> 1]),
     Patch([provider |-> vertex, index |-> vertex :> NoIndex]),
     Patch([cooldown |-> [hi |-> 0]]), Patch([cooldown |-> [lo |-> 2]]),
     Patch([cooldown |-> [lo |-> 2, hi |-> 2]]),
     Patch([usage |-> [lo |-> Null]])}
MCSlotPatches ==
    {[kind |-> "slot", slot |-> G(0), fields |-> [model |-> bad]],
     [kind |-> "slot", slot |-> V(1), fields |-> [place |-> us]],
     [kind |-> "slot", slot |-> V(1), fields |-> [model |-> good, place |-> us]]}
MCApplies ==
    {[kind |-> "apply", slot |-> G(1), cred |-> valid, row |-> Row(good, NoPlace)]}
MCDeletes ==
    {[kind |-> "delete", key |-> k, confirm |-> TRUE] : k \in {G(0), V(1)}}
MCRenderPatches ==
    {[kind |-> "render", deletes |-> <<V(1), G(1)>>, sets |-> <<<<G(1), valid>>>>]}

Line(p, index, model, activate) ==
    [clear |-> FALSE, provider |-> p, index |-> index, model |-> model,
     activate |-> activate, probe |-> TRUE, force |-> FALSE]
MCCommands ==
    {Line(vertex, Absent, Absent, TRUE), Line(vertex, 1, Absent, TRUE),
     Line(vertex, 1, good, TRUE), Line(gemini, 1, Absent, FALSE),
     Line(vertex, 1, good, FALSE), [clear |-> TRUE]}

ASSUME MCAssumption == GatedStarts /\ ProbingCommands
=============================================================================
