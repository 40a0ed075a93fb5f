--------------------------- MODULE EnvironmentTab ---------------------------
(***************************************************************************)
(* The dashboard's Environment tab (dashboard/environment.py): the         *)
(* handlers that change the service's environment variables on Render and  *)
(* the runtime configuration in Postgres.  Each runs in a worker thread of *)
(* its own and reads, probes and writes in separate calls, so that requests *)
(* interleave with each other and with the operator's scripts.  One action *)
(* is one statement, one probe or one HTTP call.                           *)
(***************************************************************************)
EXTENDS RuntimeConfig, ConfigGroups, Sequences, SequencesExt

CONSTANTS
    Requests,         \* requests that may be in progress at once
    ConfigPatches,    \* bound: the bodies of PATCH /config that are sent
    SlotPatches,      \* bound: those of PATCH /slot-config
    Applies,          \* bound: those of POST /credential/<family>/apply
    Deletes,          \* bound: DELETE /render/<key>, with or without confirm
    RenderPatches,    \* bound: the bodies of PATCH /render
    Troubles,         \* the kinds of trouble that occur
    MaxTroubles       \* bound: how many of them in a behaviour

Bodies == ConfigPatches \cup SlotPatches \cup Applies \cup Deletes \cup RenderPatches

TroubleKinds == {"database", "render", "probe", "cut"}
ASSUME TabAssumption ==
    /\ Troubles \subseteq TroubleKinds /\ MaxTroubles \in Nat
    /\ IsFiniteSet(Requests)

(* What the request models let through; the fields of PATCH /config that name no
   provider, or a slot out of range, are reported and change nothing. *)
ConfigFields(f) ==
    /\ "provider" \in DOMAIN f => f.provider \in Providers \cup {NoProvider}
    /\ "index" \in DOMAIN f =>
          /\ DOMAIN f.index \subseteq Providers
          /\ \A p \in DOMAIN f.index : f.index[p] \in Slots \cup {NoIndex}
    /\ \A g \in GroupNames \cap DOMAIN f :
          g \in Groups /\ \A c \in Columns \cap DOMAIN f[g] : f[g][c] \in Value
SlotFields(f) ==
    /\ "model" \in DOMAIN f => f.model \in Models \cup {NoModel}
    /\ "place" \in DOMAIN f => f.place \in Places \cup {NoPlace}

ASSUME BodiesAssumption ==
    /\ \A body \in ConfigPatches : body.kind = "config" /\ ConfigFields(body.fields)
    /\ \A body \in SlotPatches :
          body.kind = "slot" /\ body.slot \in Keys /\ SlotFields(body.fields)
    /\ \A body \in Applies :
          /\ body.kind = "apply" /\ body.slot \in Keys /\ body.row \in SlotRow
          /\ body.cred \in Creds \cup {NoCred}
    /\ \A body \in Deletes : body.kind = "delete" /\ body.key \in Keys
    /\ \A body \in RenderPatches :
          /\ body.kind = "render" /\ body.deletes \in Seq(Keys)
          /\ body.sets \in Seq(Keys \X (Creds \cup {NoCred}))

VARIABLES
    req,              \* [Requests -> what the handler is doing]
    troubles          \* how many there were

Idle == [at |-> "idle"]
Busy(r) == req[r] # Idle
At(r, kind, at) == Busy(r) /\ req[r].body.kind = kind /\ req[r].at = at

(* A call goes wrong in this way, or it does not. *)
Trouble(kind) ==
    /\ kind \in Troubles /\ troubles < MaxTroubles
    /\ troubles' = troubles + 1
Fine == UNCHANGED troubles

(* The handler of r goes on as `next', or answers. *)
Becomes(r, next) == req' = [req EXCEPT ![r] = next]
Answers(r) == Becomes(r, Idle)
GoesTo(r, at) == Becomes(r, [req[r] EXCEPT !.at = at])
Proceeds(r, at, todo) ==
    IF todo = <<>> THEN Answers(r) ELSE Becomes(r, [req[r] EXCEPT !.at = at, !.todo = todo])

OnlyReads == UNCHANGED <<renderVars, configVars, stored, vouched>>
OnlyConfig == UNCHANGED <<renderVars, stored, vouched>>
OnlyRender == UNCHANGED <<configVars, stored, vouched>>

(* The probe of `row' with the credential `cred' answers. *)
ProbeAccepts(slot, cred, row) ==
    /\ Accepts(slot[1], cred, row) /\ Fine
    /\ Vouch({<<slot, row>>})
ProbeRefuses(slot, cred, row) ==
    /\ IF Accepts(slot[1], cred, row) THEN Trouble("probe") ELSE Fine
    /\ UNCHANGED vouched

(* What a handler keeps: the body, the environment of its process, and what it
   has read so far. *)
Arrival(body, at) ==
    [at |-> at, body |-> body, env |-> serving,
     indexes |-> [p \in Providers |-> NoIndex], current |-> NoProvider,
     targets |-> {}, refused |-> {}, applied |-> {}, todo |-> <<>>, row |-> NoRow, group |-> <<>>]
Arrives(r, body, at) ==
    /\ ~Busy(r) /\ Becomes(r, Arrival(body, at))
    /\ Fine /\ OnlyReads

(* A statement outside any try block raises: the answer is a 500. *)
ReadFails(r) ==
    /\ Busy(r) /\ req[r].at \in {"indexes", "provider", "row", "probe"}
    /\ Trouble("database") /\ Answers(r) /\ OnlyReads

-----------------------------------------------------------------------------
(* PATCH /config: _apply_config_patch. *)

IndexField(f) == IF "index" \in DOMAIN f THEN f.index ELSE <<>>

(* Mutant: a submitted null is taken for a field that was not submitted. *)
StoredUnlessSet(f, indexes, p) ==
    IndexOrZero(IF p \in DOMAIN IndexField(f) /\ IndexField(f)[p] # NoIndex
                THEN IndexField(f)[p] ELSE indexes[p])
EffectiveIndex(f, indexes, p) ==
    IndexOrZero(IF p \in DOMAIN IndexField(f) THEN IndexField(f)[p] ELSE indexes[p])

ProviderChanging(f) == "provider" \in DOMAIN f /\ f.provider \in Providers

(* The fields of the body that were not refused, in the order they are applied. *)
Tasks(f, refused) ==
    LET If(field, task) ==
            IF field \in DOMAIN f /\ task \notin refused THEN <<task>> ELSE <<>>
    IN  If("provider", <<"provider", IF "provider" \in DOMAIN f THEN f.provider ELSE NoProvider>>)
        \o If("cooldown", <<"group", "cooldown">>)
        \o If("usage", <<"group", "usage">>)
        \o SetToSeq({<<"index", p>> : p \in DOMAIN IndexField(f)} \ refused)
        \o If("tuning", <<"group", "tuning">>)

(* _arming_probe_targets: what this PATCH would newly arm, with its slot. *)
ArmingTargets(f, indexes, current) ==
    LET Slot(p) == <<p, EffectiveIndex(f, indexes, p)>>
        Moved == {p \in DOMAIN IndexField(f) :
                    /\ EffectiveIndex(f, indexes, p) # IndexOrZero(indexes[p])
                    /\ p = current \/ (ProviderChanging(f) /\ p = f.provider)}
        Switched == IF ProviderChanging(f) /\ f.provider # current THEN {f.provider} ELSE {}
    IN  {<<<<"index", p>>, Slot(p)>> : p \in Moved}
        \cup {<<<<"provider", p>>, Slot(p)>> : p \in Switched}

ConfigPatch(r, body) ==
    IF DOMAIN IndexField(body.fields) # {} \/ ProviderChanging(body.fields)
    THEN Arrives(r, body, "indexes")
    ELSE LET todo == Tasks(body.fields, {})
         IN  /\ ~Busy(r) /\ Fine /\ OnlyReads
             /\ IF todo = <<>> THEN UNCHANGED req
                ELSE Becomes(r, [Arrival(body, "tasks") EXCEPT !.todo = todo])

(* Every target was probed: the fields that were not refused are applied. *)
Probing(r, targets, refused) ==
    IF targets = {}
    THEN Proceeds(r, "tasks", Tasks(req[r].body.fields, refused))
    ELSE Becomes(r, [req[r] EXCEPT !.at = "probe", !.targets = targets, !.refused = refused])

ReadStoredIndexes(r) ==
    /\ At(r, "config", "indexes")
    /\ Becomes(r, [req[r] EXCEPT !.at = "provider", !.indexes = key_index])
    /\ Fine /\ OnlyReads

ReadCurrentProvider(r) ==
    /\ At(r, "config", "provider")
    /\ Probing(r, ArmingTargets(req[r].body.fields, req[r].indexes, provider), {})
    /\ Fine /\ OnlyReads

(* _arming_problems: one slot, probed once for all the fields that arm it. *)
ProbeTarget(r) ==
    /\ At(r, "config", "probe")
    /\ \E slot \in {t[2] : t \in req[r].targets} :
          LET here == {t \in req[r].targets : t[2] = slot}
              cred == req[r].env[slot]
          IN  \/ /\ ProbeAccepts(slot, cred, slot_config[slot])
                 /\ Probing(r, req[r].targets \ here, req[r].refused)
              \/ /\ ProbeRefuses(slot, cred, slot_config[slot])
                 /\ Probing(r, req[r].targets \ here, req[r].refused \cup {t[1] : t \in here})
    /\ UNCHANGED <<renderVars, configVars, stored>>

Task(r) == Head(req[r].todo)
NextTask(r) == Proceeds(r, "tasks", Tail(req[r].todo))

ApplyProvider(r) ==
    /\ At(r, "config", "tasks") /\ Task(r)[1] = "provider"
    /\ SetProviderOverride(Task(r)[2])
    /\ NextTask(r) /\ Fine /\ OnlyConfig

ApplyKeyIndex(r) ==
    /\ At(r, "config", "tasks") /\ Task(r)[1] = "index"
    /\ SetKeyIndexOverride(Task(r)[2], req[r].body.fields.index[Task(r)[2]])
    /\ NextTask(r) /\ Fine /\ OnlyConfig

ReadGroup(r) ==
    /\ At(r, "config", "tasks") /\ Task(r)[1] = "group"
    /\ Becomes(r, [req[r] EXCEPT !.at = "group", !.group = GetGroup(Task(r)[2])])
    /\ Fine /\ OnlyReads

(* Mutant: what is stored is merged over the row as it is by now. *)
StoreOverCurrent(r) ==
    /\ At(r, "config", "group")
    /\ LET g == Task(r)[2]
           submitted == req[r].body.fields[g]
       IN  IF GroupUsable(g, Merge(req[r].group, submitted))
           THEN SetGroup(g, Merge(stored[g], submitted)) ELSE UNCHANGED stored
    /\ NextTask(r) /\ Fine /\ UNCHANGED <<renderVars, configVars, vouched>>
(* The merged group is stored if it is usable as a whole, else refused. *)
StoreGroup(r) ==
    /\ At(r, "config", "group")
    /\ LET g == Task(r)[2]
           merged == Merge(req[r].group, req[r].body.fields[g])
       IN  IF GroupUsable(g, merged) THEN SetGroup(g, merged) ELSE UNCHANGED stored
    /\ NextTask(r) /\ Fine /\ UNCHANGED <<renderVars, configVars, vouched>>

(* A statement of a task raises: reported, and the next task is tried. *)
TaskFails(r) ==
    /\ At(r, "config", "tasks") \/ At(r, "config", "group")
    /\ Trouble("database") /\ NextTask(r) /\ OnlyReads

-----------------------------------------------------------------------------
(* PATCH /slot-config: _apply_slot_config_patch. *)

SlotPatch(r, body) == Arrives(r, body, "row")

(* Merged over the stored row, checked and probed, but not yet written. *)
MergeAndProbe(r) ==
    /\ At(r, "slot", "row")
    /\ LET body == req[r].body
           old == slot_config[body.slot]
           Field(name, stored_) == IF name \in DOMAIN body.fields THEN body.fields[name] ELSE stored_
           row == RowOf(Field("model", ModelOf(old)),
                        IF body.slot[1] \in Vertex THEN Field("place", PlaceOf(old)) ELSE NoPlace)
           complete == row.model # NoModel /\ (body.slot[1] \in Vertex => row.place # NoPlace)
       IN  \/ /\ complete /\ ProbeAccepts(body.slot, req[r].env[body.slot], row)
               /\ Becomes(r, [req[r] EXCEPT !.at = "write", !.row = row])
           \/ /\ complete /\ ProbeRefuses(body.slot, req[r].env[body.slot], row)
              /\ Answers(r)
           \/ ~complete /\ Answers(r) /\ Fine /\ UNCHANGED vouched
    /\ UNCHANGED <<renderVars, configVars, stored>>

WriteSlotRow(r) ==
    /\ At(r, "slot", "write")
    /\ \/ SetSlotConfig(req[r].body.slot, req[r].row) /\ Fine
       \/ Trouble("database") /\ UNCHANGED configVars
    /\ Answers(r) /\ OnlyConfig

-----------------------------------------------------------------------------
(* POST /credential/<family>/apply: _apply_llm_credential. *)

(* Refused before anything is pushed, or probed with the credential sent. *)
Apply(r, body) ==
    /\ ~Busy(r) /\ body.cred # NoCred
    /\ body.slot[1] \in Vertex => body.row.place # NoPlace
    /\ ProbeAccepts(body.slot, body.cred, body.row)
    /\ Becomes(r, Arrival(body, "push"))
    /\ UNCHANGED <<renderVars, configVars, stored>>

PushCredential(r) ==
    /\ At(r, "apply", "push")
    /\ \/ /\ PushEnvVar(req[r].body.slot, req[r].body.cred) /\ Fine
          /\ GoesTo(r, "save")
       \/ /\ Trouble("render") /\ UNCHANGED renderVars
          /\ GoesTo(r, "save unpushed")
    /\ OnlyRender

(* Written whether or not the credential went out; the deploy needs the push. *)
SaveApplied(r) ==
    /\ At(r, "apply", "save") \/ At(r, "apply", "save unpushed")
    /\ \/ SetSlotConfig(req[r].body.slot, req[r].body.row) /\ Fine
       \/ Trouble("database") /\ UNCHANGED configVars
    /\ IF req[r].at = "save" THEN GoesTo(r, "deploy") ELSE Answers(r)
    /\ OnlyConfig

(* The last call of each handler that changed the environment; its failure is
   logged, and the answer reports what was applied all the same. *)
HandlerDeploys(r) ==
    /\ Busy(r) /\ req[r].at = "deploy"
    /\ \/ TriggerDeploy /\ Fine
       \/ Trouble("render") /\ UNCHANGED renderVars
    /\ Answers(r) /\ OnlyRender

-----------------------------------------------------------------------------
(* DELETE /render/<key>: _cascade_delete. *)

(* config_deps.dependents_of *)
Active(key, indexes, current) == current = key[1] /\ IndexOrZero(indexes[key[1]]) = key[2]
Overridden(key, indexes) == indexes[key[1]] = key[2]
HasDependents(key, indexes, current, row) ==
    Active(key, indexes, current) \/ Overridden(key, indexes) \/ row # NoRow

DeleteKey(r, body) == Arrives(r, body, "indexes")

ReadIndexes(r) ==
    /\ At(r, "delete", "indexes")
    /\ Becomes(r, [req[r] EXCEPT !.at = "provider", !.indexes = key_index])
    /\ Fine /\ OnlyReads

ReadProvider(r) ==
    /\ At(r, "delete", "provider")
    /\ Becomes(r, [req[r] EXCEPT !.at = "row", !.current = provider])
    /\ Fine /\ OnlyReads

(* 409 for the active slot whatever was confirmed, 409 for other dependents
   that were not. *)
CheckDependents(r) ==
    /\ At(r, "delete", "row")
    /\ LET body == req[r].body
           row == slot_config[body.key]
       IN  IF \/ Active(body.key, req[r].indexes, req[r].current)
              \/ /\ HasDependents(body.key, req[r].indexes, req[r].current, row)
                 /\ ~body.confirm
           THEN Answers(r)
           ELSE Becomes(r, [req[r] EXCEPT !.at = "delete", !.row = row])
    /\ Fine /\ OnlyReads

(* The dependents to clear, as they were read. *)
Cascade(r) ==
    (IF Overridden(req[r].body.key, req[r].indexes) THEN <<"index">> ELSE <<>>)
    \o (IF req[r].row # NoRow THEN <<"row">> ELSE <<>>)

DeleteVariable(r) ==
    /\ At(r, "delete", "delete")
    /\ \/ /\ DeleteEnvVar(req[r].body.key) /\ Fine
          /\ IF Cascade(r) = <<>> THEN GoesTo(r, "deploy")
             ELSE Becomes(r, [req[r] EXCEPT !.at = "cascade", !.todo = Cascade(r)])
       \/ Trouble("render") /\ UNCHANGED renderVars /\ Answers(r)
    /\ OnlyRender

(* One dependent is cleared; a statement that raises ends in a 500, with the
   variable gone and no deploy. *)
ClearDependent(r) ==
    /\ At(r, "delete", "cascade")
    /\ LET key == req[r].body.key
           rest == Tail(req[r].todo)
       IN  \/ /\ IF Head(req[r].todo) = "index"
                 THEN SetKeyIndexOverride(key[1], NoIndex)
                 ELSE DeleteSlotConfig(key)
              /\ Becomes(r, [req[r] EXCEPT !.todo = rest,
                                          !.at = IF rest = <<>> THEN "deploy" ELSE @])
              /\ Fine
           \/ Trouble("database") /\ Answers(r) /\ UNCHANGED configVars
    /\ OnlyConfig

-----------------------------------------------------------------------------
(* PATCH /render: _apply_render_patch. *)

(* The body: the keys to delete, then the <<key, value>> pairs to set. The
   overrides are read once for all the keys. *)
RenderPatch(r, body) ==
    IF body.deletes # <<>> THEN Arrives(r, body, "indexes")
    ELSE /\ ~Busy(r) /\ Fine /\ OnlyReads
         /\ Becomes(r, [Arrival(body, "sets") EXCEPT !.todo = body.sets])

ReadOverrides(r) ==
    /\ \/ /\ At(r, "render", "indexes")
          /\ Becomes(r, [req[r] EXCEPT !.at = "provider", !.indexes = key_index])
       \/ /\ At(r, "render", "provider")
          /\ Becomes(r, [req[r] EXCEPT !.at = "row", !.current = provider,
                                      !.todo = req[r].body.deletes])
    /\ Fine /\ OnlyReads

(* On to the next deletion, then to the sets, then to the deploy. *)
AfterDeletion(r, todo, applied) ==
    Becomes(r, [req[r] EXCEPT !.applied = applied,
        !.at = IF todo # <<>> THEN "row" ELSE "sets",
        !.todo = IF todo # <<>> THEN todo ELSE req[r].body.sets])
Finishes(r, applied) == IF applied = {} THEN Answers(r) ELSE GoesTo(r, "deploy")

(* A slot with dependents is skipped. *)
CheckSpare(r) ==
    /\ At(r, "render", "row")
    /\ LET key == Head(req[r].todo)
       IN  IF HasDependents(key, req[r].indexes, req[r].current, slot_config[key])
           THEN AfterDeletion(r, Tail(req[r].todo), req[r].applied)
           ELSE GoesTo(r, "delete")
    /\ Fine /\ OnlyReads

DeleteSpare(r) ==
    /\ At(r, "render", "delete")
    /\ LET key == Head(req[r].todo)
       IN  \/ /\ DeleteEnvVar(key) /\ Fine
              /\ AfterDeletion(r, Tail(req[r].todo), req[r].applied \cup {key})
           \/ /\ Trouble("render") /\ UNCHANGED renderVars
              /\ Finishes(r, req[r].applied)
    /\ OnlyRender

(* A credential is set as it comes; a failed call stops the rest. *)
SetVariable(r) ==
    /\ At(r, "render", "sets") /\ req[r].todo # <<>>
    /\ LET pair == Head(req[r].todo)
       IN  \/ /\ PushEnvVar(pair[1], pair[2]) /\ Fine
              /\ Becomes(r, [req[r] EXCEPT !.todo = Tail(@), !.applied = @ \cup {pair[1]}])
           \/ /\ Trouble("render") /\ UNCHANGED renderVars
              /\ Finishes(r, req[r].applied)
    /\ OnlyRender

SetsDone(r) ==
    /\ At(r, "render", "sets") /\ req[r].todo = <<>>
    /\ Finishes(r, req[r].applied) /\ Fine /\ OnlyReads

-----------------------------------------------------------------------------
(* The container is torn down, by a deploy that went live or by a crash, while
   the handler runs. *)
HandlerCut(r) == Busy(r) /\ Trouble("cut") /\ Answers(r) /\ OnlyReads

TabInit == req = [r \in Requests |-> Idle] /\ troubles = 0

Arrivals(r) ==
    \/ \E body \in ConfigPatches : ConfigPatch(r, body)
    \/ \E body \in SlotPatches : SlotPatch(r, body)
    \/ \E body \in Applies : Apply(r, body)
    \/ \E body \in Deletes : DeleteKey(r, body)
    \/ \E body \in RenderPatches : RenderPatch(r, body)

ApplyConfigPatch(r) ==
    \/ ReadStoredIndexes(r) \/ ReadCurrentProvider(r) \/ ProbeTarget(r)
    \/ ApplyProvider(r) \/ ApplyKeyIndex(r) \/ ReadGroup(r) \/ StoreGroup(r)
    \/ TaskFails(r)
ApplySlotPatch(r) == MergeAndProbe(r) \/ WriteSlotRow(r)
ApplyCredential(r) == PushCredential(r) \/ SaveApplied(r)
CascadeDelete(r) ==
    \/ ReadIndexes(r) \/ ReadProvider(r) \/ CheckDependents(r)
    \/ DeleteVariable(r) \/ ClearDependent(r)
ApplyRenderPatch(r) ==
    \/ ReadOverrides(r) \/ CheckSpare(r) \/ DeleteSpare(r)
    \/ SetVariable(r) \/ SetsDone(r)

Handling(r) ==
    \/ ApplyConfigPatch(r) \/ ApplySlotPatch(r) \/ ApplyCredential(r)
    \/ CascadeDelete(r) \/ ApplyRenderPatch(r)
    \/ HandlerDeploys(r) \/ ReadFails(r) \/ HandlerCut(r)
=============================================================================
