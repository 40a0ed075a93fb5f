--------------------------- MODULE OperationsProofs ---------------------------
(***************************************************************************)
(* Operating the bot, for any slots, requests, commands, mishaps and       *)
(* deploys:                                                                *)
(*   - GroupsStayUsable: no group of settings is ever stored that is not   *)
(*     usable as a whole;                                                  *)
(*   - OperationsTyped: every handler, command and script is where its     *)
(*     code can be, with the data that point needs;                        *)
(*   - ReportedLiveIsServed: when --sync-env reports that its deploy is    *)
(*     live, the service runs with the variables that it was to push.      *)
(***************************************************************************)
EXTENDS Operations, FiniteSetTheorems, SequenceTheorems, TLAPS

-----------------------------------------------------------------------------
(* The groups as a table: what is needed of it to write a column group. *)
StoredIsTable == stored = [g \in Groups |-> stored[g]]

(* Filling the columns that are NULL leaves a usable group usable. *)
LEMMA BackfillKeepsUsable ==
    AllUsable => \A g \in Groups : GroupUsable(g, Backfilled[g])
<1> SUFFICES ASSUME AllUsable, NEW g \in Groups
             PROVE  GroupUsable(g, Backfilled[g])
  OBVIOUS
<1>1. GroupUsable(g, stored[g])
  BY DEF AllUsable
<1>2. \A c \in Columns :
        Backfilled[g][c] = IF stored[g][c] = Null THEN Default(g)[c] ELSE stored[g][c]
  BY DEF Backfilled
<1>3. "lo" \in Columns /\ "hi" \in Columns
  BY DEF Columns
<1>4. CASE g = "usage"
  <2>1. stored[g].lo # 0 /\ stored[g].hi \notin {0, Null}
    BY <1>1, <1>4 DEF GroupUsable, Capped
  <2>2. Default(g)["lo"] = Null
    BY <1>3, <1>4 DEF Default
  <2>3. Backfilled[g].lo = stored[g].lo /\ Backfilled[g].hi = stored[g].hi
    BY <1>2, <1>3, <2>1, <2>2
  <2> QED
    BY <1>4, <2>1, <2>3 DEF GroupUsable, Capped
<1>5. CASE g # "usage"
  <2>1. Bounded(stored[g])
    BY <1>1, <1>5 DEF GroupUsable
  <2>2. Backfilled[g].lo = stored[g].lo /\ Backfilled[g].hi = stored[g].hi
    BY <1>2, <1>3, <2>1 DEF Bounded
  <2> QED
    BY <1>5, <2>1, <2>2 DEF GroupUsable, Bounded
<1> QED
  BY <1>4, <1>5

(* Storing a usable group keeps the groups usable. *)
LEMMA SetGroupKeepsUsable ==
    ASSUME StoredIsTable, NEW g, NEW v, GroupUsable(g, v), SetGroup(g, v)
    PROVE  StoredIsTable' /\ (AllUsable => AllUsable')
<1>1. \A h \in Groups : stored'[h] = IF h = g THEN v ELSE stored[h]
  BY DEF StoredIsTable, SetGroup
<1>2. StoredIsTable'
  BY DEF StoredIsTable, SetGroup
<1> QED
  BY <1>1, <1>2 DEF AllUsable

-----------------------------------------------------------------------------
(* Who writes the groups. *)

Validates == \E g, v : GroupUsable(g, v) /\ SetGroup(g, v)
ValidatesAll ==
    /\ \A g \in Groups : GroupUsable(g, LocalGroups[g])
    /\ SetAllGroups(LocalGroups)

(* A request that arrives writes none. *)
LEMMA ArrivalsKeep == \A r : Arrivals(r) => UNCHANGED stored
BY DEF Arrivals, ConfigPatch, SlotPatch, Apply, DeleteKey, RenderPatch, Arrives, OnlyReads

(* A handler writes one that it found usable, in StoreGroup only. *)
LEMMA HandlingValidates == \A r : Handling(r) => UNCHANGED stored \/ Validates
<1> SUFFICES ASSUME NEW r, Handling(r) PROVE UNCHANGED stored \/ Validates
  OBVIOUS
<1>1. CASE ApplyConfigPatch(r)
  <2>1. CASE StoreGroup(r)
    BY <2>1 DEF StoreGroup, Validates
  <2>2. CASE ReadStoredIndexes(r) \/ ReadCurrentProvider(r) \/ ProbeTarget(r)
    BY <2>2 DEF ReadStoredIndexes, ReadCurrentProvider, ProbeTarget, OnlyReads
  <2>3. CASE ApplyProvider(r) \/ ApplyKeyIndex(r) \/ ReadGroup(r) \/ TaskFails(r)
    BY <2>3 DEF ApplyProvider, ApplyKeyIndex, ReadGroup, TaskFails, OnlyReads, OnlyConfig
  <2> QED
    BY <1>1, <2>1, <2>2, <2>3 DEF ApplyConfigPatch
<1>2. CASE ApplySlotPatch(r) \/ ApplyCredential(r)
  BY <1>2 DEF ApplySlotPatch, ApplyCredential, MergeAndProbe, WriteSlotRow, PushCredential,
              SaveApplied, OnlyReads, OnlyConfig, OnlyRender
<1>3. CASE CascadeDelete(r)
  BY <1>3 DEF CascadeDelete, ReadIndexes, ReadProvider, CheckDependents, DeleteVariable,
              ClearDependent, OnlyReads, OnlyConfig, OnlyRender
<1>4. CASE ApplyRenderPatch(r)
  BY <1>4 DEF ApplyRenderPatch, ReadOverrides, CheckSpare, DeleteSpare, SetVariable, SetsDone,
              OnlyReads, OnlyConfig, OnlyRender
<1>5. CASE HandlerDeploys(r) \/ ReadFails(r) \/ HandlerCut(r)
  BY <1>5 DEF HandlerDeploys, ReadFails, HandlerCut, OnlyReads, OnlyRender
<1> QED
  BY <1>1, <1>2, <1>3, <1>4, <1>5 DEF Handling

(* set_override writes none. *)
LEMMA CommandsKeep ==
    /\ \A args : Command(args) => UNCHANGED stored
    /\ SetOverride => UNCHANGED stored
<1>1. \A args : Command(args) => UNCHANGED stored
  BY DEF Command, OnlyReads
<1>2. SetOverride => UNCHANGED stored
  BY DEF SetOverride, ResolveIndex, ProbeModel, VerifySlot, ProbeArmed, WriteIndex, ReadRow,
         WriteModel, Activate, ClearProvider, CommandDies, Probes, OnlyReads, OnlyConfig
<1> QED
  BY <1>1, <1>2

(* --sync-env writes them all at once, and validates them all before. *)
LEMMA SyncValidates ==
    /\ SyncEnv => UNCHANGED stored
    /\ Sync => UNCHANGED stored \/ ValidatesAll
<1>1. SyncEnv => UNCHANGED stored
  BY DEF SyncEnv, SyncOnlyReads, OnlyReads
<1>2. SyncConfigDB => UNCHANGED stored \/ ValidatesAll
  BY DEF SyncConfigDB, SyncFails, SyncOnlyReads, OnlyReads, ValidatesAll
<1>3. ResolveProvider \/ SeedSlotZero \/ CompareEnv \/ PushNext => UNCHANGED stored
  BY DEF ResolveProvider, SeedSlotZero, CompareEnv, PushNext, SyncFails, SyncOnlyReads,
         OnlyReads, OnlyConfig, OnlyRender
<1>4. WaitForInFlight \/ TriggerAndPoll \/ PollDeploy \/ SyncCut => UNCHANGED stored
  BY DEF WaitForInFlight, TriggerAndPoll, PollDeploy, SyncCut, SyncFails, SyncOnlyReads,
         OnlyReads, OnlyRender
<1> QED
  BY <1>1, <1>2, <1>3, <1>4 DEF Sync

-----------------------------------------------------------------------------
(* A boot validates what it has filled in; a boot beside the one that serves
   may fill in and then be refused. *)

GroupsInv == StoredIsTable /\ GroupsUsable

(* At the start every group is usable: the columns are the defaults of the first boot. *)
LEMMA InitGroups == OpsInit => GroupsInv
BY OpsAssumption DEF OpsInit, GroupsInv, StoredIsTable, GroupsUsable

(* A step that writes no group, or writes validated ones, keeps them usable. *)
LEMMA KeepsGroups ==
    ASSUME GroupsInv, UNCHANGED up, UNCHANGED stored \/ Validates \/ ValidatesAll
    PROVE  GroupsInv'
<1>1. CASE UNCHANGED stored
  BY <1>1 DEF GroupsInv, StoredIsTable, GroupsUsable, AllUsable
<1>2. CASE Validates
  <2>1. PICK g, v : GroupUsable(g, v) /\ SetGroup(g, v)
    BY <1>2 DEF Validates
  <2> QED
    BY <2>1, SetGroupKeepsUsable DEF GroupsInv, GroupsUsable
<1>3. CASE ValidatesAll
  BY <1>3 DEF ValidatesAll, SetAllGroups, GroupsInv, StoredIsTable, GroupsUsable, AllUsable
<1> QED
  BY <1>1, <1>2, <1>3

(* A boot fills the columns that are NULL. *)
LEMMA BootsGroups ==
    ASSUME GroupsInv, Boot \/ Crash \/ NewProcessServes \/ NewProcessFails \/ Resolves
    PROVE  GroupsInv'
<1>1. CASE stored' = Backfilled /\ up' = GatesPass(Backfilled)
  BY <1>1 DEF GatesPass, GroupsInv, GroupsUsable, AllUsable, StoredIsTable, Backfilled
<1>2. CASE UNCHANGED stored /\ (up' = up \/ up' = FALSE)
  BY <1>2 DEF GroupsInv, StoredIsTable, GroupsUsable, AllUsable
<1>3. CASE stored' = Backfilled /\ UNCHANGED up
  <2>1. StoredIsTable'
    BY <1>3 DEF StoredIsTable, Backfilled
  <2>2. GroupsUsable'
    BY <1>3, BackfillKeepsUsable DEF GroupsInv, GroupsUsable, AllUsable
  <2> QED
    BY <2>1, <2>2 DEF GroupsInv
<1>4. CASE NewProcessServes
  <2>1. stored' = Backfilled /\ GatesPass(Backfilled)
    BY <1>4 DEF NewProcessServes
  <2> QED
    BY <2>1 DEF GatesPass, GroupsInv, GroupsUsable, AllUsable, StoredIsTable, Backfilled
<1> QED
  BY <1>1, <1>2, <1>3, <1>4 DEF Boot, Crash, NewProcessFails, Resolves

(* Every step keeps the groups usable. *)
LEMMA NextGroups == GroupsInv /\ [OpsNext]_opsVars => GroupsInv'
<1> SUFFICES ASSUME GroupsInv, [OpsNext]_opsVars PROVE GroupsInv'
  OBVIOUS
<1>1. CASE DashboardArrives \/ DashboardHandles
  BY <1>1, ArrivalsKeep, HandlingValidates, KeepsGroups DEF DashboardArrives, DashboardHandles, Tab
<1>2. CASE CommandStarts \/ CommandRuns
  BY <1>2, CommandsKeep, KeepsGroups DEF CommandStarts, CommandRuns, CLI
<1>3. CASE SyncStarts \/ SyncRuns
  BY <1>3, SyncValidates, KeepsGroups DEF SyncStarts, SyncRuns, Script
<1>4. CASE Boot \/ Crash \/ NewProcessServes \/ NewProcessFails \/ Resolves
  BY <1>4, BootsGroups
<1>5. CASE UNCHANGED opsVars
  BY <1>5, KeepsGroups DEF opsVars
<1> QED
  BY <1>1, <1>2, <1>3, <1>4, <1>5 DEF OpsNext

(* While the process serves every group of settings is usable as a whole:
   although a PATCH merges over values it has read before, a sync overwrites
   them and a process that boots beside it fills in defaults. *)
THEOREM GroupsStayUsable == OpsSpec => []GroupsUsable
<1>1. OpsSpec => []GroupsInv
  BY InitGroups, NextGroups, PTL DEF OpsSpec
<1> QED
  BY <1>1, PTL DEF GroupsInv

-----------------------------------------------------------------------------
(* The types: what each handler, command and script holds at each point. *)


(* A finite set made a sequence: every member is in it and nothing else. *)
LEMMA SetToSeqLists ==
    ASSUME NEW S, IsFiniteSet(S)
    PROVE  /\ SetToSeq(S) \in Seq(S)
           /\ \A x \in S : \E i \in 1 .. Len(SetToSeq(S)) : SetToSeq(S)[i] = x
           /\ S # {} => SetToSeq(S) # <<>>
<1> DEFINE n == Cardinality(S)
           f == SetToSeq(S)
<1>1. n \in Nat /\ \E g \in [1 .. n -> S] : IsInjective(g)
  BY FS_CardinalityType, FS_Bijection DEF IsInjective, Bijection, Injection, ExistsBijection
<1>2. f \in [1 .. n -> S] /\ IsInjective(f)
  BY <1>1 DEF SetToSeq
<1> HIDE DEF f
<1>3. f \in Seq(S) /\ Len(f) = n
  BY <1>1, <1>2
<1>4. \A x \in S : \E i \in 1 .. n : f[i] = x
  <2>1. IsFiniteSet(1 .. n) /\ Cardinality(1 .. n) = n
    BY <1>1, FS_Interval
  <2>2. f \in Surjection(1 .. n, S)
    BY <1>2, <2>1, FS_Injection DEF Injection
  <2> QED
    BY <2>2 DEF Surjection
<1> QED
  BY <1>3, <1>4, FS_EmptySet DEF f

-----------------------------------------------------------------------------
(* What a handler keeps, by where it is. *)

HandlerFields == {"at", "body", "env", "indexes", "current", "targets", "refused",
                  "applied", "todo", "row", "group"}

TasksOf(f) ==
    (IF "provider" \in DOMAIN f THEN {<<"provider", f.provider>>} ELSE {})
    \cup {<<"group", g>> : g \in GroupNames \cap DOMAIN f}
    \cup {<<"index", p>> : p \in DOMAIN IndexField(f)}

ConfigHandler(q) ==
    /\ q.at = "probe" => \A t \in q.targets : t[2] \in Keys
    /\ q.at \in {"tasks", "group"} => q.todo \in Seq(TasksOf(q.body.fields)) /\ q.todo # <<>>
    /\ q.at = "group" => q.group \in Group /\ Head(q.todo)[1] = "group"
SlotHandler(q) == q.at = "write" => q.row \in SlotRow
DeleteHandler(q) == q.at = "cascade" => q.todo \in Seq({"index", "row"}) /\ q.todo # <<>>
RenderHandler(q) ==
    /\ q.at \in {"row", "delete"} => q.todo \in Seq(Keys) /\ q.todo # <<>>
    /\ q.at = "indexes" => q.body.deletes # <<>>
    /\ q.at = "provider" => q.body.deletes # <<>>
    /\ q.at = "sets" => q.todo \in Seq(Keys \X (Creds \cup {NoCred}))

HandlerTyped(q) ==
    /\ DOMAIN q = HandlerFields
    /\ q.body \in Bodies /\ q.env \in Env
    /\ q.indexes \in [Providers -> Slots \cup {NoIndex}]
    /\ q.body.kind = "config" => ConfigHandler(q)
    /\ q.body.kind = "slot" => SlotHandler(q)
    /\ q.body.kind = "delete" => DeleteHandler(q)
    /\ q.body.kind = "render" => RenderHandler(q)

RequestsTyped ==
    /\ DOMAIN req = Requests
    /\ \A r \in Requests : req[r] = Idle \/ HandlerTyped(req[r])

(* What set_override has left to do: the phases from each point on. *)
Named(args) == args.model \notin {Absent, NoModel}
Touched(args) == args.activate \/ args.index \in Slots
Optional(condition, phase, rest) == IF condition THEN <<phase>> \o rest ELSE rest
FromActivate(a) == Optional(a.activate, "activate", <<>>)
FromModel(a) == Optional(a.model # Absent, "write model", FromActivate(a))
FromRow(a) == Optional(a.model # Absent, "read row", FromModel(a))
FromIndex(a) == Optional(a.index # Absent, "write index", FromRow(a))
FromArmed(a) == Optional(Touched(a) /\ a.probe /\ ~Named(a), "probe armed", FromIndex(a))
FromVerify(a) == Optional(Touched(a), "verify", FromArmed(a))
FromStart(a) == Optional(Named(a) /\ a.probe, "probe model", FromVerify(a))
Rests(a) == {FromActivate(a), FromModel(a), FromRow(a), FromIndex(a), FromArmed(a),
             FromVerify(a), FromStart(a)}

CommandTyped(c) ==
    /\ DOMAIN c = {"at", "args", "todo", "index", "row", "found"}
    /\ c.at = "phases" /\ c.args \in Commands /\ ~c.args.clear
    /\ c.todo \in Rests(c.args) /\ c.todo # <<>>
    /\ c.index \in Slots \cup {Unread}
    /\ Head(c.todo) \in KeepsIndex => c.index \in Slots
    /\ c.row \in SlotRow \cup {NoRow}
CLITyped == cli = NotRunning \/ cli = [at |-> "clear"] \/ CommandTyped(cli)

ScriptTyped(s) ==
    /\ DOMAIN s = {"at", "code", "provider", "wanted", "todo", "pushed", "id"}
    /\ s.at \in {"provider", "groups", "seed", "compare", "push", "wait", "trigger",
                 "poll", "done"}
    /\ s.at \in {"groups", "seed", "compare", "push"} => s.provider \in Providers
    /\ s.wanted \subseteq Keys
    /\ s.at = "push" => s.todo \in Seq(Keys) /\ s.todo # <<>>
SyncTyped == sync = SyncNever \/ ScriptTyped(sync)

Typed == OpsTypeOK /\ RequestsTyped /\ CLITyped /\ SyncTyped

-----------------------------------------------------------------------------
(* --sync-env and the platform. *)
Agrees(e) == \A k \in sync.wanted \ foreign : e[k] = Local[k]
LeftToPush == {sync.todo[i] : i \in DOMAIN sync.todo}
SyncServes ==
    /\ sync.at \in {"provider", "groups", "seed", "compare", "push", "wait", "trigger"} => sync.id = 0
    /\ sync.at \notin {"idle", "done"} => sync.code = 0
    /\ sync.at \notin {"idle"} => sync.id \in 0 .. deploys
    /\ sync.at = "provider" => sync.wanted = {}
    /\ sync.at = "push" => \A k \in sync.wanted \ foreign : env[k] = Local[k] \/ k \in LeftToPush
    /\ sync.at \in {"wait", "trigger", "poll"} => Agrees(env)
    /\ sync.at = "poll" => sync.id # 0 /\ (sync.id = deploys => Agrees(deploy.env))
    /\ sync.at = "done" /\ sync.code = 0 /\ sync.id # 0 =>
            Agrees(env) /\ Agrees(deploy.env) /\ Agrees(serving)
    /\ deploy.status = "live" => serving = deploy.env
-----------------------------------------------------------------------------
World == RenderTypeOK /\ ConfigTypeOK /\ GroupsTypeOK /\ troubles \in 0 .. MaxTroubles

(* The mishaps spent stay within their bound. *)
LEMMA TroubleTyped ==
    ASSUME troubles \in 0 .. MaxTroubles, Fine \/ \E kind : Trouble(kind)
    PROVE  troubles' \in 0 .. MaxTroubles
BY TabAssumption DEF Fine, Trouble

(* Setting or deleting a variable of the service keeps its environment typed. *)
LEMMA PushTyped ==
    ASSUME RenderTypeOK, NEW key, NEW value \in Creds \cup {NoCred}, PushEnvVar(key, value)
    PROVE  RenderTypeOK'
BY DEF RenderTypeOK, PushEnvVar, Env

(* So does every step of a deploy. *)
LEMMA DeployTyped ==
    ASSUME RenderTypeOK, TriggerDeploy \/ DeployResolves \/ DeployGoesLive \/ DeployFails
    PROVE  RenderTypeOK'
<1>1. CASE TriggerDeploy
  BY <1>1 DEF RenderTypeOK, TriggerDeploy, Deploy, InFlight
<1>2. CASE DeployResolves
  BY <1>2 DEF RenderTypeOK, DeployResolves, Deploy, InFlight
<1>3. CASE DeployGoesLive
  BY <1>3 DEF RenderTypeOK, DeployGoesLive, Deploy, InFlight
<1>4. CASE DeployFails
  BY <1>4 DEF RenderTypeOK, DeployFails, Deploy, InFlight
<1> QED
  BY <1>1, <1>2, <1>3, <1>4

(* set_provider_override stores a provider or none. *)
LEMMA SetProviderTyped ==
    ASSUME ConfigTypeOK, NEW p \in Providers \cup {NoProvider}, SetProviderOverride(p),
           UNCHANGED vouched
    PROVE  ConfigTypeOK'
BY DEF ConfigTypeOK, SetProviderOverride

(* set_key_index_override stores a slot or none. *)
LEMMA SetIndexTyped ==
    ASSUME ConfigTypeOK, NEW p, NEW index \in Slots \cup {NoIndex},
           SetKeyIndexOverride(p, index), UNCHANGED vouched
    PROVE  ConfigTypeOK'
BY DEF ConfigTypeOK, SetKeyIndexOverride

(* set_slot_config stores a row. *)
LEMMA SetSlotTyped ==
    ASSUME ConfigTypeOK, NEW slot, NEW row \in SlotRow \cup {NoRow},
           SetSlotConfig(slot, row), UNCHANGED vouched
    PROVE  ConfigTypeOK'
BY DEF ConfigTypeOK, SetSlotConfig

(* delete_slot_config leaves the other rows. *)
LEMMA DeleteSlotTyped ==
    ASSUME ConfigTypeOK, NEW slot, DeleteSlotConfig(slot), UNCHANGED vouched
    PROVE  ConfigTypeOK'
BY DEF ConfigTypeOK, DeleteSlotConfig

(* A row that a probe accepts is a row. *)
LEMMA AcceptedIsRow ==
    ASSUME NEW p, NEW cred, NEW row \in SlotRow \cup {NoRow}, Accepts(p, cred, row)
    PROVE  row \in SlotRow
BY DEF Accepts, ModelOf

(* A probe adds a slot and a row to those it has accepted, or nothing. *)
LEMMA VouchTyped ==
    ASSUME ConfigTypeOK, UNCHANGED configVars, NEW slot \in Keys, NEW cred,
           NEW row \in SlotRow \cup {NoRow},
           ProbeAccepts(slot, cred, row) \/ ProbeRefuses(slot, cred, row)
    PROVE  ConfigTypeOK'
<1>1. CASE ProbeAccepts(slot, cred, row)
  <2>1. row \in SlotRow
    BY <1>1, AcceptedIsRow DEF ProbeAccepts
  <2> QED
    BY <1>1, <2>1 DEF ProbeAccepts, Vouch, ConfigTypeOK, configVars
<1>2. CASE ProbeRefuses(slot, cred, row)
  BY <1>2 DEF ProbeRefuses, ConfigTypeOK, configVars
<1> QED
  BY <1>1, <1>2

(* A probe spends a mishap or none. *)
LEMMA ProbeTroubles ==
    ASSUME NEW slot, NEW cred, NEW row,
           ProbeAccepts(slot, cred, row) \/ ProbeRefuses(slot, cred, row)
    PROVE  Fine \/ \E kind : Trouble(kind)
BY DEF ProbeAccepts, ProbeRefuses

(* A model and a place, each present or not, make a row. *)
LEMMA RowTyped ==
    ASSUME NEW model \in Models \cup {NoModel}, NEW place \in Places \cup {NoPlace}
    PROVE  RowOf(model, place) \in SlotRow
BY DEF RowOf, SlotRow

(* What is read from a row is a model and a place, each present or not. *)
LEMMA ReadRowTyped ==
    ASSUME NEW row \in SlotRow \cup {NoRow}
    PROVE  ModelOf(row) \in Models \cup {NoModel} /\ PlaceOf(row) \in Places \cup {NoPlace}
BY DEF ModelOf, PlaceOf, SlotRow

-----------------------------------------------------------------------------
(* A handler moved to a typed point leaves the requests typed. *)
LEMMA BecomesTyped ==
    ASSUME RequestsTyped, NEW r \in Requests, NEW q, Becomes(r, q), q = Idle \/ HandlerTyped(q)
    PROVE  RequestsTyped'
BY DEF RequestsTyped, Becomes

(* So does one that answers. *)
LEMMA AnswersTyped ==
    ASSUME RequestsTyped, NEW r \in Requests, Answers(r)
    PROVE  RequestsTyped'
BY BecomesTyped DEF Answers

(* A request that is not idle is a typed handler. *)
LEMMA BusyTyped ==
    ASSUME RequestsTyped, NEW r \in Requests, Busy(r)
    PROVE  HandlerTyped(req[r])
BY DEF RequestsTyped, Busy

(* The kind of a body says what it holds. *)
LEMMA KindsOfBodies ==
    ASSUME NEW body \in Bodies
    PROVE  /\ body.kind = "config" => body \in ConfigPatches
           /\ body.kind = "slot" => body \in SlotPatches
           /\ body.kind = "apply" => body \in Applies
           /\ body.kind = "delete" => body \in Deletes
           /\ body.kind = "render" => body \in RenderPatches
BY BodiesAssumption DEF Bodies

(* The index field of a config patch: finitely many providers, each with a slot or null. *)
LEMMA IndexFieldTyped ==
    ASSUME NEW f, ConfigFields(f)
    PROVE  /\ DOMAIN IndexField(f) \subseteq Providers
           /\ \A p \in DOMAIN IndexField(f) :
                 f.index = IndexField(f) /\ IndexField(f)[p] \in Slots \cup {NoIndex}
           /\ IsFiniteSet(DOMAIN IndexField(f))
<1>1. CASE "index" \in DOMAIN f
  BY <1>1, RenderAssumption, FS_Subset DEF ConfigFields, IndexField
<1>2. CASE "index" \notin DOMAIN f
  BY <1>2, FS_EmptySet DEF IndexField
<1> QED
  BY <1>1, <1>2

(* The tasks of a config patch are tasks that its body names. *)
LEMMA TasksTyped ==
    ASSUME NEW f, NEW refused, ConfigFields(f)
    PROVE  Tasks(f, refused) \in Seq(TasksOf(f))
<1> DEFINE T == TasksOf(f)
           If(field, task) ==
               IF field \in DOMAIN f /\ task \notin refused THEN <<task>> ELSE <<>>
           All == {<<"index", p>> : p \in DOMAIN IndexField(f)}
           Indexes == All \ refused
           Provider == If("provider", <<"provider", IF "provider" \in DOMAIN f THEN f.provider ELSE NoProvider>>)
           Cooldown == If("cooldown", <<"group", "cooldown">>)
           Usage == If("usage", <<"group", "usage">>)
           Tuning == If("tuning", <<"group", "tuning">>)
<1>1. IsFiniteSet(Indexes)
  <2>1. IsFiniteSet(DOMAIN IndexField(f))
    BY IndexFieldTyped
  <2>2. [p \in DOMAIN IndexField(f) |-> <<"index", p>>] \in Surjection(DOMAIN IndexField(f), All)
    BY DEF Surjection
  <2>3. IsFiniteSet(All)
    BY <2>1, <2>2, FS_Surjection
  <2> QED
    BY <2>3, FS_Subset
<1>2. SetToSeq(Indexes) \in Seq(T)
  <2>1. SetToSeq(Indexes) \in Seq(Indexes)
    BY <1>1, SetToSeqLists
  <2>2. Indexes \subseteq T
    BY DEF TasksOf
  <2> QED
    BY <2>1, <2>2
<1>3. Provider \in Seq(T) /\ Cooldown \in Seq(T) /\ Usage \in Seq(T) /\ Tuning \in Seq(T)
  <2>1. Provider \in Seq(T)
    BY DEF TasksOf
  <2>2. Cooldown \in Seq(T)
    BY DEF TasksOf, GroupNames
  <2>3. Usage \in Seq(T)
    BY DEF TasksOf, GroupNames
  <2>4. Tuning \in Seq(T)
    BY DEF TasksOf, GroupNames
  <2> QED
    BY <2>1, <2>2, <2>3, <2>4
<1>4. Tasks(f, refused) = Provider \o Cooldown \o Usage \o SetToSeq(Indexes) \o Tuning
  BY DEF Tasks
<1> HIDE DEF Provider, Cooldown, Usage, Tuning, Indexes, T
<1>5. Provider \o Cooldown \o Usage \o SetToSeq(Indexes) \o Tuning \in Seq(T)
  BY <1>2, <1>3
<1> QED
  BY <1>4, <1>5 DEF T
-----------------------------------------------------------------------------
(* PATCH /config. *)

(* Going on to the tasks left, or answering when there are none. *)
LEMMA ProceedsTyped ==
    ASSUME RequestsTyped, NEW r \in Requests, Busy(r), req[r].body.kind = "config",
           NEW todo \in Seq(TasksOf(req[r].body.fields)), Proceeds(r, "tasks", todo)
    PROVE  RequestsTyped'
<1>1. HandlerTyped(req[r])
  BY BusyTyped
<1>2. CASE todo = <<>>
  BY <1>2, AnswersTyped DEF Proceeds
<1>3. CASE todo # <<>>
  <2> DEFINE q == [req[r] EXCEPT !.at = "tasks", !.todo = todo]
  <2>1. HandlerTyped(q)
    BY <1>1, <1>3 DEF HandlerTyped, ConfigHandler, HandlerFields
  <2>2. Becomes(r, q)
    BY <1>3 DEF Proceeds
  <2> HIDE DEF q
  <2> QED
    BY <2>1, <2>2, BecomesTyped
<1> QED
  BY <1>2, <1>3

(* Going on to the targets left to probe, or to the tasks. *)
LEMMA ProbingTyped ==
    ASSUME RequestsTyped, NEW r \in Requests, Busy(r), req[r].body.kind = "config",
           NEW targets, NEW refused, \A t \in targets : t[2] \in Keys,
           Probing(r, targets, refused)
    PROVE  RequestsTyped'
<1>1. HandlerTyped(req[r])
  BY BusyTyped
<1>2. CASE targets = {}
  <2>1. ConfigFields(req[r].body.fields)
    BY <1>1, KindsOfBodies, BodiesAssumption DEF HandlerTyped
  <2> QED
    BY <1>2, <2>1, TasksTyped, ProceedsTyped DEF Probing
<1>3. CASE targets # {}
  <2> DEFINE q == [req[r] EXCEPT !.at = "probe", !.targets = targets, !.refused = refused]
  <2>1. HandlerTyped(q)
    BY <1>1, <1>3 DEF HandlerTyped, ConfigHandler, HandlerFields
  <2>2. Becomes(r, q)
    BY <1>3 DEF Probing
  <2> HIDE DEF q
  <2> QED
    BY <2>1, <2>2, BecomesTyped
<1> QED
  BY <1>2, <1>3

(* A target of a config patch is the slot that its provider would run with. *)
LEMMA TargetsTyped ==
    ASSUME NEW f, ConfigFields(f), NEW indexes \in [Providers -> Slots \cup {NoIndex}],
           NEW current
    PROVE  \A t \in ArmingTargets(f, indexes, current) :
              /\ t[2] \in Keys
              /\ t[2] = <<t[1][2], EffectiveIndex(f, indexes, t[1][2])>>
<1>1. 0 \in Slots
  BY RenderAssumption DEF Slots
<1>2. \A p \in Providers : EffectiveIndex(f, indexes, p) \in Slots
  BY <1>1, IndexFieldTyped DEF EffectiveIndex, IndexOrZero
<1>3. ASSUME NEW t \in ArmingTargets(f, indexes, current)
      PROVE  \E p \in Providers : t[1][2] = p /\ t[2] = <<p, EffectiveIndex(f, indexes, p)>>
  <2> DEFINE Slot(p) == <<p, EffectiveIndex(f, indexes, p)>>
  <2>1. \/ \E p \in DOMAIN IndexField(f) : t = <<<<"index", p>>, Slot(p)>>
        \/ ProviderChanging(f) /\ t = <<<<"provider", f.provider>>, Slot(f.provider)>>
    BY DEF ArmingTargets
  <2> HIDE DEF Slot
  <2>2. \E p \in Providers : t[1][2] = p /\ t[2] = Slot(p)
    BY <2>1, IndexFieldTyped DEF ProviderChanging
  <2> QED
    BY <2>2 DEF Slot
<1>4. \A p \in Providers : <<p, EffectiveIndex(f, indexes, p)>> \in Keys
  BY <1>2 DEF Keys
<1> QED
  BY <1>3, <1>4

(* The reads of PATCH /config: the stored indexes, the provider, a group. *)
LEMMA ConfigReadsTyped ==
    ASSUME World, RequestsTyped, NEW r \in Requests,
           ReadStoredIndexes(r) \/ ReadCurrentProvider(r) \/ ReadGroup(r)
    PROVE  World' /\ RequestsTyped'
<1>1. HandlerTyped(req[r]) /\ req[r].body.kind = "config" /\ Busy(r)
  BY BusyTyped DEF ReadStoredIndexes, ReadCurrentProvider, ReadGroup, At
<1>2. World'
  BY DEF ReadStoredIndexes, ReadCurrentProvider, ReadGroup, OnlyReads, Fine, World,
     renderVars, configVars, RenderTypeOK, ConfigTypeOK, GroupsTypeOK
<1>3. CASE ReadStoredIndexes(r)
  <2> DEFINE q == [req[r] EXCEPT !.at = "provider", !.indexes = key_index]
  <2>1. HandlerTyped(q)
    BY <1>1 DEF HandlerTyped, ConfigHandler, HandlerFields, World, ConfigTypeOK
  <2>2. Becomes(r, q)
    BY <1>3 DEF ReadStoredIndexes
  <2> HIDE DEF q
  <2> QED
    BY <1>2, <2>1, <2>2, BecomesTyped
<1>4. CASE ReadCurrentProvider(r)
  <2>1. ConfigFields(req[r].body.fields)
    BY <1>1, KindsOfBodies, BodiesAssumption DEF HandlerTyped
  <2>2. \A t \in ArmingTargets(req[r].body.fields, req[r].indexes, provider) : t[2] \in Keys
    BY <1>1, <2>1, TargetsTyped DEF HandlerTyped
  <2> QED
    BY <1>1, <1>2, <1>4, <2>2, ProbingTyped DEF ReadCurrentProvider
<1>5. CASE ReadGroup(r)
  <2> DEFINE q == [req[r] EXCEPT !.at = "group", !.group = GetGroup(Task(r)[2])]
  <2>1. ConfigHandler(req[r]) /\ req[r].at = "tasks" /\ Task(r)[1] = "group"
    BY <1>1, <1>5 DEF ReadGroup, At, HandlerTyped
  <2>2. ConfigFields(req[r].body.fields)
    BY <1>1, KindsOfBodies, BodiesAssumption DEF HandlerTyped
  <2>3. Task(r) \in TasksOf(req[r].body.fields)
    BY <2>1 DEF ConfigHandler, Task
  <2>4. Task(r)[2] \in Groups
    BY <2>1, <2>2, <2>3 DEF TasksOf, ConfigFields
  <2>5. GetGroup(Task(r)[2]) \in Group
    BY <2>4 DEF GetGroup, World, GroupsTypeOK
  <2>6. HandlerTyped(q)
    BY <1>1, <2>1, <2>5 DEF HandlerTyped, ConfigHandler, HandlerFields, Task
  <2>7. Becomes(r, q)
    BY <1>5 DEF ReadGroup
  <2> HIDE DEF q
  <2> QED
    BY <1>2, <2>6, <2>7, BecomesTyped
<1> QED
  BY <1>3, <1>4, <1>5

(* Its probe of one target. *)
LEMMA ProbeTargetTyped ==
    ASSUME World, RequestsTyped, NEW r \in Requests, ProbeTarget(r)
    PROVE  World' /\ RequestsTyped'
<1>1. HandlerTyped(req[r]) /\ req[r].body.kind = "config" /\ Busy(r)
  BY BusyTyped DEF ProbeTarget, At
<1>2. \A t \in req[r].targets : t[2] \in Keys
  BY <1>1 DEF ProbeTarget, At, HandlerTyped, ConfigHandler
<1>3. PICK slot \in {t[2] : t \in req[r].targets}, targets \in SUBSET req[r].targets :
        /\ \/ ProbeAccepts(slot, req[r].env[slot], slot_config[slot])
           \/ ProbeRefuses(slot, req[r].env[slot], slot_config[slot])
        /\ \E refused : Probing(r, targets, refused)
  BY DEF ProbeTarget
<1>4. slot \in Keys /\ slot_config[slot] \in SlotRow \cup {NoRow}
  BY <1>2, <1>3 DEF World, ConfigTypeOK
<1>5. UNCHANGED <<renderVars, configVars, stored>>
  BY DEF ProbeTarget
<1>6. ConfigTypeOK'
  BY <1>3, <1>4, <1>5, VouchTyped DEF World
<1>7. troubles' \in 0 .. MaxTroubles
  BY <1>3, ProbeTroubles, TroubleTyped DEF World
<1>8. World'
  BY <1>5, <1>6, <1>7 DEF World, renderVars, RenderTypeOK, GroupsTypeOK
<1>9. RequestsTyped'
  BY <1>1, <1>2, <1>3, ProbingTyped
<1> QED
  BY <1>8, <1>9

(* A step that reads keeps everything else typed. *)
LEMMA ReadsTyped ==
    ASSUME World, OnlyReads, Fine \/ \E kind : Trouble(kind)
    PROVE  World'
BY TroubleTyped DEF World, OnlyReads, renderVars, configVars, RenderTypeOK, ConfigTypeOK,
   GroupsTypeOK

(* A step that writes the platform does, when the platform stays typed. *)
LEMMA RenderWritesTyped ==
    ASSUME World, OnlyRender, Fine \/ \E kind : Trouble(kind), RenderTypeOK'
    PROVE  World'
BY TroubleTyped DEF World, OnlyRender, configVars, ConfigTypeOK, GroupsTypeOK

(* A step that writes the overrides does, when they stay typed. *)
LEMMA ConfigWritesTyped ==
    ASSUME World, OnlyConfig, Fine \/ \E kind : Trouble(kind), ConfigTypeOK'
    PROVE  World'
BY TroubleTyped DEF World, OnlyConfig, renderVars, RenderTypeOK, GroupsTypeOK

(* What a step leaves alone stays typed. *)
LEMMA UntouchedTyped ==
    /\ RenderTypeOK /\ UNCHANGED renderVars => RenderTypeOK'
    /\ ConfigTypeOK /\ UNCHANGED configVars /\ UNCHANGED vouched => ConfigTypeOK'
BY DEF renderVars, configVars, RenderTypeOK, ConfigTypeOK

(* Its writes, and a write that fails. *)
LEMMA TasksDoneTyped ==
    ASSUME World, RequestsTyped, NEW r \in Requests,
           ApplyProvider(r) \/ ApplyKeyIndex(r) \/ StoreGroup(r) \/ TaskFails(r)
    PROVE  World' /\ RequestsTyped'
<1> DEFINE f == req[r].body.fields
<1>1. HandlerTyped(req[r]) /\ req[r].body.kind = "config" /\ Busy(r) /\ req[r].at \in {"tasks", "group"}
  BY BusyTyped DEF ApplyProvider, ApplyKeyIndex, StoreGroup, TaskFails, At
<1>2. ConfigFields(f)
  BY <1>1, KindsOfBodies, BodiesAssumption DEF HandlerTyped
<1>3. Task(r) \in TasksOf(f) /\ Tail(req[r].todo) \in Seq(TasksOf(f))
  <2> DEFINE T == TasksOf(f)
  <2>1. req[r].todo \in Seq(T) /\ req[r].todo # <<>>
    BY <1>1 DEF HandlerTyped, ConfigHandler
  <2> HIDE DEF T
  <2>2. Head(req[r].todo) \in T /\ Tail(req[r].todo) \in Seq(T)
    BY <2>1
  <2> QED
    BY <2>2 DEF T, Task
<1>4. RequestsTyped'
  <2>1. NextTask(r)
    <3>1. ApplyProvider(r) => NextTask(r)
      BY DEF ApplyProvider
    <3>2. ApplyKeyIndex(r) => NextTask(r)
      BY DEF ApplyKeyIndex
    <3>3. StoreGroup(r) => NextTask(r)
      BY DEF StoreGroup
    <3>4. TaskFails(r) => NextTask(r)
      BY DEF TaskFails
    <3> QED
      BY <3>1, <3>2, <3>3, <3>4
  <2> QED
    BY <1>1, <1>3, <2>1, ProceedsTyped DEF NextTask
<1>5. World'
  <2>1. CASE ApplyProvider(r)
    <3>1. Task(r)[2] \in Providers \cup {NoProvider}
      BY <1>2, <1>3, <2>1 DEF ApplyProvider, TasksOf, ConfigFields
    <3>2. ConfigTypeOK'
      BY <2>1, <3>1, SetProviderTyped DEF ApplyProvider, World, OnlyConfig
    <3> QED
      BY <2>1, <3>2, ConfigWritesTyped DEF ApplyProvider
  <2>2. CASE ApplyKeyIndex(r)
    <3>1. f.index[Task(r)[2]] \in Slots \cup {NoIndex}
      BY <1>2, <1>3, <2>2, IndexFieldTyped DEF ApplyKeyIndex, TasksOf
    <3>2. ConfigTypeOK'
      BY <2>2, <3>1, SetIndexTyped DEF ApplyKeyIndex, World, OnlyConfig
    <3> QED
      BY <2>2, <3>2, ConfigWritesTyped DEF ApplyKeyIndex
  <2>3. CASE StoreGroup(r)
    <3> DEFINE g == Task(r)[2]
    <3>1. req[r].group \in Group /\ Task(r)[1] = "group"
      BY <1>1, <2>3 DEF StoreGroup, At, HandlerTyped, ConfigHandler, Task
    <3>2. g \in Groups /\ \A c \in Columns \cap DOMAIN f[g] : f[g][c] \in Value
      BY <1>2, <1>3, <3>1 DEF TasksOf, ConfigFields
    <3>3. Merge(req[r].group, f[g]) \in Group
      BY <3>1, <3>2 DEF Merge, Group
    <3>4. GroupsTypeOK'
      BY <2>3, <3>3 DEF StoreGroup, SetGroup, World, GroupsTypeOK
    <3> QED
      BY <2>3, <3>4 DEF StoreGroup, World, Fine, renderVars, configVars, RenderTypeOK, ConfigTypeOK
  <2>4. CASE TaskFails(r)
    BY <2>4, ReadsTyped DEF TaskFails
  <2> QED
    BY <2>1, <2>2, <2>3, <2>4
<1> QED
  BY <1>4, <1>5
-----------------------------------------------------------------------------
(* The other handlers. *)

(* Another place in the same handler, where nothing more is known. *)
LEMMA GoesToTyped ==
    ASSUME RequestsTyped, NEW r \in Requests, Busy(r), NEW at, GoesTo(r, at),
           \/ at \in {"save", "save unpushed", "deploy"}
           \/ at = "delete" /\ req[r].body.kind = "delete"
           \/ at = "delete" /\ req[r].body.kind = "render" /\ req[r].at = "row"
    PROVE  RequestsTyped'
<1> DEFINE q == [req[r] EXCEPT !.at = at]
<1>1. HandlerTyped(q)
  BY BusyTyped DEF HandlerTyped, HandlerFields, ConfigHandler, SlotHandler, DeleteHandler,
     RenderHandler
<1>2. Becomes(r, q)
  BY DEF GoesTo
<1> HIDE DEF q
<1> QED
  BY <1>1, <1>2, BecomesTyped

(* PATCH of one slot: merge, probe, write. *)
LEMMA SlotPatchTyped ==
    ASSUME World, RequestsTyped, NEW r \in Requests, ApplySlotPatch(r)
    PROVE  World' /\ RequestsTyped'
<1> DEFINE body == req[r].body
           old == slot_config[body.slot]
           Field(name, kept) == IF name \in DOMAIN body.fields THEN body.fields[name] ELSE kept
           row == RowOf(Field("model", ModelOf(old)),
                        IF body.slot[1] \in Vertex THEN Field("place", PlaceOf(old)) ELSE NoPlace)
<1>1. HandlerTyped(req[r]) /\ body.kind = "slot" /\ Busy(r)
  BY BusyTyped DEF ApplySlotPatch, MergeAndProbe, WriteSlotRow, At
<1>2. body.slot \in Keys /\ SlotFields(body.fields)
  BY <1>1, KindsOfBodies, BodiesAssumption DEF HandlerTyped
<1>3. CASE MergeAndProbe(r)
  <2>1. row \in SlotRow
    <3>1. old \in SlotRow \cup {NoRow}
      BY <1>2 DEF World, ConfigTypeOK
    <3> HIDE DEF old
    <3>2. Field("model", ModelOf(old)) \in Models \cup {NoModel}
      BY <1>2, <3>1, ReadRowTyped DEF SlotFields
    <3>3. (IF body.slot[1] \in Vertex THEN Field("place", PlaceOf(old)) ELSE NoPlace)
            \in Places \cup {NoPlace}
      BY <1>2, <3>1, ReadRowTyped DEF SlotFields
    <3> QED
      BY <3>2, <3>3, RowTyped
  <2>2. /\ \/ /\ ProbeAccepts(body.slot, req[r].env[body.slot], row)
              /\ Becomes(r, [req[r] EXCEPT !.at = "write", !.row = row])
           \/ ProbeRefuses(body.slot, req[r].env[body.slot], row) /\ Answers(r)
           \/ Answers(r) /\ Fine /\ UNCHANGED vouched
        /\ UNCHANGED <<renderVars, configVars, stored>>
    BY <1>3 DEF MergeAndProbe
  <2> HIDE DEF row
  <2>3. HandlerTyped([req[r] EXCEPT !.at = "write", !.row = row])
    BY <1>1, <2>1 DEF HandlerTyped, HandlerFields, SlotHandler
  <2>4. RequestsTyped'
    BY <2>2, <2>3, BecomesTyped, AnswersTyped
  <2>5. ConfigTypeOK' /\ troubles' \in 0 .. MaxTroubles
    <3>1. CASE Fine /\ UNCHANGED vouched
      BY <2>2, <3>1, UntouchedTyped, TroubleTyped DEF World
    <3>2. CASE \/ ProbeAccepts(body.slot, req[r].env[body.slot], row)
               \/ ProbeRefuses(body.slot, req[r].env[body.slot], row)
      BY <1>2, <2>1, <2>2, <3>2, VouchTyped, ProbeTroubles, TroubleTyped DEF World
    <3> QED
      BY <2>2, <3>1, <3>2
  <2> QED
    BY <2>2, <2>4, <2>5, UntouchedTyped DEF World, GroupsTypeOK
<1>4. CASE WriteSlotRow(r)
  <2>1. req[r].row \in SlotRow
    BY <1>1, <1>4 DEF WriteSlotRow, At, HandlerTyped, SlotHandler
  <2>2. ConfigTypeOK'
    BY <1>4, <2>1, SetSlotTyped, UntouchedTyped DEF WriteSlotRow, World, OnlyConfig
  <2> QED
    BY <1>4, <2>2, ConfigWritesTyped, AnswersTyped DEF WriteSlotRow
<1> QED
  BY <1>3, <1>4 DEF ApplySlotPatch

(* Apply: push the credential, then save the row. *)
LEMMA CredentialTyped ==
    ASSUME World, RequestsTyped, NEW r \in Requests, ApplyCredential(r)
    PROVE  World' /\ RequestsTyped'
<1>1. HandlerTyped(req[r]) /\ req[r].body.kind = "apply" /\ Busy(r)
  BY BusyTyped DEF ApplyCredential, PushCredential, SaveApplied, At
<1>2. req[r].body.row \in SlotRow /\ req[r].body.cred \in Creds \cup {NoCred}
  BY <1>1, KindsOfBodies, BodiesAssumption DEF HandlerTyped
<1>3. CASE PushCredential(r)
  <2>1. RenderTypeOK'
    BY <1>2, <1>3, PushTyped, UntouchedTyped DEF PushCredential, World
  <2>2. World'
    BY <1>3, <2>1, RenderWritesTyped DEF PushCredential
  <2>3. GoesTo(r, "save") \/ GoesTo(r, "save unpushed")
    BY <1>3 DEF PushCredential
  <2> QED
    BY <1>1, <2>2, <2>3, GoesToTyped
<1>4. CASE SaveApplied(r)
  <2>1. ConfigTypeOK'
    BY <1>2, <1>4, SetSlotTyped, UntouchedTyped DEF SaveApplied, World, OnlyConfig
  <2>2. World'
    BY <1>4, <2>1, ConfigWritesTyped DEF SaveApplied
  <2>3. GoesTo(r, "deploy") \/ Answers(r)
    BY <1>4 DEF SaveApplied
  <2> QED
    BY <1>1, <2>2, <2>3, GoesToTyped, AnswersTyped
<1> QED
  BY <1>3, <1>4 DEF ApplyCredential

(* DELETE of a key: the reads, the deletion, the cascade. *)
LEMMA CascadeTyped ==
    ASSUME World, RequestsTyped, NEW r \in Requests, CascadeDelete(r)
    PROVE  World' /\ RequestsTyped'
<1>1. HandlerTyped(req[r]) /\ req[r].body.kind = "delete" /\ Busy(r)
  BY BusyTyped DEF CascadeDelete, ReadIndexes, ReadProvider, CheckDependents, DeleteVariable,
     ClearDependent, At
<1>2. CASE ReadIndexes(r)
  <2> DEFINE q == [req[r] EXCEPT !.at = "provider", !.indexes = key_index]
  <2>1. HandlerTyped(q)
    BY <1>1 DEF HandlerTyped, HandlerFields, DeleteHandler, World, ConfigTypeOK
  <2>2. Becomes(r, q)
    BY <1>2 DEF ReadIndexes
  <2> HIDE DEF q
  <2> QED
    BY <1>2, <2>1, <2>2, BecomesTyped, ReadsTyped DEF ReadIndexes
<1>3. CASE ReadProvider(r)
  <2> DEFINE q == [req[r] EXCEPT !.at = "row", !.current = provider]
  <2>1. HandlerTyped(q)
    BY <1>1 DEF HandlerTyped, HandlerFields, DeleteHandler
  <2>2. Becomes(r, q)
    BY <1>3 DEF ReadProvider
  <2> HIDE DEF q
  <2> QED
    BY <1>3, <2>1, <2>2, BecomesTyped, ReadsTyped DEF ReadProvider
<1>4. CASE CheckDependents(r)
  <2> DEFINE q == [req[r] EXCEPT !.at = "delete", !.row = slot_config[req[r].body.key]]
  <2>1. HandlerTyped(q)
    BY <1>1 DEF HandlerTyped, HandlerFields, DeleteHandler
  <2>2. Becomes(r, q) \/ Answers(r)
    BY <1>4 DEF CheckDependents
  <2> HIDE DEF q
  <2> QED
    BY <1>4, <2>1, <2>2, BecomesTyped, AnswersTyped, ReadsTyped DEF CheckDependents
<1>5. CASE DeleteVariable(r)
  <2> DEFINE q == [req[r] EXCEPT !.at = "cascade", !.todo = Cascade(r)]
  <2>1. Cascade(r) \in Seq({"index", "row"})
    <3> DEFINE First == IF Overridden(req[r].body.key, req[r].indexes) THEN <<"index">> ELSE <<>>
               Second == IF req[r].row # NoRow THEN <<"row">> ELSE <<>>
    <3>1. First \in Seq({"index", "row"}) /\ Second \in Seq({"index", "row"})
      <4>1. <<>> \in Seq({"index", "row"}) /\ <<"index">> \in Seq({"index", "row"})
        OBVIOUS
      <4>2. <<"row">> \in Seq({"index", "row"})
        OBVIOUS
      <4> QED
        BY <4>1, <4>2
    <3>2. Cascade(r) = First \o Second
      BY DEF Cascade
    <3> HIDE DEF First, Second
    <3>3. First \o Second \in Seq({"index", "row"})
      BY <3>1
    <3> QED
      BY <3>2, <3>3
  <2>2. Cascade(r) # <<>> => HandlerTyped(q)
    BY <1>1, <2>1 DEF HandlerTyped, HandlerFields, DeleteHandler
  <2>3. \/ Cascade(r) # <<>> /\ Becomes(r, q)
        \/ GoesTo(r, "deploy") \/ Answers(r)
    BY <1>5 DEF DeleteVariable
  <2> HIDE DEF q
  <2>4. RequestsTyped'
    BY <1>1, <2>2, <2>3, BecomesTyped, AnswersTyped, GoesToTyped
  <2>5. RenderTypeOK'
    BY <1>5, PushTyped, UntouchedTyped DEF DeleteVariable, DeleteEnvVar, World
  <2> QED
    BY <1>5, <2>4, <2>5, RenderWritesTyped DEF DeleteVariable
<1>6. CASE ClearDependent(r)
  <2> DEFINE rest == Tail(req[r].todo)
             q == [req[r] EXCEPT !.todo = rest, !.at = IF rest = <<>> THEN "deploy" ELSE @]
  <2>1. req[r].todo \in Seq({"index", "row"}) /\ req[r].todo # <<>> /\ req[r].at = "cascade"
    BY <1>1, <1>6 DEF ClearDependent, At, HandlerTyped, DeleteHandler
  <2>2. rest \in Seq({"index", "row"})
    BY <2>1
  <2>3. HandlerTyped(q)
    BY <1>1, <2>1, <2>2 DEF HandlerTyped, HandlerFields, DeleteHandler
  <2>4. Becomes(r, q) \/ Answers(r)
    BY <1>6 DEF ClearDependent
  <2> HIDE DEF q
  <2>5. RequestsTyped'
    BY <2>3, <2>4, BecomesTyped, AnswersTyped
  <2>6. ConfigTypeOK'
    BY <1>6, SetIndexTyped, DeleteSlotTyped, UntouchedTyped DEF ClearDependent, World, OnlyConfig
  <2> QED
    BY <1>6, <2>5, <2>6, ConfigWritesTyped DEF ClearDependent
<1> QED
  BY <1>2, <1>3, <1>4, <1>5, <1>6 DEF CascadeDelete

(* PATCH /render after a deletion: the next one, or the variables to set. *)
LEMMA AfterDeletionTyped ==
    ASSUME RequestsTyped, NEW r \in Requests, Busy(r), req[r].body.kind = "render",
           NEW todo \in Seq(Keys), NEW applied, AfterDeletion(r, todo, applied)
    PROVE  RequestsTyped'
<1> DEFINE q == [req[r] EXCEPT !.applied = applied,
                    !.at = IF todo # <<>> THEN "row" ELSE "sets",
                    !.todo = IF todo # <<>> THEN todo ELSE req[r].body.sets]
<1>1. HandlerTyped(req[r])
  BY BusyTyped
<1>2. req[r].body.sets \in Seq(Keys \X (Creds \cup {NoCred}))
  BY <1>1, KindsOfBodies, BodiesAssumption DEF HandlerTyped
<1>3. HandlerTyped(q)
  <2>1. CASE todo # <<>>
    BY <1>1, <2>1 DEF HandlerTyped, HandlerFields, RenderHandler
  <2>2. CASE todo = <<>>
    BY <1>1, <1>2, <2>2 DEF HandlerTyped, HandlerFields, RenderHandler
  <2> QED
    BY <2>1, <2>2
<1>4. Becomes(r, q)
  BY DEF AfterDeletion
<1> HIDE DEF q
<1> QED
  BY <1>3, <1>4, BecomesTyped

(* A handler that finishes answers, or triggers a deploy and answers. *)
LEMMA FinishesTyped ==
    ASSUME RequestsTyped, NEW r \in Requests, Busy(r), NEW applied, Finishes(r, applied)
    PROVE  RequestsTyped'
BY AnswersTyped, GoesToTyped DEF Finishes

(* PATCH /render: overrides, spares, variables. *)
LEMMA RenderPatchTyped ==
    ASSUME World, RequestsTyped, NEW r \in Requests, ApplyRenderPatch(r)
    PROVE  World' /\ RequestsTyped'
<1>1. HandlerTyped(req[r]) /\ req[r].body.kind = "render" /\ Busy(r)
  BY BusyTyped DEF ApplyRenderPatch, ReadOverrides, CheckSpare, DeleteSpare, SetVariable,
     SetsDone, At
<1>2. req[r].body.deletes \in Seq(Keys)
  BY <1>1, KindsOfBodies, BodiesAssumption DEF HandlerTyped
<1>3. CASE ReadOverrides(r)
  <2>1. World'
    BY <1>3, ReadsTyped DEF ReadOverrides
  <2>2. CASE /\ At(r, "render", "indexes")
             /\ Becomes(r, [req[r] EXCEPT !.at = "provider", !.indexes = key_index])
    <3> DEFINE q == [req[r] EXCEPT !.at = "provider", !.indexes = key_index]
    <3>1. HandlerTyped(q)
      BY <1>1, <2>2 DEF HandlerTyped, HandlerFields, RenderHandler, World, ConfigTypeOK, At
    <3>2. Becomes(r, q)
      BY <2>2
    <3> HIDE DEF q
    <3> QED
      BY <2>1, <3>1, <3>2, BecomesTyped
  <2>3. CASE /\ At(r, "render", "provider")
             /\ Becomes(r, [req[r] EXCEPT !.at = "row", !.current = provider,
                                          !.todo = req[r].body.deletes])
    <3> DEFINE q == [req[r] EXCEPT !.at = "row", !.current = provider,
                                   !.todo = req[r].body.deletes]
    <3>1. HandlerTyped(q)
      BY <1>1, <1>2, <2>3 DEF HandlerTyped, HandlerFields, RenderHandler, At
    <3>2. Becomes(r, q)
      BY <2>3
    <3> HIDE DEF q
    <3> QED
      BY <2>1, <3>1, <3>2, BecomesTyped
  <2> QED
    BY <1>3, <2>2, <2>3 DEF ReadOverrides
<1>4. CASE CheckSpare(r)
  <2>1. World'
    BY <1>4, ReadsTyped DEF CheckSpare
  <2>2. req[r].todo \in Seq(Keys) /\ req[r].todo # <<>> /\ req[r].at = "row"
    BY <1>1, <1>4 DEF CheckSpare, At, HandlerTyped, RenderHandler
  <2>3. Tail(req[r].todo) \in Seq(Keys)
    BY <2>2
  <2>4. AfterDeletion(r, Tail(req[r].todo), req[r].applied) \/ GoesTo(r, "delete")
    BY <1>4 DEF CheckSpare
  <2> QED
    BY <1>1, <2>1, <2>2, <2>3, <2>4, AfterDeletionTyped, GoesToTyped
<1>5. CASE DeleteSpare(r)
  <2>1. req[r].todo \in Seq(Keys) /\ req[r].todo # <<>>
    BY <1>1, <1>5 DEF DeleteSpare, At, HandlerTyped, RenderHandler
  <2>2. Tail(req[r].todo) \in Seq(Keys)
    BY <2>1
  <2>3. RenderTypeOK'
    BY <1>5, PushTyped, UntouchedTyped DEF DeleteSpare, DeleteEnvVar, World
  <2>4. World'
    BY <1>5, <2>3, RenderWritesTyped DEF DeleteSpare
  <2>5. \/ AfterDeletion(r, Tail(req[r].todo), req[r].applied \cup {Head(req[r].todo)})
        \/ Finishes(r, req[r].applied)
    BY <1>5 DEF DeleteSpare
  <2> QED
    BY <1>1, <2>2, <2>4, <2>5, AfterDeletionTyped, FinishesTyped
<1>6. CASE SetVariable(r)
  <2> DEFINE pair == Head(req[r].todo)
             q == [req[r] EXCEPT !.todo = Tail(@), !.applied = @ \cup {pair[1]}]
             Pairs == Keys \X (Creds \cup {NoCred})
  <2>1. req[r].todo \in Seq(Pairs) /\ req[r].todo # <<>> /\ req[r].at = "sets"
    BY <1>1, <1>6 DEF SetVariable, At, HandlerTyped, RenderHandler
  <2>2. Tail(req[r].todo) \in Seq(Pairs) /\ pair \in Pairs
    <3> HIDE DEF Pairs
    <3> QED
      BY <2>1
  <2>3. pair[2] \in Creds \cup {NoCred}
    BY <2>2
  <2>4. HandlerTyped(q)
    BY <1>1, <2>1, <2>2 DEF HandlerTyped, HandlerFields, RenderHandler
  <2>5. Becomes(r, q) \/ Finishes(r, req[r].applied)
    BY <1>6 DEF SetVariable
  <2>6. RenderTypeOK'
    BY <1>6, <2>3, PushTyped, UntouchedTyped DEF SetVariable, World
  <2>7. World'
    BY <1>6, <2>6, RenderWritesTyped DEF SetVariable
  <2> HIDE DEF q
  <2> QED
    BY <1>1, <2>4, <2>5, <2>7, BecomesTyped, FinishesTyped
<1>7. CASE SetsDone(r)
  BY <1>1, <1>7, ReadsTyped, FinishesTyped DEF SetsDone
<1> QED
  BY <1>3, <1>4, <1>5, <1>6, <1>7 DEF ApplyRenderPatch

(* Every step of every handler. *)
LEMMA HandlingTyped ==
    ASSUME World, RequestsTyped, NEW r \in Requests, Handling(r)
    PROVE  World' /\ RequestsTyped'
<1>1. CASE ApplyConfigPatch(r)
  BY <1>1, ConfigReadsTyped, ProbeTargetTyped, TasksDoneTyped DEF ApplyConfigPatch
<1>2. CASE ApplySlotPatch(r) \/ ApplyCredential(r) \/ CascadeDelete(r) \/ ApplyRenderPatch(r)
  BY <1>2, SlotPatchTyped, CredentialTyped, CascadeTyped, RenderPatchTyped
<1>3. CASE HandlerDeploys(r)
  <2>1. RenderTypeOK'
    BY <1>3, DeployTyped, UntouchedTyped DEF HandlerDeploys, World
  <2> QED
    BY <1>3, <2>1, RenderWritesTyped, AnswersTyped DEF HandlerDeploys
<1>4. CASE ReadFails(r) \/ HandlerCut(r)
  BY <1>4, ReadsTyped, AnswersTyped DEF ReadFails, HandlerCut
<1> QED
  BY <1>1, <1>2, <1>3, <1>4 DEF Handling

(* A request starts at the first point of its handler. *)
LEMMA ArrivalTyped ==
    ASSUME World, NEW body \in Bodies, NEW at
    PROVE  /\ Arrival(body, at).body = body
           /\ at \in {"indexes", "row", "push"} /\ (at = "row" => body.kind # "render")
                    /\ (at = "indexes" /\ body.kind = "render" => body.deletes # <<>>)
                => HandlerTyped(Arrival(body, at))
BY DEF Arrival, HandlerTyped, HandlerFields, ConfigHandler, SlotHandler, DeleteHandler,
   RenderHandler, World, RenderTypeOK

(* Every request that may arrive. *)
LEMMA ArrivalsTyped ==
    ASSUME World, RequestsTyped, NEW r \in Requests, Arrivals(r)
    PROVE  World' /\ RequestsTyped'
<1>1. ASSUME NEW body \in ConfigPatches, ConfigPatch(r, body)
      PROVE  World' /\ RequestsTyped'
  <2>1. body \in Bodies /\ body.kind = "config" /\ ConfigFields(body.fields)
    BY BodiesAssumption DEF Bodies
  <2> DEFINE todo == Tasks(body.fields, {})
             q == [Arrival(body, "tasks") EXCEPT !.todo = todo]
  <2>2. todo \in Seq(TasksOf(body.fields))
    BY <2>1, TasksTyped
  <2> HIDE DEF todo
  <2>3. todo # <<>> => HandlerTyped(q)
    BY <2>1, <2>2 DEF Arrival, HandlerTyped, HandlerFields, ConfigHandler, World, RenderTypeOK
  <2>4. HandlerTyped(Arrival(body, "indexes"))
    BY <2>1, ArrivalTyped
  <2>5. /\ \/ Becomes(r, Arrival(body, "indexes")) \/ UNCHANGED req
           \/ todo # <<>> /\ Becomes(r, q)
        /\ Fine /\ OnlyReads
    BY <1>1 DEF ConfigPatch, Arrives, todo
  <2> HIDE DEF q
  <2>6. RequestsTyped'
    BY <2>3, <2>4, <2>5, BecomesTyped DEF RequestsTyped
  <2> QED
    BY <2>5, <2>6, ReadsTyped
<1>2. ASSUME NEW body \in SlotPatches, SlotPatch(r, body)
      PROVE  World' /\ RequestsTyped'
  <2>1. HandlerTyped(Arrival(body, "row"))
    BY ArrivalTyped, BodiesAssumption DEF Bodies
  <2> QED
    BY <1>2, <2>1, BecomesTyped, ReadsTyped DEF SlotPatch, Arrives
<1>3. ASSUME NEW body \in Applies, Apply(r, body)
      PROVE  World' /\ RequestsTyped'
  <2>1. HandlerTyped(Arrival(body, "push"))
    BY ArrivalTyped, BodiesAssumption DEF Bodies
  <2>2. body.slot \in Keys /\ body.row \in SlotRow
    BY BodiesAssumption
  <2>3. ConfigTypeOK' /\ troubles' \in 0 .. MaxTroubles
    BY <1>3, <2>2, VouchTyped, ProbeTroubles, TroubleTyped DEF Apply, World
  <2>4. RequestsTyped'
    BY <1>3, <2>1, BecomesTyped DEF Apply
  <2> QED
    BY <1>3, <2>3, <2>4, UntouchedTyped DEF Apply, World, GroupsTypeOK
<1>4. ASSUME NEW body \in Deletes, DeleteKey(r, body)
      PROVE  World' /\ RequestsTyped'
  <2>1. HandlerTyped(Arrival(body, "indexes"))
    BY ArrivalTyped, BodiesAssumption DEF Bodies
  <2> QED
    BY <1>4, <2>1, BecomesTyped, ReadsTyped DEF DeleteKey, Arrives
<1>5. ASSUME NEW body \in RenderPatches, RenderPatch(r, body)
      PROVE  World' /\ RequestsTyped'
  <2> DEFINE q == [Arrival(body, "sets") EXCEPT !.todo = body.sets]
  <2>1. body \in Bodies /\ body.kind = "render" /\ body.sets \in Seq(Keys \X (Creds \cup {NoCred}))
    BY BodiesAssumption DEF Bodies
  <2>2. HandlerTyped(q)
    BY <2>1 DEF Arrival, HandlerTyped, HandlerFields, RenderHandler, World, RenderTypeOK
  <2>3. body.deletes # <<>> => HandlerTyped(Arrival(body, "indexes"))
    BY <2>1, ArrivalTyped
  <2>4. /\ \/ body.deletes # <<>> /\ Becomes(r, Arrival(body, "indexes"))
           \/ Becomes(r, q)
        /\ Fine /\ OnlyReads
    BY <1>5 DEF RenderPatch, Arrives
  <2> HIDE DEF q
  <2> QED
    BY <2>2, <2>3, <2>4, BecomesTyped, ReadsTyped
<1> QED
  BY <1>1, <1>2, <1>3, <1>4, <1>5 DEF Arrivals
-----------------------------------------------------------------------------
(* set_override. *)

PhaseNames == {"probe model", "verify", "probe armed", "write index", "read row",
               "write model", "activate"}

(* A phase put before others is the head of the list, and they are its tail. *)
LEMMA PrependRead ==
    ASSUME NEW S, NEW x \in S, NEW s \in Seq(S)
    PROVE  /\ <<x>> \o s \in Seq(S) /\ <<x>> \o s # <<>>
           /\ Head(<<x>> \o s) = x /\ Tail(<<x>> \o s) = s
<1>1. <<x>> \in Seq(S) /\ Len(<<x>>) = 1 /\ <<x>>[1] = x
  OBVIOUS
<1>2. /\ <<x>> \o s \in Seq(S) /\ Len(<<x>> \o s) = 1 + Len(s)
      /\ \A i \in 1 .. 1 + Len(s) : (<<x>> \o s)[i] = IF i <= 1 THEN <<x>>[i] ELSE s[i - 1]
  BY <1>1, ConcatProperties
<1> DEFINE t == <<x>> \o s
<1>3. t \in Seq(S) /\ Len(t) = 1 + Len(s) /\ Len(s) \in Nat
  BY <1>2
<1>4. t[1] = x /\ \A i \in 1 .. Len(s) : t[i + 1] = s[i]
  <2>1. t[1] = x
    BY <1>1, <1>2, <1>3
  <2>2. ASSUME NEW i \in 1 .. Len(s) PROVE t[i + 1] = s[i]
    <3>1. i + 1 \in 1 .. 1 + Len(s) /\ ~(i + 1 <= 1) /\ (i + 1) - 1 = i
      BY <1>3
    <3> QED
      BY <1>2, <3>1
  <2> QED
    BY <2>1, <2>2
<1> HIDE DEF t
<1>5. t # <<>> /\ Head(t) = x
  BY <1>3, <1>4
<1>6. Tail(t) = s
  <2>1. Tail(t) \in Seq(S) /\ Len(Tail(t)) = Len(s)
    BY <1>3, <1>5
  <2>2. \A i \in 1 .. Len(s) : Tail(t)[i] = s[i]
    BY <1>3, <1>4, <1>5
  <2> QED
    BY <2>1, <2>2, SeqEqual
<1> QED
  BY <1>3, <1>5, <1>6 DEF t

(* A phase that may be left out: the list when it is there, the rest when it is not. *)
LEMMA OptionalRead ==
    ASSUME NEW c, NEW x \in PhaseNames, NEW s \in Seq(PhaseNames)
    PROVE  /\ Optional(c, x, s) \in Seq(PhaseNames)
           /\ ~c => Optional(c, x, s) = s
           /\ c => /\ Optional(c, x, s) # <<>>
                   /\ Head(Optional(c, x, s)) = x /\ Tail(Optional(c, x, s)) = s
           /\ Optional(c, x, s) = (IF c THEN <<x>> ELSE <<>>) \o s
<1>1. <<>> \o s = s
  BY ConcatEmptySeq
<1>2. <<x>> \o s \in Seq(PhaseNames) /\ <<x>> \o s # <<>>
      /\ Head(<<x>> \o s) = x /\ Tail(<<x>> \o s) = s
  BY PrependRead
<1>3. CASE c
  BY <1>2, <1>3 DEF Optional
<1>4. CASE ~c
  BY <1>1, <1>4 DEF Optional
<1> QED
  BY <1>3, <1>4

(* What is left of set_override, from any point on, is a sequence of its phases. *)
LEMMA RestsListed ==
    ASSUME NEW a
    PROVE  Rests(a) \subseteq Seq(PhaseNames)
<1>1. FromActivate(a) \in Seq(PhaseNames)
  <2>1. <<>> \in Seq(PhaseNames) /\ "activate" \in PhaseNames
    BY DEF PhaseNames
  <2>2. <<"activate">> \o <<>> \in Seq(PhaseNames)
    BY <2>1, PrependRead
  <2> QED
    BY <2>1, <2>2 DEF FromActivate, Optional
<1>2. FromModel(a) \in Seq(PhaseNames)
  BY <1>1, OptionalRead DEF FromModel, PhaseNames
<1>3. FromRow(a) \in Seq(PhaseNames)
  BY <1>2, OptionalRead DEF FromRow, PhaseNames
<1>4. FromIndex(a) \in Seq(PhaseNames)
  BY <1>3, OptionalRead DEF FromIndex, PhaseNames
<1>5. FromArmed(a) \in Seq(PhaseNames)
  BY <1>4, OptionalRead DEF FromArmed, PhaseNames
<1>6. FromVerify(a) \in Seq(PhaseNames)
  BY <1>5, OptionalRead DEF FromVerify, PhaseNames
<1>7. FromStart(a) \in Seq(PhaseNames)
  BY <1>6, OptionalRead DEF FromStart, PhaseNames
<1> QED
  BY <1>1, <1>2, <1>3, <1>4, <1>5, <1>6, <1>7 DEF Rests

(* The phase that comes next says what was asked for, and what is left after it. *)
AtActivate(a, t) == Head(t) = "activate" /\ a.activate /\ t = FromActivate(a) /\ Tail(t) = <<>>
AtModel(a, t) ==
    Head(t) = "write model" /\ a.model # Absent /\ t = FromModel(a) /\ Tail(t) = FromActivate(a)
AtRow(a, t) ==
    Head(t) = "read row" /\ a.model # Absent /\ t = FromRow(a) /\ Tail(t) = FromModel(a)
AtIndex(a, t) ==
    Head(t) = "write index" /\ a.index # Absent /\ t = FromIndex(a) /\ Tail(t) = FromRow(a)
AtArmed(a, t) ==
    /\ Head(t) = "probe armed" /\ Touched(a) /\ a.probe /\ ~Named(a)
    /\ t = FromArmed(a) /\ Tail(t) = FromIndex(a)
AtVerify(a, t) ==
    Head(t) = "verify" /\ Touched(a) /\ t = FromVerify(a) /\ Tail(t) = FromArmed(a)
AtStart(a, t) ==
    /\ Head(t) = "probe model" /\ Named(a) /\ a.probe
    /\ t = FromStart(a) /\ Tail(t) = FromVerify(a)

(* The head of what is left, and what is left after it. *)
LEMMA RestsRead ==
    ASSUME NEW a
    PROVE  /\ FromActivate(a) # <<>> => AtActivate(a, FromActivate(a))
           /\ FromModel(a) = FromActivate(a) \/ AtModel(a, FromModel(a))
           /\ IF a.model = Absent THEN FromRow(a) = FromActivate(a)
              ELSE /\ AtRow(a, FromRow(a)) /\ AtModel(a, FromModel(a))
                   /\ FromRow(a) # <<>> /\ FromModel(a) # <<>>
           /\ FromIndex(a) = FromRow(a) \/ AtIndex(a, FromIndex(a))
           /\ FromArmed(a) = FromIndex(a) \/ AtArmed(a, FromArmed(a))
           /\ (FromVerify(a) = FromArmed(a) /\ ~Touched(a)) \/ AtVerify(a, FromVerify(a))
           /\ FromStart(a) = FromVerify(a) \/ AtStart(a, FromStart(a))
<1>0. Rests(a) \subseteq Seq(PhaseNames)
  BY RestsListed
<1>1. /\ FromActivate(a) \in Seq(PhaseNames) /\ FromModel(a) \in Seq(PhaseNames)
      /\ FromRow(a) \in Seq(PhaseNames) /\ FromIndex(a) \in Seq(PhaseNames)
      /\ FromArmed(a) \in Seq(PhaseNames) /\ FromVerify(a) \in Seq(PhaseNames)
  BY <1>0 DEF Rests
<1>2. FromActivate(a) # <<>> => AtActivate(a, FromActivate(a))
  <2>1. <<>> \in Seq(PhaseNames) /\ "activate" \in PhaseNames
    BY DEF PhaseNames
  <2>2. /\ Head(<<"activate">> \o <<>>) = "activate" /\ Tail(<<"activate">> \o <<>>) = <<>>
    BY <2>1, PrependRead
  <2>3. CASE a.activate
    <3>1. FromActivate(a) = <<"activate">> \o <<>>
      BY <2>3 DEF FromActivate, Optional
    <3> QED
      BY <2>2, <2>3, <3>1 DEF AtActivate
  <2>4. CASE ~a.activate
    BY <2>4 DEF FromActivate, Optional
  <2> QED
    BY <2>3, <2>4
<1>3. IF a.model = Absent THEN FromModel(a) = FromActivate(a)
      ELSE AtModel(a, FromModel(a)) /\ FromModel(a) # <<>>
  <2>1. "write model" \in PhaseNames
    BY DEF PhaseNames
  <2> QED
    BY <1>1, <2>1, OptionalRead DEF FromModel, AtModel
<1>4. IF a.model = Absent THEN FromRow(a) = FromModel(a)
      ELSE AtRow(a, FromRow(a)) /\ FromRow(a) # <<>>
  <2>1. "read row" \in PhaseNames
    BY DEF PhaseNames
  <2> QED
    BY <1>1, <2>1, OptionalRead DEF FromRow, AtRow
<1>5. FromIndex(a) = FromRow(a) \/ AtIndex(a, FromIndex(a))
  <2>1. "write index" \in PhaseNames
    BY DEF PhaseNames
  <2>2. /\ Head(<<"write index">> \o FromRow(a)) = "write index"
        /\ Tail(<<"write index">> \o FromRow(a)) = FromRow(a)
    BY <1>1, <2>1, PrependRead
  <2>3. CASE a.index # Absent
    <3>1. FromIndex(a) = <<"write index">> \o FromRow(a)
      BY <2>3 DEF FromIndex, Optional
    <3> QED
      BY <2>2, <2>3, <3>1 DEF AtIndex
  <2>4. CASE ~(a.index # Absent)
    BY <2>4 DEF FromIndex, Optional
  <2> QED
    BY <2>3, <2>4
<1>6. FromArmed(a) = FromIndex(a) \/ AtArmed(a, FromArmed(a))
  <2>1. "probe armed" \in PhaseNames
    BY DEF PhaseNames
  <2>2. /\ Head(<<"probe armed">> \o FromIndex(a)) = "probe armed"
        /\ Tail(<<"probe armed">> \o FromIndex(a)) = FromIndex(a)
    BY <1>1, <2>1, PrependRead
  <2>3. CASE Touched(a) /\ a.probe /\ ~Named(a)
    <3>1. FromArmed(a) = <<"probe armed">> \o FromIndex(a)
      BY <2>3 DEF FromArmed, Optional
    <3> QED
      BY <2>2, <2>3, <3>1 DEF AtArmed
  <2>4. CASE ~(Touched(a) /\ a.probe /\ ~Named(a))
    BY <2>4 DEF FromArmed, Optional
  <2> QED
    BY <2>3, <2>4
<1>7. (FromVerify(a) = FromArmed(a) /\ ~Touched(a)) \/ AtVerify(a, FromVerify(a))
  <2>1. "verify" \in PhaseNames
    BY DEF PhaseNames
  <2>2. /\ Head(<<"verify">> \o FromArmed(a)) = "verify"
        /\ Tail(<<"verify">> \o FromArmed(a)) = FromArmed(a)
    BY <1>1, <2>1, PrependRead
  <2>3. CASE Touched(a)
    <3>1. FromVerify(a) = <<"verify">> \o FromArmed(a)
      BY <2>3 DEF FromVerify, Optional
    <3> QED
      BY <2>2, <2>3, <3>1 DEF AtVerify
  <2>4. CASE ~Touched(a)
    BY <2>4 DEF FromVerify, Optional
  <2> QED
    BY <2>3, <2>4
<1>8. FromStart(a) = FromVerify(a) \/ AtStart(a, FromStart(a))
  <2>1. "probe model" \in PhaseNames
    BY DEF PhaseNames
  <2>2. /\ Head(<<"probe model">> \o FromVerify(a)) = "probe model"
        /\ Tail(<<"probe model">> \o FromVerify(a)) = FromVerify(a)
    BY <1>1, <2>1, PrependRead
  <2>3. CASE Named(a) /\ a.probe
    <3>1. FromStart(a) = <<"probe model">> \o FromVerify(a)
      BY <2>3 DEF FromStart, Optional
    <3> QED
      BY <2>2, <2>3, <3>1 DEF AtStart
  <2>4. CASE ~(Named(a) /\ a.probe)
    BY <2>4 DEF FromStart, Optional
  <2> QED
    BY <2>3, <2>4
<1> QED
  BY <1>2, <1>3, <1>4, <1>5, <1>6, <1>7, <1>8

AtSome(a, t) ==
    \/ AtActivate(a, t) \/ AtModel(a, t) \/ AtRow(a, t) \/ AtIndex(a, t)
    \/ AtArmed(a, t) \/ AtVerify(a, t) \/ AtStart(a, t)

(* What is left, when it is not empty, starts at one of the phases that run. *)
LEMMA RestIsAtSome ==
    ASSUME NEW a, NEW t \in Rests(a), t # <<>>
    PROVE  AtSome(a, t)
<1>1. FromActivate(a) # <<>> => AtSome(a, FromActivate(a))
  BY RestsRead DEF AtSome
<1>2. FromModel(a) # <<>> => AtSome(a, FromModel(a))
  BY <1>1, RestsRead DEF AtSome
<1>3. FromRow(a) # <<>> => AtSome(a, FromRow(a))
  BY <1>1, RestsRead DEF AtSome
<1>4. FromIndex(a) # <<>> => AtSome(a, FromIndex(a))
  BY <1>3, RestsRead DEF AtSome
<1>5. FromArmed(a) # <<>> => AtSome(a, FromArmed(a))
  BY <1>4, RestsRead DEF AtSome
<1>6. FromVerify(a) # <<>> => AtSome(a, FromVerify(a))
  BY <1>5, RestsRead DEF AtSome
<1>7. FromStart(a) # <<>> => AtSome(a, FromStart(a))
  BY <1>6, RestsRead DEF AtSome
<1> QED
  BY <1>1, <1>2, <1>3, <1>4, <1>5, <1>6, <1>7 DEF Rests

(* Putting phases before others is associative. *)
LEMMA ConcatPair ==
    ASSUME NEW S, NEW x \in S, NEW y \in S
    PROVE  <<x>> \o <<y>> = <<x, y>>
<1>1. <<x>> \in Seq(S) /\ <<y>> \in Seq(S) /\ <<x, y>> \in Seq(S)
  OBVIOUS
<1>2. Len(<<x>>) = 1 /\ Len(<<y>>) = 1 /\ Len(<<x, y>>) = 2
  OBVIOUS
<1> DEFINE s == <<x>> \o <<y>>
<1>3. s \in Seq(S) /\ Len(s) = 2 /\ s[1] = <<x>>[1] /\ s[2] = <<y>>[1]
  BY <1>1, <1>2, ConcatProperties
<1> HIDE DEF s
<1>4. s[1] = <<x, y>>[1] /\ s[2] = <<x, y>>[2]
  BY <1>3
<1>5. s = <<x, y>>
  <2>1. \A i \in 1 .. Len(s) : s[i] = <<x, y>>[i]
    BY <1>3, <1>4
  <2> QED
    BY <1>1, <1>2, <1>3, <2>1, SeqEqual
<1> QED
  BY <1>5 DEF s

(* The phases of a command, as the code lists them, are those from the start on. *)
LEMMA PhasesRead == \A a : Phases(a) = FromStart(a)
<1> SUFFICES ASSUME NEW a PROVE Phases(a) = FromStart(a)
  OBVIOUS
<1> DEFINE S == Seq(PhaseNames)
           Cat(x, y) == x \o y
           If(condition, phases) == IF condition THEN phases ELSE <<>>
           P1 == If(Named(a) /\ a.probe, <<"probe model">>)
           P2 == If(Touched(a), <<"verify">>)
           P3 == If(Touched(a) /\ a.probe /\ ~Named(a), <<"probe armed">>)
           P4 == If(a.index # Absent, <<"write index">>)
           P5 == If(a.model # Absent, <<"read row", "write model">>)
           P6 == If(a.activate, <<"activate">>)
<1>1. /\ <<>> \in S /\ <<"probe model">> \in S /\ <<"verify">> \in S /\ <<"probe armed">> \in S
      /\ <<"write index">> \in S /\ <<"read row">> \in S /\ <<"write model">> \in S
      /\ <<"activate">> \in S
  BY DEF PhaseNames
<1>2. \A x, y \in S : Cat(x, y) \in S
  OBVIOUS
<1>3. ASSUME NEW x \in S, NEW y \in S, NEW z \in S
      PROVE  Cat(Cat(x, y), z) = Cat(x, Cat(y, z))
  BY SMT
<1>4. \A x \in S : Cat(x, <<>>) = x /\ Cat(<<>>, x) = x
  BY ConcatEmptySeq
<1>5. Cat(<<"read row">>, <<"write model">>) = <<"read row", "write model">>
  <2>1. "read row" \in PhaseNames /\ "write model" \in PhaseNames
    BY DEF PhaseNames
  <2> QED
    BY <2>1, ConcatPair
<1>6. Phases(a) = Cat(Cat(Cat(Cat(Cat(P1, P2), P3), P4), P5), P6)
  BY DEF Phases, Named, Touched
<1>7. /\ FromActivate(a) = IF a.activate THEN Cat(<<"activate">>, <<>>) ELSE <<>>
      /\ FromModel(a) = IF a.model # Absent THEN Cat(<<"write model">>, FromActivate(a))
                        ELSE FromActivate(a)
      /\ FromRow(a) = IF a.model # Absent THEN Cat(<<"read row">>, FromModel(a)) ELSE FromModel(a)
  BY DEF FromActivate, FromModel, FromRow, Optional
<1>8. /\ FromIndex(a) = IF a.index # Absent THEN Cat(<<"write index">>, FromRow(a)) ELSE FromRow(a)
      /\ FromArmed(a) = IF Touched(a) /\ a.probe /\ ~Named(a)
                        THEN Cat(<<"probe armed">>, FromIndex(a)) ELSE FromIndex(a)
  BY DEF FromIndex, FromArmed, Optional
<1>9. /\ FromVerify(a) = IF Touched(a) THEN Cat(<<"verify">>, FromArmed(a)) ELSE FromArmed(a)
      /\ FromStart(a) = IF Named(a) /\ a.probe THEN Cat(<<"probe model">>, FromVerify(a))
                        ELSE FromVerify(a)
  BY DEF FromVerify, FromStart, Optional
<1>10. /\ FromActivate(a) \in S /\ FromModel(a) \in S
       /\ FromRow(a) \in S /\ FromIndex(a) \in S
       /\ FromArmed(a) \in S /\ FromVerify(a) \in S
  BY RestsListed DEF Rests
<1>11. P1 \in S /\ P2 \in S /\ P3 \in S /\ P4 \in S /\ P5 \in S /\ P6 \in S
  <2>1. <<"read row", "write model">> \in S
    BY DEF PhaseNames
  <2> QED
    BY <1>1, <2>1
<1> HIDE DEF S, Cat
<1>12. FromActivate(a) = P6
  BY <1>1, <1>4, <1>7
<1>13. FromRow(a) = Cat(P5, P6)
  <2>1. CASE a.model = Absent
    BY <1>4, <1>7, <1>11, <1>12, <2>1
  <2>2. CASE a.model # Absent
    <3>1. FromRow(a) = Cat(<<"read row">>, Cat(<<"write model">>, FromActivate(a)))
      BY <1>7, <2>2
    <3>2. @ = Cat(Cat(<<"read row">>, <<"write model">>), FromActivate(a))
      <4> DEFINE R == <<"read row">>
                 M == <<"write model">>
      <4>1. R \in S /\ M \in S
        BY <1>1
      <4> HIDE DEF R, M
      <4>2. Cat(R, Cat(M, FromActivate(a))) = Cat(Cat(R, M), FromActivate(a))
        BY <1>3, <1>10, <4>1
      <4> QED
        BY <4>2 DEF R, M
    <3>3. P5 = <<"read row", "write model">>
      BY <2>2
    <3> QED
      BY <1>5, <1>12, <3>1, <3>2, <3>3
  <2> QED
    BY <2>1, <2>2
<1>14. FromIndex(a) = Cat(P4, FromRow(a)) /\ FromArmed(a) = Cat(P3, FromIndex(a))
  BY <1>4, <1>8, <1>10
<1>15. FromVerify(a) = Cat(P2, FromArmed(a)) /\ FromStart(a) = Cat(P1, FromVerify(a))
  BY <1>4, <1>9, <1>10
<1> HIDE DEF P1, P2, P3, P4, P5, P6, If
<1>16. Phases(a) = Cat(P1, Cat(P2, Cat(P3, Cat(P4, Cat(P5, P6)))))
  <2>1. /\ Cat(P1, P2) \in S /\ Cat(P5, P6) \in S
    BY <1>2, <1>11
  <2>2. Cat(Cat(P1, P2), P3) \in S /\ Cat(P4, Cat(P5, P6)) \in S
    BY <1>2, <1>11, <2>1
  <2>3. Cat(Cat(Cat(P1, P2), P3), P4) \in S /\ Cat(P3, Cat(P4, Cat(P5, P6))) \in S
    BY <1>2, <1>11, <2>2
  <2>4. Phases(a) = Cat(Cat(Cat(Cat(P1, P2), P3), P4), Cat(P5, P6))
    BY <1>3, <1>6, <1>11, <2>3
  <2>5. @ = Cat(Cat(Cat(P1, P2), P3), Cat(P4, Cat(P5, P6)))
    BY <1>3, <1>11, <2>1, <2>2
  <2>6. @ = Cat(Cat(P1, P2), Cat(P3, Cat(P4, Cat(P5, P6))))
    BY <1>3, <1>11, <2>1, <2>2
  <2>7. @ = Cat(P1, Cat(P2, Cat(P3, Cat(P4, Cat(P5, P6)))))
    BY <1>3, <1>11, <2>3
  <2> QED
    BY <2>4, <2>5, <2>6, <2>7
<1> QED
  BY <1>13, <1>14, <1>15, <1>16

(* set_override starts typed. *)
LEMMA StartTyped ==
    ASSUME NEW a \in Commands, ~a.clear
    PROVE  FromStart(a) # <<>> /\ Head(FromStart(a)) \notin KeepsIndex
<1>1. a.activate \/ a.index # Absent \/ a.model # Absent
  BY CommandAssumption
<1>2. Rests(a) \subseteq Seq(PhaseNames)
  BY RestsListed
<1>3. FromActivate(a) = <<>> => ~a.activate
  <2>1. "activate" \in PhaseNames /\ <<>> \in Seq(PhaseNames)
    BY DEF PhaseNames
  <2>2. <<"activate">> \o <<>> # <<>>
    BY <2>1, PrependRead
  <2> QED
    BY <2>2 DEF FromActivate, Optional
<1>4. a.model # Absent => FromRow(a) # <<>>
  BY RestsRead
<1>5. a.index # Absent => AtIndex(a, FromIndex(a)) /\ FromIndex(a) # <<>>
  <2>1. "write index" \in PhaseNames /\ FromRow(a) \in Seq(PhaseNames)
    BY <1>2 DEF PhaseNames, Rests
  <2> QED
    BY <2>1, OptionalRead DEF FromIndex, AtIndex
<1>6. FromIndex(a) # <<>>
  <2>1. CASE a.index # Absent
    BY <1>5, <2>1
  <2>2. CASE a.index = Absent
    <3>1. FromIndex(a) = FromRow(a)
      BY <2>2 DEF FromIndex, Optional
    <3>2. a.model = Absent => FromRow(a) = FromActivate(a)
      BY DEF FromRow, FromModel, Optional
    <3> QED
      BY <1>1, <1>3, <1>4, <2>2, <3>1, <3>2
  <2> QED
    BY <2>1, <2>2
<1>7. FromArmed(a) # <<>> /\ FromVerify(a) # <<>> /\ FromStart(a) # <<>>
  <2>1. /\ FromIndex(a) \in Seq(PhaseNames) /\ FromArmed(a) \in Seq(PhaseNames)
        /\ FromVerify(a) \in Seq(PhaseNames)
    BY <1>2 DEF Rests
  <2>2. "probe armed" \in PhaseNames /\ "verify" \in PhaseNames /\ "probe model" \in PhaseNames
    BY DEF PhaseNames
  <2>3. FromArmed(a) # <<>>
    <3>1. <<"probe armed">> \o FromIndex(a) # <<>>
      BY <2>1, <2>2, PrependRead
    <3> QED
      BY <1>6, <3>1 DEF FromArmed, Optional
  <2>4. FromVerify(a) # <<>>
    <3>1. <<"verify">> \o FromArmed(a) # <<>>
      BY <2>1, <2>2, PrependRead
    <3> QED
      BY <2>3, <3>1 DEF FromVerify, Optional
  <2>5. FromStart(a) # <<>>
    <3>1. <<"probe model">> \o FromVerify(a) # <<>>
      BY <2>1, <2>2, PrependRead
    <3> QED
      BY <2>4, <3>1 DEF FromStart, Optional
  <2> QED
    BY <2>3, <2>4, <2>5
<1>8. Head(FromIndex(a)) \notin KeepsIndex
  BY <1>6, RestsRead DEF AtIndex, AtRow, AtActivate, KeepsIndex
<1>9. Head(FromVerify(a)) \notin KeepsIndex
  BY <1>8, RestsRead DEF AtVerify, AtArmed, KeepsIndex
<1> QED
  BY <1>7, <1>9, RestsRead DEF AtStart, KeepsIndex

(* Where the command is. *)
LEMMA PhaseTyped ==
    ASSUME CLITyped, NEW name, Phase(name)
    PROVE  /\ CommandTyped(cli) /\ AtSome(cli.args, cli.todo) /\ Head(cli.todo) = name
           /\ cli.args.provider \in Providers
           /\ cli.args.index \in Slots \cup {NoIndex, Absent}
           /\ cli.args.model \in Models \cup {NoModel, Absent}
<1>1. CommandTyped(cli) /\ Head(cli.todo) = name
  BY DEF CLITyped, Phase, Running
<1>2. AtSome(cli.args, cli.todo)
  BY <1>1, RestIsAtSome DEF CommandTyped
<1> QED
  BY <1>1, <1>2, CommandAssumption DEF CommandTyped

(* What is left after a phase is again what is left from some point on. *)
LEMMA TailTyped ==
    ASSUME CommandTyped(cli), AtSome(cli.args, cli.todo)
    PROVE  /\ Tail(cli.todo) # <<>> => Tail(cli.todo) \in Rests(cli.args)
           /\ Head(cli.todo) \notin {"verify", "read row"} /\ Tail(cli.todo) # <<>>
                => Head(Tail(cli.todo)) \notin KeepsIndex
           /\ Head(cli.todo) = "read row" => Tail(cli.todo) # <<>>
<1> DEFINE a == cli.args
           t == cli.todo
<1>1. Tail(t) # <<>> => Tail(t) \in Rests(a)
  BY DEF Rests, AtSome, AtActivate, AtModel, AtRow, AtIndex, AtArmed, AtVerify, AtStart
<1>2. FromActivate(a) # <<>> => Head(FromActivate(a)) \notin KeepsIndex
  BY RestsRead DEF AtActivate, KeepsIndex
<1>3. FromRow(a) # <<>> => Head(FromRow(a)) \notin KeepsIndex
  BY <1>2, RestsRead DEF AtRow, KeepsIndex
<1>4. FromIndex(a) # <<>> => Head(FromIndex(a)) \notin KeepsIndex
  BY <1>3, RestsRead DEF AtIndex, KeepsIndex
<1>5. FromVerify(a) # <<>> => Head(FromVerify(a)) \notin KeepsIndex
  BY <1>4, RestsRead DEF AtVerify, AtArmed, KeepsIndex
<1>6. Head(t) = "read row" => Tail(t) # <<>>
  BY RestsRead DEF AtSome, AtActivate, AtModel, AtRow, AtIndex, AtArmed, AtVerify, AtStart
<1> QED
  BY <1>1, <1>2, <1>3, <1>4, <1>5, <1>6
     DEF AtSome, AtActivate, AtModel, AtRow, AtIndex, AtArmed, AtVerify, AtStart

(* Going on to the next phase, with the index known where it is needed. *)
LEMMA NextPhaseTyped ==
    ASSUME CommandTyped(cli), AtSome(cli.args, cli.todo), NextPhase,
           Head(cli.todo) # "read row", Head(cli.todo) = "verify" => cli.index \in Slots
    PROVE  CLITyped'
<1> DEFINE rest == Tail(cli.todo)
           c == [cli EXCEPT !.todo = rest,
                            !.index = IF Head(rest) \in KeepsIndex THEN @ ELSE Unread]
<1>1. rest # <<>> => rest \in Rests(cli.args)
  BY TailTyped
<1>2. rest # <<>> /\ Head(rest) \in KeepsIndex => cli.index \in Slots
  BY TailTyped
<1>3. CASE rest = <<>>
  BY <1>3 DEF NextPhase, Exits, CLITyped, NotRunning
<1>4. CASE rest # <<>>
  <2>1. cli' = c
    BY <1>4 DEF NextPhase
  <2> HIDE DEF rest
  <2>2. CommandTyped(c)
    BY <1>1, <1>2, <1>4 DEF CommandTyped
  <2> HIDE DEF c
  <2>3. CommandTyped(cli')
    BY <2>1, <2>2
  <2> QED
    BY <2>3 DEF CLITyped, CommandTyped
<1> QED
  BY <1>3, <1>4

(* Starting a command. *)
LEMMA CommandsTyped ==
    ASSUME World, CLITyped, NEW args \in Commands, Command(args)
    PROVE  World' /\ CLITyped'
<1>1. World'
  BY ReadsTyped DEF Command
<1>2. CASE args.clear
  BY <1>1, <1>2 DEF Command, CLITyped
<1>3. CASE ~args.clear
  <2> DEFINE c == [at |-> "phases", args |-> args, todo |-> Phases(args),
                   index |-> Unread, row |-> NoRow, found |-> provider]
  <2>1. Phases(args) = FromStart(args) /\ FromStart(args) \in Rests(args)
    BY PhasesRead DEF Rests
  <2>2. Phases(args) # <<>> /\ Head(Phases(args)) \notin KeepsIndex
    BY <1>3, <2>1, StartTyped
  <2>3. CommandTyped(c)
    BY <1>3, <2>1, <2>2 DEF CommandTyped
  <2>4. cli' = c
    BY <1>3 DEF Command
  <2> HIDE DEF c
  <2>5. CommandTyped(cli')
    BY <2>3, <2>4
  <2> QED
    BY <1>1, <2>5 DEF CLITyped, CommandTyped
<1> QED
  BY <1>2, <1>3

(* Leaving one. *)
LEMMA ExitsTyped == Exits => CLITyped'
BY DEF Exits, CLITyped

(* The phase that resolves the index. *)
LEMMA ResolveTyped ==
    ASSUME World, CLITyped, ResolveIndex
    PROVE  World' /\ CLITyped'
<1>1. World'
  BY ReadsTyped DEF ResolveIndex
<1>2. Phase(Head(cli.todo)) /\ Head(cli.todo) \notin KeepsIndex
  BY DEF ResolveIndex, Phase, KeepsIndex
<1>3. /\ CommandTyped(cli) /\ cli.args.provider \in Providers
      /\ cli.args.index \in Slots \cup {NoIndex, Absent}
  BY <1>2, PhaseTyped
<1> DEFINE i == IndexOrZero(IF cli.args.index = Absent THEN key_index[cli.args.provider]
                            ELSE cli.args.index)
           c == [cli EXCEPT !.index = i]
<1>4. i \in Slots
  <2>1. 0 \in Slots
    BY RenderAssumption DEF Slots
  <2> QED
    BY <1>3, <2>1 DEF IndexOrZero, World, ConfigTypeOK
<1>5. cli' = c
  BY DEF ResolveIndex
<1> HIDE DEF i
<1>6. CommandTyped(c)
  BY <1>3, <1>4 DEF CommandTyped
<1> HIDE DEF c
<1> QED
  BY <1>1, <1>5, <1>6 DEF CLITyped

(* A phase that probes goes on or exits. *)
LEMMA ProbesTyped ==
    ASSUME World, CLITyped, NEW name \in {"probe model", "probe armed"}, Phase(name),
           cli.index \in Slots, NEW row \in SlotRow \cup {NoRow}, Probes(row)
    PROVE  World' /\ CLITyped'
<1>1. CommandTyped(cli) /\ AtSome(cli.args, cli.todo) /\ Head(cli.todo) = name
      /\ CLISlot \in Keys
  BY PhaseTyped DEF CLISlot, Keys
<1>2. CLITyped'
  BY <1>1, NextPhaseTyped, ExitsTyped DEF Probes
<1>3. ProbeAccepts(CLISlot, Shell[CLISlot], row) \/ ProbeRefuses(CLISlot, Shell[CLISlot], row)
  BY DEF Probes
<1>4. UNCHANGED <<renderVars, configVars, stored>>
  BY DEF Probes
<1>5. ConfigTypeOK' /\ troubles' \in 0 .. MaxTroubles
  BY <1>1, <1>3, <1>4, VouchTyped, ProbeTroubles, TroubleTyped DEF World
<1> QED
  BY <1>2, <1>4, <1>5, UntouchedTyped DEF World, GroupsTypeOK

(* The two phases that probe: the model named, and the slot armed. *)
LEMMA OverrideProbesTyped ==
    ASSUME World, CLITyped, ProbeModel \/ ProbeArmed
    PROVE  World' /\ CLITyped'
<1>1. CASE ProbeModel
  <2>1. Phase("probe model") /\ cli.index # Unread
        /\ Probes(RowOf(cli.args.model, PlaceOf(slot_config[CLISlot])))
    BY <1>1 DEF ProbeModel
  <2>2. /\ CommandTyped(cli) /\ AtSome(cli.args, cli.todo) /\ Head(cli.todo) = "probe model"
        /\ cli.args.provider \in Providers /\ cli.args.model \in Models \cup {NoModel, Absent}
    BY <2>1, PhaseTyped
  <2>3. cli.index \in Slots /\ CLISlot \in Keys
    BY <2>1, <2>2 DEF CommandTyped, CLISlot, Keys
  <2>4. cli.args.model \in Models
    BY <2>2 DEF AtSome, AtActivate, AtModel, AtRow, AtIndex, AtArmed, AtVerify, AtStart, Named
  <2>5. RowOf(cli.args.model, PlaceOf(slot_config[CLISlot])) \in SlotRow
    BY <2>3, <2>4, ReadRowTyped, RowTyped DEF World, ConfigTypeOK
  <2> QED
    BY <2>1, <2>3, <2>5, ProbesTyped
<1>2. CASE ProbeArmed
  <2>1. Phase("probe armed") /\ Probes(slot_config[CLISlot])
    BY <1>2 DEF ProbeArmed
  <2>2. CommandTyped(cli) /\ Head(cli.todo) = "probe armed" /\ cli.args.provider \in Providers
    BY <2>1, PhaseTyped
  <2>3. cli.index \in Slots /\ CLISlot \in Keys
    BY <2>2 DEF CommandTyped, CLISlot, Keys, KeepsIndex
  <2>4. slot_config[CLISlot] \in SlotRow \cup {NoRow}
    BY <2>3 DEF World, ConfigTypeOK
  <2> QED
    BY <2>1, <2>3, <2>4, ProbesTyped
<1> QED
  BY <1>1, <1>2

(* The phase that checks the credential. *)
LEMMA VerifyTyped ==
    ASSUME World, CLITyped, VerifySlot
    PROVE  World' /\ CLITyped'
<1>1. World'
  BY ReadsTyped DEF VerifySlot
<1>2. CommandTyped(cli) /\ AtSome(cli.args, cli.todo) /\ Head(cli.todo) = "verify"
  BY PhaseTyped DEF VerifySlot
<1>3. cli.index \in Slots
  BY <1>2 DEF VerifySlot, CommandTyped
<1>4. NextPhase \/ Exits
  BY DEF VerifySlot
<1> QED
  BY <1>1, <1>2, <1>3, <1>4, NextPhaseTyped, ExitsTyped

(* The phase that reads the stored row. *)
LEMMA ReadRowsTyped ==
    ASSUME World, CLITyped, ReadRow
    PROVE  World' /\ CLITyped'
<1>1. World'
  BY ReadsTyped DEF ReadRow
<1>2. CommandTyped(cli) /\ AtSome(cli.args, cli.todo) /\ Head(cli.todo) = "read row"
      /\ cli.args.provider \in Providers
  BY PhaseTyped DEF ReadRow
<1>3. cli.index \in Slots /\ CLISlot \in Keys
  BY <1>2 DEF ReadRow, CommandTyped, CLISlot, Keys
<1>4. slot_config[CLISlot] \in SlotRow \cup {NoRow}
  BY <1>3 DEF World, ConfigTypeOK
<1>5. Tail(cli.todo) # <<>> /\ Tail(cli.todo) \in Rests(cli.args)
  BY <1>2, TailTyped
<1> DEFINE c == [cli EXCEPT !.row = slot_config[CLISlot], !.todo = Tail(@)]
<1>6. CommandTyped(c)
  BY <1>2, <1>3, <1>4, <1>5 DEF CommandTyped
<1>7. cli' = c
  BY DEF ReadRow
<1> HIDE DEF c
<1> QED
  BY <1>1, <1>6, <1>7 DEF CLITyped

(* The phases that write: index, model, provider, and the clearing of the provider. *)
LEMMA OverrideWritesTyped ==
    ASSUME World, CLITyped, WriteIndex \/ WriteModel \/ Activate \/ ClearProvider
    PROVE  World' /\ CLITyped'
<1>1. CASE WriteIndex
  <2>1. Phase("write index")
    BY <1>1 DEF WriteIndex
  <2>2. /\ CommandTyped(cli) /\ AtSome(cli.args, cli.todo) /\ Head(cli.todo) = "write index"
        /\ cli.args.index \in Slots \cup {NoIndex, Absent}
    BY <2>1, PhaseTyped
  <2>3. cli.args.index # Absent
    BY <2>2 DEF AtSome, AtActivate, AtModel, AtRow, AtIndex, AtArmed, AtVerify, AtStart
  <2>4. ConfigTypeOK'
    BY <1>1, <2>2, <2>3, SetIndexTyped DEF WriteIndex, OnlyConfig, World
  <2>5. CLITyped'
    BY <1>1, <2>2, NextPhaseTyped DEF WriteIndex
  <2> QED
    BY <1>1, <2>4, <2>5, ConfigWritesTyped DEF WriteIndex
<1>2. CASE WriteModel
  <2>1. Phase("write model")
    BY <1>2 DEF WriteModel
  <2>2. /\ CommandTyped(cli) /\ AtSome(cli.args, cli.todo) /\ Head(cli.todo) = "write model"
        /\ cli.args.model \in Models \cup {NoModel, Absent}
    BY <2>1, PhaseTyped
  <2>3. cli.args.model # Absent /\ cli.row \in SlotRow \cup {NoRow}
    BY <2>2 DEF AtSome, AtActivate, AtModel, AtRow, AtIndex, AtArmed, AtVerify, AtStart,
       CommandTyped
  <2>4. RowOf(cli.args.model, PlaceOf(cli.row)) \in SlotRow
    BY <2>2, <2>3, ReadRowTyped, RowTyped
  <2>5. ConfigTypeOK'
    BY <1>2, <2>4, SetSlotTyped DEF WriteModel, OnlyConfig, World
  <2>6. CLITyped'
    BY <1>2, <2>2, NextPhaseTyped DEF WriteModel
  <2> QED
    BY <1>2, <2>5, <2>6, ConfigWritesTyped DEF WriteModel
<1>3. CASE Activate
  <2>1. cli.args.provider \in Providers
    BY <1>3, PhaseTyped DEF Activate
  <2>2. ConfigTypeOK'
    BY <1>3, <2>1, SetProviderTyped DEF Activate, OnlyConfig, World
  <2> QED
    BY <1>3, <2>2, ExitsTyped, ConfigWritesTyped DEF Activate
<1>4. CASE ClearProvider
  <2>1. ConfigTypeOK'
    BY <1>4, SetProviderTyped DEF ClearProvider, OnlyConfig, World
  <2> QED
    BY <1>4, <2>1, ExitsTyped, ConfigWritesTyped DEF ClearProvider
<1> QED
  BY <1>1, <1>2, <1>3, <1>4

(* Every step of set_override. *)
LEMMA OverrideTyped ==
    ASSUME World, CLITyped, SetOverride
    PROVE  World' /\ CLITyped'
<1>1. CASE CommandDies
  BY <1>1, ReadsTyped, ExitsTyped DEF CommandDies
<1> QED
  BY <1>1, ResolveTyped, OverrideProbesTyped, VerifyTyped, ReadRowsTyped, OverrideWritesTyped
     DEF SetOverride

-----------------------------------------------------------------------------
(* deploy --sync-env. *)

(* --sync-env ends typed. *)
LEMMA SyncExitsTyped ==
    ASSUME ScriptTyped(sync), NEW code, SyncExits(code)
    PROVE  SyncTyped'
BY DEF ScriptTyped, SyncExits, SyncTyped

(* It fails typed. *)
LEMMA SyncFailsTyped ==
    ASSUME World, ScriptTyped(sync), NEW kind, NEW code, SyncFails(kind, code)
    PROVE  World' /\ SyncTyped'
BY ReadsTyped, SyncExitsTyped DEF SyncFails, SyncOnlyReads

(* A --sync-env that has started is a typed script. *)
LEMMA SyncRunning == SyncTyped /\ sync.at # "idle" => ScriptTyped(sync)
BY DEF SyncTyped, SyncNever

(* There are finitely many slots. *)
LEMMA KeysAreFinite == IsFiniteSet(Keys)
<1>1. 0 \in Int /\ MaxSlots - 1 \in Int
  BY RenderAssumption
<1>2. IsFiniteSet(Slots)
  BY <1>1, FS_Interval DEF Slots
<1>3. IsFiniteSet(Providers \X Slots)
  BY <1>2, RenderAssumption, FS_Product
<1> QED
  BY <1>3 DEF Keys

(* --sync-env: the provider, the groups, slot 0. *)
LEMMA SyncBeginsTyped ==
    ASSUME World, SyncTyped, SyncEnv \/ ResolveProvider \/ CompareEnv
    PROVE  World' /\ SyncTyped'
<1>1. CASE SyncEnv
  BY <1>1, ReadsTyped DEF SyncEnv, SyncOnlyReads, SyncTyped, ScriptTyped
<1>2. CASE ResolveProvider
  <2>1. ScriptTyped(sync)
    BY <1>2, SyncRunning DEF ResolveProvider, SyncAt
  <2>2. World'
    BY <1>2, ReadsTyped, SyncFailsTyped, <2>1 DEF ResolveProvider, SyncOnlyReads
  <2>3. CASE /\ provider \in Providers
             /\ sync' = [sync EXCEPT !.at = "groups", !.provider = provider,
                                     !.wanted = WantedEnv(provider)]
    <3>1. WantedEnv(provider) \subseteq Keys
      BY <2>3, RenderAssumption DEF WantedEnv, Keys, Slots
    <3> QED
      BY <2>1, <2>2, <2>3, <3>1 DEF ScriptTyped, SyncTyped
  <2>4. CASE SyncExits(2)
    BY <2>1, <2>2, <2>4, SyncExitsTyped
  <2>5. CASE SyncFails("database", 2)
    BY <2>1, <2>5, SyncFailsTyped
  <2> QED
    BY <1>2, <2>3, <2>4, <2>5 DEF ResolveProvider, World, ConfigTypeOK
<1>3. CASE CompareEnv
  <2> DEFINE changed == {k \in sync.wanted : env[k] # Local[k]}
  <2>1. ScriptTyped(sync) /\ sync.at = "compare"
    BY <1>3, SyncRunning DEF CompareEnv, SyncAt
  <2>2. World'
    BY <1>3, ReadsTyped, SyncFailsTyped, <2>1 DEF CompareEnv, SyncOnlyReads
  <2>3. CASE changed # {} /\ sync' = [sync EXCEPT !.at = "push", !.todo = SetToSeq(changed)]
    <3>1. IsFiniteSet(Keys)
      BY KeysAreFinite
    <3>2. changed \subseteq Keys
      BY <2>1 DEF ScriptTyped
    <3>3. IsFiniteSet(changed)
      BY <3>1, <3>2, FS_Subset
    <3> HIDE DEF changed
    <3>4. SetToSeq(changed) \in Seq(changed) /\ SetToSeq(changed) # <<>>
      BY <2>3, <3>3, SetToSeqLists
    <3>5. SetToSeq(changed) \in Seq(Keys)
      BY <3>2, <3>4
    <3> QED
      BY <2>1, <2>2, <2>3, <3>4, <3>5 DEF ScriptTyped, SyncTyped
  <2>4. CASE SyncExits(0)
    BY <2>1, <2>2, <2>4, SyncExitsTyped
  <2>5. CASE SyncFails("render", 2)
    BY <2>1, <2>5, SyncFailsTyped
  <2> QED
    BY <1>3, <2>3, <2>4, <2>5 DEF CompareEnv
<1> QED
  BY <1>1, <1>2, <1>3

(* --sync-env: the comparison and the pushes. *)
LEMMA SyncWritesTyped ==
    ASSUME World, SyncTyped, SyncConfigDB \/ SeedSlotZero \/ PushNext
    PROVE  World' /\ SyncTyped'
<1>0. ScriptTyped(sync)
  BY SyncRunning DEF SyncConfigDB, SeedSlotZero, PushNext, SyncAt
<1>1. ASSUME NEW at \in {"seed", "compare"}, SyncTo(at), sync.at \in {"groups", "seed"}
      PROVE  SyncTyped'
  BY <1>0, <1>1 DEF SyncTo, ScriptTyped, SyncTyped
<1>2. CASE SyncConfigDB
  <2>1. CASE /\ SetAllGroups(LocalGroups) /\ SyncTo("seed") /\ Fine
             /\ UNCHANGED <<renderVars, configVars, vouched, req, cli>>
    <3>1. GroupsTypeOK'
      BY <2>1, SyncAssumption DEF SetAllGroups, GroupsTypeOK
    <3>2. RenderTypeOK' /\ ConfigTypeOK'
      BY <2>1, UntouchedTyped DEF World
    <3> QED
      BY <1>1, <1>2, <2>1, <3>1, <3>2, TroubleTyped DEF World, SyncConfigDB, SyncAt
  <2>2. CASE SyncExits(2) /\ Fine /\ SyncOnlyReads
    BY <1>0, <2>2, SyncExitsTyped, ReadsTyped DEF SyncOnlyReads
  <2>3. CASE SyncFails("database", 2)
    BY <1>0, <2>3, SyncFailsTyped
  <2> QED
    BY <1>2, <2>1, <2>2, <2>3 DEF SyncConfigDB
<1>3. CASE SeedSlotZero
  <2>1. sync.provider \in Providers /\ sync.at = "seed"
    BY <1>0, <1>3 DEF SeedSlotZero, ScriptTyped, SyncAt
  <2>2. CASE /\ IF slot_config[<<sync.provider, 0>>] = NoRow
                THEN SetSlotConfig(<<sync.provider, 0>>, LocalRow[sync.provider])
                ELSE UNCHANGED configVars
             /\ SyncTo("compare") /\ Fine /\ OnlyConfig
    <3>1. LocalRow[sync.provider] \in SlotRow
      BY <2>1, SyncAssumption
    <3>2. ConfigTypeOK'
      BY <2>2, <3>1, SetSlotTyped, UntouchedTyped DEF World, OnlyConfig
    <3> QED
      BY <1>1, <2>1, <2>2, <3>2, ConfigWritesTyped
  <2>3. CASE SyncFails("database", 2)
    BY <1>0, <2>3, SyncFailsTyped
  <2> QED
    BY <1>3, <2>2, <2>3 DEF SeedSlotZero
<1>4. CASE PushNext
  <2>1. sync.todo \in Seq(Keys) /\ sync.todo # <<>>
    BY <1>0, <1>4 DEF PushNext, ScriptTyped, SyncAt
  <2>2. Head(sync.todo) \in Keys /\ Tail(sync.todo) \in Seq(Keys)
    <3> HIDE DEF Keys
    <3> QED
      BY <2>1
  <2> DEFINE s == [sync EXCEPT !.todo = Tail(@), !.pushed = @ \cup {Head(sync.todo)},
                               !.at = IF Tail(sync.todo) = <<>> THEN "wait" ELSE @]
  <2>3. CASE /\ PushEnvVar(Head(sync.todo), Local[Head(sync.todo)])
             /\ sync' = s /\ Fine /\ OnlyRender
    <3>1. Local[Head(sync.todo)] \in Creds \cup {NoCred}
      BY <2>2, CommandAssumption DEF Env
    <3>2. World'
      BY <2>3, <3>1, PushTyped, RenderWritesTyped DEF World
    <3>3. ScriptTyped(s)
      BY <1>0, <1>4, <2>2 DEF ScriptTyped, PushNext, SyncAt
    <3> HIDE DEF s
    <3> QED
      BY <2>3, <3>2, <3>3 DEF SyncTyped
  <2>4. CASE SyncFails("render", IF sync.pushed = {} THEN 2 ELSE 1)
    BY <1>0, <2>4, SyncFailsTyped
  <2> QED
    BY <1>4, <2>3, <2>4 DEF PushNext
<1> QED
  BY <1>2, <1>3, <1>4

(* --sync-env: the wait, the trigger, the poll, and being cut off. *)
LEMMA SyncEndsTyped ==
    ASSUME World, SyncTyped, WaitForInFlight \/ TriggerAndPoll \/ PollDeploy \/ SyncCut
    PROVE  World' /\ SyncTyped'
<1>1. CASE WaitForInFlight
  <2>1. ScriptTyped(sync)
    BY <1>1, SyncRunning DEF WaitForInFlight, SyncAt
  <2>2. SyncTo("trigger") => SyncTyped'
    BY <2>1 DEF SyncTo, SyncTyped, ScriptTyped
  <2> QED
    BY <1>1, <2>1, <2>2, SyncFailsTyped, ReadsTyped DEF WaitForInFlight, SyncOnlyReads
<1>2. CASE TriggerAndPoll
  <2>1. ScriptTyped(sync)
    BY <1>2, SyncRunning DEF TriggerAndPoll, SyncAt
  <2>2. CASE /\ TriggerDeploy /\ Fine /\ OnlyRender
             /\ sync' = [sync EXCEPT !.at = "poll", !.id = deploys']
    <3>1. World'
      BY <2>2, DeployTyped, RenderWritesTyped DEF World
    <3> QED
      BY <2>1, <2>2, <3>1 DEF SyncTyped, ScriptTyped
  <2> QED
    BY <1>2, <2>1, <2>2, SyncFailsTyped DEF TriggerAndPoll
<1>3. CASE PollDeploy
  <2>1. ScriptTyped(sync)
    BY <1>3, SyncRunning DEF PollDeploy, SyncAt
  <2> QED
    BY <1>3, <2>1, SyncFailsTyped, SyncExitsTyped, ReadsTyped DEF PollDeploy, SyncOnlyReads
<1>4. CASE SyncCut
  <2>1. ScriptTyped(sync)
    BY <1>4, SyncRunning DEF SyncCut, SyncBusy
  <2> QED
    BY <1>4, <2>1, SyncExitsTyped, ReadsTyped DEF SyncCut, SyncOnlyReads
<1> QED
  BY <1>1, <1>2, <1>3, <1>4

(* Every step of --sync-env. *)
LEMMA ScriptStepsTyped ==
    ASSUME World, SyncTyped, SyncEnv \/ Sync
    PROVE  World' /\ SyncTyped'
BY SyncBeginsTyped, SyncWritesTyped, SyncEndsTyped DEF Sync

-----------------------------------------------------------------------------
(* The platform, and the whole. *)

(* Filling the columns that are NULL gives groups. *)
LEMMA BackfilledTyped == GroupsTypeOK => Backfilled \in [Groups -> Group]
<1> SUFFICES ASSUME GroupsTypeOK, NEW g \in Groups, NEW c \in Columns
             PROVE  (IF stored[g][c] = Null THEN Default(g)[c] ELSE stored[g][c]) \in Value
  BY DEF Backfilled, Group
<1>1. stored[g][c] \in Value
  BY DEF GroupsTypeOK, Group
<1>2. Default(g)[c] \in Value
  BY GroupsAssumption DEF Default, Value
<1> QED
  BY <1>1, <1>2

(* The platform and the processes it starts and stops. *)
LEMMA PlatformTyped ==
    ASSUME Typed, Boot \/ Crash \/ NewProcessServes \/ NewProcessFails \/ Resolves
    PROVE  World' /\ RequestsTyped' /\ CLITyped' /\ SyncTyped' /\ up' \in BOOLEAN
<1>1. World /\ up \in BOOLEAN
  BY DEF Typed, OpsTypeOK, World
<1>2. Backfilled \in [Groups -> Group]
  BY <1>1, BackfilledTyped DEF World
<1>3. UNCHANGED <<configVars, vouched, cli, sync>>
  BY DEF Boot, Crash, NewProcessServes, NewProcessFails, Resolves, Platform
<1>4. ConfigTypeOK'
  BY <1>1, <1>3, UntouchedTyped DEF World
<1>5. CLITyped' /\ SyncTyped'
  BY <1>3 DEF Typed, CLITyped, SyncTyped, CommandTyped, ScriptTyped, NotRunning, SyncNever, Rests
<1>6. RenderTypeOK'
  BY <1>1, DeployTyped, UntouchedTyped
     DEF World, Boot, Crash, NewProcessServes, NewProcessFails, Resolves
<1>7. GroupsTypeOK'
  BY <1>1, <1>2 DEF World, GroupsTypeOK, Boot, Crash, NewProcessServes, NewProcessFails, Resolves
<1>8. troubles' \in 0 .. MaxTroubles
  BY <1>1, TroubleTyped DEF World, Boot, Crash, NewProcessServes, NewProcessFails, Resolves
<1>9. UNCHANGED req \/ req' = [r \in Requests |-> Idle]
  BY DEF Boot, Crash, NewProcessServes, NewProcessFails, Resolves
<1>10. RequestsTyped'
  BY <1>9 DEF Typed, RequestsTyped
<1>11. up' \in BOOLEAN
  BY <1>1 DEF Boot, Crash, NewProcessServes, NewProcessFails, Resolves, GatesPass, BootGate,
     GroupUsable, Capped, Bounded
<1> QED
  BY <1>4, <1>5, <1>6, <1>7, <1>8, <1>10, <1>11 DEF World

(* The writers counted as torn or overlapping. *)
LEMMA HistoryTyped ==
    ASSUME torn \in BOOLEAN, foreign \subseteq Keys, History
    PROVE  torn' \in BOOLEAN /\ foreign' \subseteq Keys
BY DEF History

(* The state the bot starts from is typed. *)
LEMMA InitTyped == OpsInit => Typed
<1> SUFFICES ASSUME OpsInit PROVE Typed
  OBVIOUS
<1>1. PICK start \in Starts :
        /\ env = start.env /\ provider = start.provider /\ key_index = start.key_index
        /\ slot_config = start.slot_config /\ stored = start.stored
  BY DEF OpsInit
<1>2. RenderTypeOK /\ GroupsTypeOK
  BY <1>1, OpsAssumption DEF OpsInit, RenderInit, RenderTypeOK, GroupsTypeOK, Deploy
<1>3. ConfigTypeOK
  <2>1. /\ provider \in Providers \cup {NoProvider}
        /\ key_index \in [Providers -> Slots \cup {NoIndex}]
        /\ slot_config \in [Keys -> SlotRow \cup {NoRow}]
    BY <1>1, OpsAssumption
  <2>2. BootGate => ArmedSlot \in Keys /\ ArmedRow \in SlotRow
    <3> SUFFICES ASSUME BootGate PROVE ArmedSlot \in Keys /\ ArmedRow \in SlotRow
      OBVIOUS
    <3>1. 0 \in Slots
      BY RenderAssumption DEF Slots
    <3>2. ArmedSlot \in Keys
      BY <2>1, <3>1 DEF BootGate, ArmedSlot, Keys, IndexOrZero
    <3> QED
      BY <2>1, <3>2 DEF BootGate, ArmedRow
  <2>3. vouched = IF BootGate THEN {<<ArmedSlot, ArmedRow>>} ELSE {}
    BY DEF OpsInit
  <2> QED
    BY <2>1, <2>2, <2>3 DEF ConfigTypeOK
<1>4. RequestsTyped /\ CLITyped /\ SyncTyped
  BY DEF OpsInit, TabInit, RequestsTyped, CLITyped, SyncTyped
<1>5. troubles \in 0 .. MaxTroubles /\ ops \in 0 .. MaxOps
  BY TabAssumption, OpsAssumption DEF OpsInit, TabInit
<1> QED
  BY <1>2, <1>3, <1>4, <1>5 DEF OpsInit, Typed, OpsTypeOK

(* Every step keeps it typed. *)
LEMMA NextTyped == Typed /\ [OpsNext]_opsVars => Typed'
<1> SUFFICES ASSUME Typed, [OpsNext]_opsVars PROVE Typed'
  OBVIOUS
<1>1. World /\ RequestsTyped /\ CLITyped /\ SyncTyped
      /\ ops \in 0 .. MaxOps /\ up \in BOOLEAN /\ torn \in BOOLEAN /\ foreign \subseteq Keys
  BY DEF Typed, OpsTypeOK, World
<1>2. CASE OpsNext
  <2>1. History /\ ops' \in 0 .. MaxOps
    <3>1. Starting \/ Going
      BY <1>2 DEF OpsNext, DashboardArrives, DashboardHandles, CommandStarts, CommandRuns,
         SyncStarts, SyncRuns, Boot, Crash, NewProcessServes, NewProcessFails, Resolves
    <3> QED
      BY <1>1, <3>1, OpsAssumption DEF Starting, Going
  <2>2. World' /\ RequestsTyped' /\ CLITyped' /\ SyncTyped' /\ up' \in BOOLEAN
    <3>1. CASE DashboardArrives \/ DashboardHandles
      <4>1. World' /\ RequestsTyped'
        BY <1>1, <3>1, ArrivalsTyped, HandlingTyped DEF DashboardArrives, DashboardHandles
      <4>2. UNCHANGED <<cli, sync, up>>
        BY <3>1 DEF DashboardArrives, DashboardHandles, Tab
      <4> QED
        BY <1>1, <4>1, <4>2 DEF CLITyped, SyncTyped, CommandTyped, ScriptTyped, NotRunning,
           SyncNever, Rests
    <3>2. CASE CommandStarts \/ CommandRuns
      <4>1. World' /\ CLITyped'
        BY <1>1, <3>2, CommandsTyped, OverrideTyped DEF CommandStarts, CommandRuns
      <4>2. UNCHANGED <<req, sync, up>>
        BY <3>2 DEF CommandStarts, CommandRuns, CLI, Command, SetOverride, ResolveIndex,
           ProbeModel, VerifySlot, ProbeArmed, WriteIndex, ReadRow, WriteModel, Activate,
           ClearProvider, CommandDies, Probes
      <4> QED
        BY <1>1, <4>1, <4>2 DEF RequestsTyped, SyncTyped, ScriptTyped, SyncNever
    <3>3. CASE SyncStarts \/ SyncRuns
      <4>1. World' /\ SyncTyped'
        BY <1>1, <3>3, ScriptStepsTyped DEF SyncStarts, SyncRuns
      <4>2. UNCHANGED <<req, cli, up>>
        BY <3>3 DEF SyncStarts, SyncRuns, Script, SyncEnv, Sync, ResolveProvider, SyncConfigDB,
           SeedSlotZero, CompareEnv, PushNext, WaitForInFlight, TriggerAndPoll, PollDeploy,
           SyncCut, SyncFails, SyncOnlyReads
      <4> QED
        BY <1>1, <4>1, <4>2 DEF RequestsTyped, CLITyped, CommandTyped, NotRunning, Rests
    <3>4. CASE Boot \/ Crash \/ NewProcessServes \/ NewProcessFails \/ Resolves
      BY <3>4, PlatformTyped
    <3> QED
      BY <1>2, <3>1, <3>2, <3>3, <3>4 DEF OpsNext
  <2>3. torn' \in BOOLEAN /\ foreign' \subseteq Keys
    BY <1>1, <2>1, HistoryTyped
  <2> QED
    BY <2>1, <2>2, <2>3 DEF Typed, OpsTypeOK, World
<1>3. CASE UNCHANGED opsVars
  <2>1. World'
    BY <1>1, <1>3, UntouchedTyped DEF opsVars, World, GroupsTypeOK
  <2>2. RequestsTyped' /\ CLITyped' /\ SyncTyped'
    BY <1>1, <1>3 DEF opsVars, RequestsTyped, CLITyped, SyncTyped, CommandTyped, ScriptTyped,
       NotRunning, SyncNever, Rests
  <2> QED
    BY <1>1, <1>3, <2>1, <2>2 DEF opsVars, Typed, OpsTypeOK, World
<1> QED
  BY <1>2, <1>3

(* Every request, command and script of the operating model is, at every
   point, where its code can be, and holds the data that point needs: a
   handler that writes has something left to write, a command that reaches
   its writes has resolved its index, a script that pushes has read what to
   push. *)
THEOREM OperationsTyped == OpsSpec => []OpsTypeOK
<1>1. OpsSpec => []Typed
  BY InitTyped, NextTyped, PTL DEF OpsSpec
<1> QED
  BY <1>1, PTL DEF Typed

-----------------------------------------------------------------------------
(* --sync-env reports a live deploy only when the values it left on Render are
   the ones that serve. *)

(* What other actors do to the service. *)
RenderStep ==
    \/ UNCHANGED <<serving, deploy, deploys>>
    \/ UNCHANGED env /\ (TriggerDeploy \/ DeployResolves \/ DeployGoesLive \/ DeployFails)

(* Any other actor leaves the deploys alone, or moves one on and leaves the variables. *)
LEMMA OthersRender ==
    /\ DashboardArrives \/ DashboardHandles \/ CommandStarts \/ CommandRuns => RenderStep
    /\ Boot \/ Crash \/ NewProcessServes \/ NewProcessFails \/ Resolves => RenderStep
<1>1. DashboardArrives => RenderStep
  BY DEF DashboardArrives, Arrivals, ConfigPatch, SlotPatch, Apply, DeleteKey, RenderPatch, Arrives,
     OnlyReads, renderVars, RenderStep
<1>2. DashboardHandles => RenderStep
  <2> SUFFICES ASSUME NEW r \in Requests, Handling(r) PROVE RenderStep
    BY DEF DashboardHandles
  <2>1. CASE ApplyConfigPatch(r)
    BY <2>1 DEF ApplyConfigPatch, ReadStoredIndexes, ReadCurrentProvider, ProbeTarget,
       ApplyProvider, ApplyKeyIndex, ReadGroup, StoreGroup, TaskFails, OnlyReads, OnlyConfig,
       renderVars, RenderStep
  <2>2. CASE ApplySlotPatch(r) \/ ApplyCredential(r)
    BY <2>2 DEF ApplySlotPatch, ApplyCredential, MergeAndProbe, WriteSlotRow, PushCredential,
       SaveApplied, PushEnvVar, OnlyReads, OnlyConfig, renderVars, RenderStep
  <2>3. CASE CascadeDelete(r)
    BY <2>3 DEF CascadeDelete, ReadIndexes, ReadProvider, CheckDependents, DeleteVariable,
       ClearDependent, DeleteEnvVar, PushEnvVar, OnlyReads, OnlyConfig, renderVars, RenderStep
  <2>4. CASE ApplyRenderPatch(r)
    BY <2>4 DEF ApplyRenderPatch, ReadOverrides, CheckSpare, DeleteSpare, SetVariable, SetsDone,
       DeleteEnvVar, PushEnvVar, OnlyReads, renderVars, RenderStep
  <2>5. CASE HandlerDeploys(r) \/ ReadFails(r) \/ HandlerCut(r)
    BY <2>5 DEF HandlerDeploys, ReadFails, HandlerCut, TriggerDeploy, OnlyReads, renderVars,
       RenderStep
  <2> QED
    BY <2>1, <2>2, <2>3, <2>4, <2>5 DEF Handling
<1>3. CommandStarts \/ CommandRuns => RenderStep
  BY DEF CommandStarts, CommandRuns, Command, SetOverride, ResolveIndex, ProbeModel, VerifySlot,
     ProbeArmed, WriteIndex, ReadRow, WriteModel, Activate, ClearProvider, CommandDies, Probes,
     OnlyReads, OnlyConfig, renderVars, RenderStep
<1>4. Boot \/ Crash \/ NewProcessServes \/ NewProcessFails \/ Resolves => RenderStep
  BY DEF Boot, Crash, NewProcessServes, NewProcessFails, Resolves, DeployResolves,
     DeployGoesLive, DeployFails, renderVars, RenderStep
<1> QED
  BY <1>1, <1>2, <1>3, <1>4

(* Whatever happens beside --sync-env keeps what --sync-env knows. *)
LEMMA OthersServe ==
    ASSUME Typed, SyncServes, RenderStep, UNCHANGED sync, History
    PROVE  SyncServes'
<1>1. sync.at # "idle" => ScriptTyped(sync)
  BY SyncRunning DEF Typed
<1>2. foreign' = foreign \cup {k \in Keys : env'[k] # env[k]}
  BY DEF History
<1>3. deploys \in Nat
  BY DEF Typed, OpsTypeOK, RenderTypeOK
<1>4. sync.at # "idle" => sync.wanted \subseteq Keys
  BY <1>1 DEF ScriptTyped
<1>5. sync.at # "idle" => /\ Agrees(env) => Agrees(env)'
                          /\ Agrees(deploy.env) /\ UNCHANGED deploy => Agrees(deploy.env)'
                          /\ Agrees(serving) /\ UNCHANGED serving => Agrees(serving)'
  BY <1>2, <1>4 DEF Agrees
<1>6. sync.at = "push" => \A k \in sync.wanted \ foreign' : env'[k] = Local[k] \/ k \in LeftToPush
  BY <1>2, <1>4 DEF SyncServes
<1>7. CASE UNCHANGED <<serving, deploy, deploys>>
  BY <1>5, <1>6, <1>7 DEF SyncServes, LeftToPush
<1>8. CASE UNCHANGED env /\ TriggerDeploy
  <2>1. deploys' = deploys + 1 /\ UNCHANGED serving /\ deploy' = [status |-> "created", env |-> env]
    BY <1>8 DEF TriggerDeploy
  <2>2. sync.at # "idle" => sync.id \in 0 .. deploys' /\ sync.id # deploys'
    BY <1>3, <2>1 DEF SyncServes
  <2>3. sync.at # "idle" /\ Agrees(env) => Agrees(deploy.env)'
    BY <1>5, <1>8, <2>1 DEF Agrees
  <2> QED
    BY <1>5, <1>6, <2>1, <2>2, <2>3 DEF SyncServes, LeftToPush
<1>9. CASE UNCHANGED env /\ DeployResolves
  <2>1. UNCHANGED <<deploys, serving>> /\ deploy' = [status |-> "building", env |-> env]
    BY <1>9 DEF DeployResolves
  <2>2. sync.at # "idle" /\ Agrees(env) => Agrees(deploy.env)'
    BY <1>5, <1>9, <2>1 DEF Agrees
  <2> QED
    BY <1>5, <1>6, <2>1, <2>2 DEF SyncServes, LeftToPush
<1>10. CASE UNCHANGED env /\ DeployGoesLive
  <2>1. /\ UNCHANGED deploys /\ serving' = deploy.env /\ deploy'.env = deploy.env
        /\ deploy'.status = "live"
    BY <1>10 DEF DeployGoesLive, Typed, OpsTypeOK, RenderTypeOK, Deploy
  <2>2. sync.at # "idle" /\ Agrees(deploy.env) => Agrees(deploy.env)' /\ Agrees(serving)'
    BY <1>2, <2>1 DEF Agrees
  <2> QED
    BY <1>5, <1>6, <2>1, <2>2 DEF SyncServes, LeftToPush
<1>11. CASE UNCHANGED env /\ DeployFails
  <2>1. /\ UNCHANGED <<deploys, serving>> /\ deploy'.env = deploy.env
        /\ deploy'.status = "failed"
    BY <1>11 DEF DeployFails, Typed, OpsTypeOK, RenderTypeOK, Deploy
  <2>2. sync.at # "idle" /\ Agrees(deploy.env) => Agrees(deploy.env)'
    BY <1>2, <2>1 DEF Agrees
  <2> QED
    BY <1>5, <1>6, <2>1, <2>2 DEF SyncServes, LeftToPush
<1> QED
  BY <1>7, <1>8, <1>9, <1>10, <1>11 DEF RenderStep

(* The script's own steps. *)
LEMMA ExitsServe ==
    ASSUME Typed, SyncServes, ScriptTyped(sync), NEW code, SyncExits(code),
           UNCHANGED renderVars,
           code # 0 \/ sync.id = 0 \/ (Agrees(env) /\ Agrees(deploy.env) /\ Agrees(serving)),
           History, sync.at # "idle"
    PROVE  SyncServes'
<1>1. sync' = [sync EXCEPT !.at = "done", !.code = code]
  BY DEF SyncExits
<1>2. foreign \subseteq foreign'
  BY <1>1 DEF History, ScriptTyped
<1>3. /\ sync'.at = "done" /\ sync'.code = code /\ sync'.id = sync.id
      /\ sync'.wanted = sync.wanted
  BY <1>1 DEF ScriptTyped
<1>4. UNCHANGED <<env, serving, deploy, deploys>>
  BY DEF renderVars
<1>5. /\ Agrees(env) => Agrees(env)'
      /\ Agrees(deploy.env) => Agrees(deploy.env)'
      /\ Agrees(serving) => Agrees(serving)'
  BY <1>2, <1>3, <1>4 DEF Agrees
<1>6. sync.id \in 0 .. deploys
  BY DEF SyncServes
<1>7. code = 0 /\ sync.id # 0 => Agrees(env)' /\ Agrees(deploy.env)' /\ Agrees(serving)'
  BY <1>5
<1>8. deploy.status = "live" => serving = deploy.env
  BY DEF SyncServes
<1> QED
  BY <1>3, <1>4, <1>6, <1>7, <1>8 DEF SyncServes

(* A --sync-env that fails does not report live. *)
LEMMA FailsServe ==
    ASSUME Typed, SyncServes, ScriptTyped(sync), sync.at # "idle", History,
           NEW kind, NEW code \in {1, 2}, SyncFails(kind, code)
    PROVE  SyncServes'
BY ExitsServe DEF SyncFails, SyncOnlyReads, OnlyReads

(* Up to the comparison nothing is promised of the platform. *)
LEMMA SyncBegins ==
    ASSUME Typed, SyncServes, History, SyncEnv \/ ResolveProvider \/ SyncConfigDB \/ SeedSlotZero
    PROVE  SyncServes'
<1>1. CASE SyncEnv
  <2>1. /\ sync'.at = "provider" /\ sync'.code = 0 /\ sync'.wanted = {} /\ sync'.id = 0
        /\ UNCHANGED <<env, serving, deploy, deploys>>
    BY <1>1 DEF SyncEnv, SyncOnlyReads, OnlyReads, renderVars
  <2>2. deploys \in Nat
    BY DEF Typed, OpsTypeOK, RenderTypeOK
  <2> QED
    BY <2>1, <2>2 DEF SyncServes
<1>2. CASE ResolveProvider \/ SyncConfigDB \/ SeedSlotZero
  <2> DEFINE Fails == \E kind : SyncFails(kind, 2)
             Ends == SyncExits(2) /\ SyncOnlyReads
             Goes == /\ sync'.at \in {"groups", "seed", "compare"} /\ sync'.code = sync.code
                     /\ sync'.id = sync.id /\ UNCHANGED renderVars
  <2>1. sync.at \in {"provider", "groups", "seed"} /\ ScriptTyped(sync)
    BY <1>2, SyncRunning DEF Typed, ResolveProvider, SyncConfigDB, SeedSlotZero, SyncAt
  <2>2. CASE Fails
    BY <2>1, <2>2, FailsServe
  <2>3. CASE Ends
    BY <2>1, <2>3, ExitsServe DEF SyncOnlyReads, OnlyReads
  <2>4. CASE Goes
    BY <2>1, <2>4 DEF SyncServes, renderVars
  <2>5. ResolveProvider => Fails \/ Ends \/ Goes
    BY <2>1 DEF ResolveProvider, SyncOnlyReads, OnlyReads, ScriptTyped
  <2>6. SyncConfigDB => Fails \/ Ends \/ Goes
    BY <2>1 DEF SyncConfigDB, SyncTo, ScriptTyped
  <2>7. SeedSlotZero => Fails \/ Ends \/ Goes
    BY <2>1 DEF SeedSlotZero, SyncTo, OnlyConfig, ScriptTyped
  <2> QED
    BY <1>2, <2>2, <2>3, <2>4, <2>5, <2>6, <2>7
<1> QED
  BY <1>1, <1>2

(* After the comparison, what differs is what is left to push. *)
LEMMA CompareServes ==
    ASSUME Typed, SyncServes, History, CompareEnv
    PROVE  SyncServes'
<1> DEFINE changed == {k \in sync.wanted : env[k] # Local[k]}
<1>1. sync.at = "compare" /\ ScriptTyped(sync) /\ sync.id = 0 /\ sync.code = 0
  BY SyncRunning DEF Typed, CompareEnv, SyncAt, SyncServes
<1>2. CASE SyncFails("render", 2)
  BY <1>1, <1>2, FailsServe
<1>3. CASE SyncExits(0) /\ SyncOnlyReads
  BY <1>1, <1>3, ExitsServe DEF SyncOnlyReads, OnlyReads
<1>4. CASE /\ sync' = [sync EXCEPT !.at = "push", !.todo = SetToSeq(changed)]
           /\ SyncOnlyReads
  <2>1. changed \subseteq Keys /\ IsFiniteSet(changed)
    BY <1>1, KeysAreFinite, FS_Subset DEF ScriptTyped
  <2>2. \A k \in changed : \E i \in 1 .. Len(SetToSeq(changed)) : SetToSeq(changed)[i] = k
    BY <2>1, SetToSeqLists
  <2>3. DOMAIN SetToSeq(changed) = 1 .. Len(SetToSeq(changed))
    BY <2>1, SetToSeqLists
  <2>4. /\ sync'.at = "push" /\ sync'.code = 0 /\ sync'.id = 0 /\ sync'.wanted = sync.wanted
        /\ sync'.todo = SetToSeq(changed)
    BY <1>1, <1>4 DEF ScriptTyped
  <2>5. UNCHANGED <<env, serving, deploy, deploys>>
    BY <1>4 DEF SyncOnlyReads, OnlyReads, renderVars
  <2>6. \A k \in sync.wanted : env[k] = Local[k] \/ k \in changed
    OBVIOUS
  <2> HIDE DEF changed
  <2>7. changed \subseteq LeftToPush'
    BY <2>2, <2>3, <2>4 DEF LeftToPush
  <2>8. \A k \in sync'.wanted \ foreign' : env'[k] = Local[k] \/ k \in LeftToPush'
    BY <2>4, <2>5, <2>6, <2>7
  <2>9. sync.id \in 0 .. deploys
    BY <1>1 DEF SyncServes
  <2>10. deploy.status = "live" => serving = deploy.env
    BY DEF SyncServes
  <2> QED
    BY <1>1, <2>4, <2>5, <2>8, <2>9, <2>10 DEF SyncServes
<1> QED
  BY <1>2, <1>3, <1>4 DEF CompareEnv

(* A push leaves what differs among what is left. *)
LEMMA PushServes ==
    ASSUME Typed, SyncServes, History, PushNext
    PROVE  SyncServes'
<1> DEFINE h == Head(sync.todo)
           rest == Tail(sync.todo)
<1>1. sync.at = "push" /\ ScriptTyped(sync) /\ sync.id = 0 /\ sync.code = 0
  BY SyncRunning DEF Typed, PushNext, SyncAt, SyncServes
<1>2. CASE \E code \in {1, 2} : SyncFails("render", code)
  BY <1>1, <1>2, FailsServe
<1>3. CASE /\ PushEnvVar(h, Local[h])
           /\ sync' = [sync EXCEPT !.todo = rest, !.pushed = @ \cup {h},
                                   !.at = IF rest = <<>> THEN "wait" ELSE @]
  <2>1. sync.todo \in Seq(Keys) /\ sync.todo # <<>>
    BY <1>1 DEF ScriptTyped
  <2>2. h \in Keys /\ LeftToPush \subseteq {h} \cup {rest[i] : i \in DOMAIN rest}
    <3> HIDE DEF Keys
    <3>1. h \in Keys /\ Len(rest) = Len(sync.todo) - 1 /\ rest \in Seq(Keys)
      BY <2>1
    <3>2. ASSUME NEW i \in DOMAIN sync.todo
          PROVE  sync.todo[i] = h \/ \E j \in DOMAIN rest : rest[j] = sync.todo[i]
      <4>1. CASE i = 1
        BY <2>1, <4>1
      <4>2. CASE i # 1
        <5>1. i \in 1 .. Len(sync.todo) /\ i - 1 \in 1 .. Len(rest)
          BY <2>1, <3>1, <4>2
        <5>2. rest[i - 1] = sync.todo[i]
          BY <2>1, <5>1
        <5> QED
          BY <3>1, <5>1, <5>2
      <4> QED
        BY <4>1, <4>2
    <3> QED
      BY <3>1, <3>2 DEF LeftToPush
  <2>3. /\ env \in Env /\ env' = [env EXCEPT ![h] = Local[h]]
        /\ UNCHANGED <<serving, deploy, deploys>>
    BY <1>3 DEF PushEnvVar, Typed, OpsTypeOK, RenderTypeOK
  <2>4. \A k \in Keys : env'[k] = IF k = h THEN Local[h] ELSE env[k]
    BY <2>3 DEF Env
  <2>5. /\ sync'.code = 0 /\ sync'.id = 0 /\ sync'.wanted = sync.wanted /\ sync'.todo = rest
        /\ sync'.at = IF rest = <<>> THEN "wait" ELSE "push"
    BY <1>1, <1>3 DEF ScriptTyped
  <2>6. foreign \subseteq foreign'
    BY <1>1, <2>5 DEF History
  <2> HIDE DEF h, rest
  <2>7. ASSUME NEW k \in sync'.wanted \ foreign'
        PROVE  env'[k] = Local[k] \/ k \in {rest[i] : i \in DOMAIN rest}
    <3>1. k \in Keys /\ (env[k] = Local[k] \/ k \in LeftToPush)
      BY <1>1, <2>5, <2>6, <2>7 DEF SyncServes, ScriptTyped
    <3> QED
      BY <2>2, <2>4, <3>1
  <2>8. CASE rest # <<>>
    <3>1. LeftToPush' = {rest[i] : i \in DOMAIN rest}
      BY <2>5 DEF LeftToPush
    <3> QED
      BY <1>1, <2>3, <2>5, <2>7, <2>8, <3>1 DEF SyncServes
  <2>9. CASE rest = <<>>
    <3>1. {rest[i] : i \in DOMAIN rest} = {}
      BY <2>9
    <3>2. Agrees(env)'
      BY <2>7, <3>1 DEF Agrees
    <3> QED
      BY <1>1, <2>3, <2>5, <2>9, <3>2 DEF SyncServes
  <2> QED
    BY <2>8, <2>9
<1> QED
  BY <1>2, <1>3 DEF PushNext

(* A deploy triggered after the pushes runs with what was wanted. *)
LEMMA DeploysServe ==
    ASSUME Typed, SyncServes, History, WaitForInFlight \/ TriggerAndPoll \/ PollDeploy \/ SyncCut
    PROVE  SyncServes'
<1>1. sync.at \notin {"idle", "done"} /\ ScriptTyped(sync)
  BY SyncRunning DEF Typed, WaitForInFlight, TriggerAndPoll, PollDeploy, SyncCut, SyncAt, SyncBusy
<1>2. CASE \E kind : SyncFails(kind, 1)
  BY <1>1, <1>2, FailsServe
<1>3. CASE SyncCut
  BY <1>1, <1>3, ExitsServe DEF SyncCut, SyncOnlyReads, OnlyReads
<1>4. CASE WaitForInFlight /\ SyncTo("trigger") /\ SyncOnlyReads
  <2>1. /\ sync.at = "wait" /\ sync'.at = "trigger" /\ sync'.code = sync.code
        /\ sync'.id = sync.id /\ sync'.wanted = sync.wanted
    BY <1>1, <1>4 DEF WaitForInFlight, SyncAt, SyncTo, ScriptTyped
  <2>2. foreign \subseteq foreign' /\ UNCHANGED <<env, serving, deploy, deploys>>
    BY <1>4, <2>1 DEF History, SyncOnlyReads, OnlyReads, renderVars
  <2>3. Agrees(env)'
    BY <2>1, <2>2 DEF SyncServes, Agrees
  <2> QED
    BY <2>1, <2>2, <2>3 DEF SyncServes
<1>5. CASE /\ SyncAt("trigger") /\ TriggerDeploy
           /\ sync' = [sync EXCEPT !.at = "poll", !.id = deploys']
  <2>1. /\ sync.at = "trigger" /\ sync'.at = "poll" /\ sync'.code = sync.code
        /\ sync'.id = deploys' /\ sync'.wanted = sync.wanted
    BY <1>1, <1>5 DEF SyncAt, ScriptTyped
  <2>2. /\ foreign \subseteq foreign' /\ UNCHANGED <<env, serving>> /\ deploys' = deploys + 1
        /\ deploy' = [status |-> "created", env |-> env]
    BY <1>5, <2>1 DEF History, TriggerDeploy
  <2>3. deploys \in Nat
    BY DEF Typed, OpsTypeOK, RenderTypeOK
  <2>4. Agrees(env)' /\ Agrees(deploy.env)'
    BY <2>1, <2>2 DEF SyncServes, Agrees
  <2> QED
    BY <2>1, <2>2, <2>3, <2>4 DEF SyncServes
<1>6. CASE /\ SyncAt("poll") /\ SyncExits(IF StatusOf(sync.id) = "live" THEN 0 ELSE 1)
           /\ SyncOnlyReads
  <2>1. StatusOf(sync.id) = "live" => sync.id = deploys /\ deploy.status = "live"
    BY DEF StatusOf
  <2>2. StatusOf(sync.id) = "live" => Agrees(env) /\ Agrees(deploy.env) /\ Agrees(serving)
    BY <1>6, <2>1 DEF SyncServes, SyncAt
  <2> QED
    BY <1>1, <1>6, <2>2, ExitsServe DEF SyncOnlyReads, OnlyReads
<1> QED
  BY <1>2, <1>3, <1>4, <1>5, <1>6 DEF WaitForInFlight, TriggerAndPoll, PollDeploy

(* At the start --sync-env has promised nothing. *)
LEMMA InitServes == OpsInit => SyncServes
BY DEF OpsInit, SyncNever, RenderInit, SyncServes

(* Every step keeps what --sync-env knows. *)
LEMMA NextServes == Typed /\ SyncServes /\ [OpsNext]_opsVars => SyncServes'
<1> SUFFICES ASSUME Typed, SyncServes, [OpsNext]_opsVars PROVE SyncServes'
  OBVIOUS
<1>1. CASE DashboardArrives \/ DashboardHandles \/ CommandStarts \/ CommandRuns
  BY <1>1, OthersRender, OthersServe DEF DashboardArrives, DashboardHandles, CommandStarts,
     CommandRuns, Tab, CLI, Starting, Going
<1>2. CASE Boot \/ Crash \/ NewProcessServes \/ NewProcessFails \/ Resolves
  BY <1>2, OthersRender, OthersServe DEF Boot, Crash, NewProcessServes, NewProcessFails, Resolves,
     Platform, Going
<1>3. CASE SyncStarts
  BY <1>3, SyncBegins DEF SyncStarts, Starting
<1>4. CASE SyncRuns
  BY <1>4, SyncBegins, CompareServes, PushServes, DeploysServe DEF SyncRuns, Going, Sync
<1>5. CASE UNCHANGED opsVars
  BY <1>5 DEF opsVars, renderVars, SyncServes, Agrees, LeftToPush
<1> QED
  BY <1>1, <1>2, <1>3, <1>4, <1>5 DEF OpsNext

(* When --sync-env reports its deploy live, the service runs with the local
   value of every variable it was to push, except those that somebody else
   has written since it compared, whatever other deploys are in flight, fail
   or supersede its own. *)
THEOREM ReportedLiveIsServed == OpsSpec => []ReportedLiveServes
<1>1. OpsSpec => [](Typed /\ SyncServes)
  BY InitTyped, NextTyped, InitServes, NextServes, PTL DEF OpsSpec
<1>2. Typed /\ SyncServes => ReportedLiveServes
  BY SyncRunning DEF Typed, SyncServes, ReportedLiveServes, Agrees
<1> QED
  BY <1>1, <1>2, PTL
=============================================================================
