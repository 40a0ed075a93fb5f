---------------------------- MODULE ArmingProofs ----------------------------
(***************************************************************************)
(* What reviews run with was probed: for any providers, slots, requests,    *)
(* bodies, mishaps and deploys, the slot that is armed holds a row that a   *)
(* probe of that very slot accepted, whoever armed or edited it.            *)
(***************************************************************************)
EXTENDS OperationsProofs

-----------------------------------------------------------------------------
(* The inductive invariant. *)

Vouched(slot) == <<slot, slot_config[slot]>> \in vouched
Armed == provider # NoProvider => Vouched(ArmedSlot)

(* PATCH /config while it probes: what it would arm was probed, or is about to
   be; the fields that arm one slot share its verdict. *)
WouldArm(f) == ArmingTargets(f, key_index, provider)
ProbedSoFar(f, targets, refused) ==
    /\ targets \subseteq WouldArm(f)
    /\ \A t \in WouldArm(f) \ targets : t[1] \in refused \/ Vouched(t[2])
    /\ \A t, u \in WouldArm(f) : t[2] = u[2] =>
          /\ t \in targets => u \in targets
          /\ t[1] \in refused => u[1] \in refused
    /\ refused \subseteq {t[1] : t \in WouldArm(f) \ targets}

(* PATCH /config while it writes: what is armed once the tasks that are left
   are done. *)
Listed(todo) == {todo[i] : i \in DOMAIN todo}
FinalProvider(f, tasks) ==
    IF "provider" \in DOMAIN f /\ <<"provider", f.provider>> \in tasks THEN f.provider
    ELSE provider
FinalIndex(f, tasks, p) == IF <<"index", p>> \in tasks THEN f.index[p] ELSE key_index[p]
FinalSlot(f, tasks) ==
    <<FinalProvider(f, tasks), IndexOrZero(FinalIndex(f, tasks, FinalProvider(f, tasks)))>>
Writing(f, tasks) == FinalProvider(f, tasks) # NoProvider => Vouched(FinalSlot(f, tasks))

AtTasks(q) == q.body.kind = "config" /\ q.at \in {"tasks", "group"}
ConfigArmed(q) ==
    /\ q.at \in {"provider", "probe"} => q.indexes = key_index
    /\ q.at = "probe" => ProbedSoFar(q.body.fields, q.targets, q.refused)
    /\ q.at \in {"tasks", "group"} => Writing(q.body.fields, Listed(q.todo))
SlotArmed(q) == q.at = "write" => <<q.body.slot, q.row>> \in vouched
ApplyArmed(q) == <<q.body.slot, q.body.row>> \in vouched
DeleteArmed(q) ==
    /\ q.at \in {"provider", "row", "delete"} => q.indexes = key_index
    /\ q.at = "row" => q.current = provider
    /\ q.at \in {"delete", "cascade"} /\ provider # NoProvider => ArmedSlot # q.body.key
    /\ q.at = "delete" /\ Overridden(q.body.key, q.indexes) => q.body.key[1] # provider
    /\ q.at = "cascade" /\ "index" \in Listed(q.todo) => q.body.key[1] # provider
HandlerArmed(q) ==
    /\ q.body.kind = "config" => ConfigArmed(q)
    /\ q.body.kind = "slot" => SlotArmed(q)
    /\ q.body.kind = "apply" => ApplyArmed(q)
    /\ q.body.kind = "delete" => DeleteArmed(q)

(* set_override: the slot it goes for, and what it has made sure of. *)
Target ==
    <<cli.args.provider,
      IndexOrZero(IF cli.args.index = Absent THEN key_index[cli.args.provider]
                  ELSE cli.args.index)>>
NewRow == RowOf(cli.args.model, PlaceOf(slot_config[Target]))
MidWrite == Head(cli.todo) \in {"read row", "write model"}
CommandArmed ==
    /\ cli.index \in {Unread, Target[2]}
    /\ cli.args.model = Absent /\ Head(cli.todo) = "write index" => Vouched(Target)
    /\ Head(cli.todo) = "activate" => Vouched(Target)
    /\ cli.args.model # Absent /\ (MidWrite \/ Head(cli.todo) \in {"verify", "write index"})
          => <<Target, NewRow>> \in vouched
    /\ Head(cli.todo) = "write model" => cli.row = slot_config[Target]
    /\ MidWrite \/ Head(cli.todo) = "activate"
          => IndexOrZero(key_index[cli.args.provider]) = Target[2]

Commanding == Running /\ cli.at = "phases"
Midway == Commanding /\ cli.args.provider = provider /\ MidWrite
Unsettled == MidPatch \/ Midway

Sound ==
    /\ InProgress <= 1
    /\ Unsettled \/ Armed
    /\ \A r \in Requests : Busy(r) => HandlerArmed(req[r])
    /\ Commanding => CommandArmed
ArmedInv == ~torn => Sound

-----------------------------------------------------------------------------
(* While nothing overlaps, who acts is alone. *)

(* How many are going on is a number. *)
LEMMA ProgressCounts ==
    /\ IsFiniteSet(Writers) /\ Cardinality(Writers) \in Nat /\ InProgress \in Nat
    /\ Cardinality(Writers) <= InProgress
<1>1. IsFiniteSet(Writers)
  BY TabAssumption, FS_Subset DEF Writers
<1>2. Cardinality(Writers) \in Nat
  BY <1>1, FS_CardinalityType
<1> QED
  BY <1>1, <1>2 DEF InProgress

(* At most one of the requests, the command and the script is going on. *)
OnlyOne ==
    /\ \A r, s \in Requests : Busy(r) /\ Busy(s) => r = s
    /\ \A r \in Requests : Busy(r) => ~Running /\ ~SyncBusy
    /\ Running => ~SyncBusy

(* Their number being at most one is what that means. *)
LEMMA Alone == InProgress <= 1 => OnlyOne
<1> SUFFICES ASSUME InProgress <= 1 PROVE OnlyOne
  OBVIOUS
<1> DEFINE n == Cardinality(Writers)
<1>1. n \in Nat /\ n <= 1
  BY ProgressCounts
<1>2. ASSUME NEW r \in Requests, NEW s \in Requests, Busy(r), Busy(s), r # s
      PROVE  FALSE
  <2>1. {r, s} \subseteq Writers
    BY <1>2 DEF Writers
  <2>2. IsFiniteSet({r}) /\ Cardinality({r}) = 1
    BY FS_Singleton
  <2>3. Cardinality({r} \cup {s}) = Cardinality({r}) + 1
    <3>1. s \notin {r}
      BY <1>2
    <3> QED
      BY <2>2, <3>1, FS_AddElement
  <2>4. {r} \cup {s} = {r, s}
    OBVIOUS
  <2>5. Cardinality({r, s}) = 2
    BY <2>2, <2>3, <2>4
  <2>6. Cardinality({r, s}) <= n
    BY <2>1, ProgressCounts, FS_Subset
  <2> QED
    BY <1>1, <2>5, <2>6
<1>3. ASSUME NEW r \in Requests, Busy(r)
      PROVE  1 <= n
  <2>1. {r} \subseteq Writers
    BY <1>3 DEF Writers
  <2>2. Cardinality({r}) = 1
    BY FS_Singleton
  <2> QED
    BY <2>1, <2>2, ProgressCounts, FS_Subset
<1>4. \A r \in Requests : Busy(r) => ~Running /\ ~SyncBusy
  BY <1>1, <1>3 DEF InProgress
<1>5. Running => ~SyncBusy
  BY <1>1 DEF InProgress
<1> QED
  BY <1>2, <1>4, <1>5 DEF OnlyOne

(* So it is after a step. *)
LEMMA AloneNext == (InProgress <= 1)' => OnlyOne'
BY Alone, PTL

(* And their number is still a number. *)
LEMMA CountsNext == (InProgress \in Nat)'
<1>1. InProgress \in Nat
  BY ProgressCounts
<1> QED
  BY <1>1, PTL

(* While torn stays false, nothing overlaps and nothing is cut off between its
   writes. *)
LEMMA NotTorn ==
    ASSUME History, ~torn'
    PROVE  /\ ~torn /\ (InProgress <= 1)'
           /\ troubles' = troubles \/ (~MidPatch /\ ~MidModel)
<1>1. ~torn /\ ~Tears
  BY Zenon DEF History
<1>2. (InProgress <= 1)'
  BY <1>1, CountsNext DEF Tears
<1>3. troubles' = troubles \/ (~MidPatch /\ ~MidModel)
  BY <1>1, Zenon DEF Tears
<1> QED
  BY <1>1, <1>2, <1>3

-----------------------------------------------------------------------------
(* Steps that leave what is armed alone. *)

(* The slot that is armed is one of the slots. *)
LEMMA ArmedSlotTyped == Typed /\ provider # NoProvider => ArmedSlot \in Keys
<1>1. 0 \in Slots
  BY RenderAssumption DEF Slots
<1> QED
  BY <1>1 DEF Typed, OpsTypeOK, ConfigTypeOK, ArmedSlot, Keys, IndexOrZero

(* What is armed was probed, as long as neither changes. *)
LEMMA ArmedKept ==
    ASSUME Armed, UNCHANGED configVars, vouched \subseteq vouched'
    PROVE  Armed'
BY DEF Armed, Vouched, ArmedSlot, configVars

(* Writing a row that was probed in its slot. *)
LEMMA VouchedWrite ==
    ASSUME Typed, Armed, NEW slot, NEW row, <<slot, row>> \in vouched,
           SetSlotConfig(slot, row), UNCHANGED vouched
    PROVE  Armed'
<1>1. slot_config \in [Keys -> SlotRow \cup {NoRow}]
  BY DEF Typed, OpsTypeOK, ConfigTypeOK
<1>2. provider # NoProvider => ArmedSlot \in Keys
  BY ArmedSlotTyped
<1>3. ArmedSlot' = ArmedSlot /\ provider' = provider
  BY DEF SetSlotConfig, ArmedSlot
<1>4. provider # NoProvider =>
        slot_config'[ArmedSlot] = IF ArmedSlot = slot THEN row ELSE slot_config[ArmedSlot]
  BY <1>1, <1>2 DEF SetSlotConfig
<1> QED
  BY <1>3, <1>4 DEF Armed, Vouched

-----------------------------------------------------------------------------
(* The tasks of a PATCH, as a set. *)

(* A list put after another holds what both hold. *)
LEMMA ListedConcat ==
    ASSUME NEW T, NEW s \in Seq(T), NEW t \in Seq(T)
    PROVE  Listed(s \o t) = Listed(s) \cup Listed(t)
<1> DEFINE u == s \o t
<1>1. /\ Len(u) = Len(s) + Len(t) /\ Len(s) \in Nat /\ Len(t) \in Nat
      /\ \A i \in 1 .. Len(s) : u[i] = s[i]
      /\ \A i \in 1 .. Len(t) : u[Len(s) + i] = t[i]
      /\ DOMAIN s = 1 .. Len(s) /\ DOMAIN t = 1 .. Len(t) /\ DOMAIN u = 1 .. Len(u)
  OBVIOUS
<1> HIDE DEF u
<1>2. ASSUME NEW i \in DOMAIN u
      PROVE  u[i] \in Listed(s) \cup Listed(t)
  <2>1. CASE i <= Len(s)
    BY <1>1, <2>1 DEF Listed
  <2>2. CASE i > Len(s)
    <3>1. i - Len(s) \in 1 .. Len(t) /\ Len(s) + (i - Len(s)) = i
      BY <1>1, <2>2
    <3>2. u[i] = t[i - Len(s)]
      BY <1>1, <3>1
    <3> QED
      BY <1>1, <3>1, <3>2 DEF Listed
  <2> QED
    BY <1>1, <2>1, <2>2
<1>3. \A i \in DOMAIN s : s[i] \in Listed(u)
  <2> SUFFICES ASSUME NEW i \in DOMAIN s PROVE s[i] \in Listed(u)
    OBVIOUS
  <2>1. i \in DOMAIN u /\ u[i] = s[i]
    BY <1>1
  <2> QED
    BY <2>1 DEF Listed
<1>4. \A i \in DOMAIN t : t[i] \in Listed(u)
  <2> SUFFICES ASSUME NEW i \in DOMAIN t PROVE t[i] \in Listed(u)
    OBVIOUS
  <2>1. Len(s) + i \in DOMAIN u /\ u[Len(s) + i] = t[i]
    BY <1>1
  <2> QED
    BY <2>1 DEF Listed
<1>5. Listed(u) = Listed(s) \cup Listed(t)
  BY <1>2, <1>3, <1>4 DEF Listed
<1> QED
  BY <1>5 DEF u

(* A list of one, and of none. *)
LEMMA ListedOne == Listed(<<>>) = {} /\ \A x : Listed(<<x>>) = {x}
BY DEF Listed

(* The head of a list and its tail. *)
LEMMA ListedTail ==
    ASSUME NEW T, NEW s \in Seq(T), s # <<>>
    PROVE  Head(s) \in Listed(s) /\ Listed(s) = {Head(s)} \cup Listed(Tail(s))
<1> DEFINE t == Tail(s)
<1>1. /\ Len(s) \in Nat \ {0} /\ Len(t) = Len(s) - 1 /\ Head(s) = s[1]
      /\ DOMAIN s = 1 .. Len(s) /\ DOMAIN t = 1 .. Len(t)
      /\ \A i \in 1 .. Len(t) : t[i] = s[i + 1]
  OBVIOUS
<1> HIDE DEF t
<1>2. Head(s) \in Listed(s)
  BY <1>1 DEF Listed
<1>3. \A i \in DOMAIN s : s[i] = Head(s) \/ s[i] \in Listed(t)
  <2> SUFFICES ASSUME NEW i \in DOMAIN s, i # 1 PROVE s[i] \in Listed(t)
    BY <1>1
  <2>1. i - 1 \in DOMAIN t /\ (i - 1) + 1 = i
    BY <1>1
  <2>2. t[i - 1] = s[i]
    BY <1>1, <2>1
  <2> QED
    BY <2>1, <2>2 DEF Listed
<1>4. \A i \in DOMAIN t : t[i] \in Listed(s)
  <2> SUFFICES ASSUME NEW i \in DOMAIN t PROVE t[i] \in Listed(s)
    OBVIOUS
  <2>1. i + 1 \in DOMAIN s /\ s[i + 1] = t[i]
    BY <1>1
  <2> QED
    BY <2>1 DEF Listed
<1>5. Listed(s) = {Head(s)} \cup Listed(t)
  BY <1>2, <1>3, <1>4 DEF Listed
<1> QED
  BY <1>2, <1>5 DEF t

(* A finite set made a list holds what the set holds. *)
LEMMA ListedSet ==
    ASSUME NEW S, IsFiniteSet(S)
    PROVE  Listed(SetToSeq(S)) = S
<1> DEFINE s == SetToSeq(S)
<1>1. s \in Seq(S) /\ \A x \in S : \E i \in 1 .. Len(s) : s[i] = x
  BY SetToSeqLists
<1> HIDE DEF s
<1>2. DOMAIN s = 1 .. Len(s) /\ \A i \in 1 .. Len(s) : s[i] \in S
  BY <1>1
<1>3. Listed(s) = S
  BY <1>1, <1>2 DEF Listed
<1> QED
  BY <1>3 DEF s

(* The tasks of a PATCH are those of its fields that were not refused. *)
LEMMA TasksRange ==
    ASSUME NEW f, NEW refused, ConfigFields(f)
    PROVE  Listed(Tasks(f, refused)) = TasksOf(f) \ refused
<1> DEFINE If(field, task) ==
               IF field \in DOMAIN f /\ task \notin refused THEN <<task>> ELSE <<>>
           All == {<<"index", p>> : p \in DOMAIN IndexField(f)}
           P == <<"provider", IF "provider" \in DOMAIN f THEN f.provider ELSE NoProvider>>
           Provider == If("provider", P)
           Cooldown == If("cooldown", <<"group", "cooldown">>)
           Usage == If("usage", <<"group", "usage">>)
           Tuning == If("tuning", <<"group", "tuning">>)
           Indexes == SetToSeq(All \ refused)
           T == TasksOf(f) \cup {P}
           Group_(g) == (IF g \in DOMAIN f THEN {<<"group", g>>} ELSE {}) \ refused
<1>1. IsFiniteSet(All \ refused)
  <2>1. IsFiniteSet(DOMAIN IndexField(f))
    BY IndexFieldTyped
  <2>2. [p \in DOMAIN IndexField(f) |-> <<"index", p>>] \in Surjection(DOMAIN IndexField(f), All)
    BY DEF Surjection
  <2> QED
    BY <2>1, <2>2, FS_Surjection, FS_Subset
<1>2. Listed(Indexes) = All \ refused /\ Indexes \in Seq(T)
  <2>1. Indexes \in Seq(All \ refused)
    BY <1>1, SetToSeqLists
  <2>2. All \ refused \subseteq T
    BY DEF TasksOf
  <2>3. Indexes \in Seq(T)
    <3> HIDE DEF T, Indexes, All
    <3> QED
      BY <2>1, <2>2
  <2> QED
    BY <1>1, <2>3, ListedSet
<1>3. /\ Provider \in Seq(T)
      /\ Listed(Provider) = (IF "provider" \in DOMAIN f THEN {P} ELSE {}) \ refused
  <2>1. P \in T
    OBVIOUS
  <2> HIDE DEF P, T
  <2> QED
    BY <2>1, ListedOne
<1>4. ASSUME NEW g \in GroupNames
      PROVE  LET s == If(g, <<"group", g>>) IN s \in Seq(T) /\ Listed(s) = Group_(g)
  <2>1. g \in DOMAIN f => <<"group", g>> \in T
    BY DEF TasksOf
  <2> HIDE DEF T
  <2> QED
    BY <2>1, ListedOne
<1>5. /\ Cooldown \in Seq(T) /\ Listed(Cooldown) = Group_("cooldown")
      /\ Usage \in Seq(T) /\ Listed(Usage) = Group_("usage")
      /\ Tuning \in Seq(T) /\ Listed(Tuning) = Group_("tuning")
  BY <1>4 DEF GroupNames
<1> DEFINE Cat(x, y) == x \o y
<1>6. Tasks(f, refused) = Cat(Cat(Cat(Cat(Provider, Cooldown), Usage), Indexes), Tuning)
  BY DEF Tasks
<1>7. TasksOf(f) \ refused
        = (((IF "provider" \in DOMAIN f THEN {P} ELSE {}) \ refused) \cup Group_("cooldown")
            \cup Group_("usage") \cup (All \ refused) \cup Group_("tuning"))
  BY DEF TasksOf, GroupNames
<1> HIDE DEF Provider, Cooldown, Usage, Tuning, Indexes, T, Group_, All, P
<1>8. \A x, y \in Seq(T) : Cat(x, y) \in Seq(T) /\ Listed(Cat(x, y)) = Listed(x) \cup Listed(y)
  BY ListedConcat
<1> HIDE DEF Cat
<1>9. /\ Cat(Provider, Cooldown) \in Seq(T)
      /\ Listed(Cat(Provider, Cooldown)) = Listed(Provider) \cup Listed(Cooldown)
  BY <1>3, <1>5, <1>8
<1>10. /\ Cat(Cat(Provider, Cooldown), Usage) \in Seq(T)
       /\ Listed(Cat(Cat(Provider, Cooldown), Usage)) = Listed(Cat(Provider, Cooldown)) \cup Listed(Usage)
  BY <1>5, <1>8, <1>9
<1>11. /\ Cat(Cat(Cat(Provider, Cooldown), Usage), Indexes) \in Seq(T)
       /\ Listed(Cat(Cat(Cat(Provider, Cooldown), Usage), Indexes))
            = Listed(Cat(Cat(Provider, Cooldown), Usage)) \cup Listed(Indexes)
  BY <1>2, <1>8, <1>10
<1>12. Listed(Tasks(f, refused))
          = Listed(Cat(Cat(Cat(Provider, Cooldown), Usage), Indexes)) \cup Listed(Tuning)
  BY <1>5, <1>6, <1>8, <1>11
<1> QED
  BY <1>2, <1>3, <1>5, <1>7, <1>9, <1>10, <1>11, <1>12

-----------------------------------------------------------------------------
(* PATCH /config. *)

(* Once every target is probed, applying the fields that were not refused arms a
   slot that was probed: a provider is switched to, or an index of the armed
   provider is moved, only to a slot whose probe accepted; and the index that
   comes with a provider is refused with it. *)
SettledByProbes ==
    \A f, refused :
        Typed /\ Armed /\ ConfigFields(f) /\ ProbedSoFar(f, {}, refused)
            => Writing(f, TasksOf(f) \ refused)

(* So it is: the verdicts settle what the fields arm. *)
LEMMA ProbesSettle == SettledByProbes
<1> SUFFICES ASSUME NEW f, NEW refused, Typed, Armed, ConfigFields(f), ProbedSoFar(f, {}, refused)
             PROVE  Writing(f, TasksOf(f) \ refused)
  BY DEF SettledByProbes
<1> DEFINE tasks == TasksOf(f) \ refused
           fp == FinalProvider(f, tasks)
           Eff(p) == EffectiveIndex(f, key_index, p)
           Fields == DOMAIN IndexField(f)
<1>1. /\ Fields \subseteq Providers /\ \A p \in Fields : f.index[p] = IndexField(f)[p]
      /\ key_index \in [Providers -> Slots \cup {NoIndex}]
  BY IndexFieldTyped DEF Typed, OpsTypeOK, ConfigTypeOK
<1>2. \A t \in WouldArm(f) : t[2] = <<t[1][2], Eff(t[1][2])>>
  BY <1>1, TargetsTyped DEF WouldArm
<1>3. /\ \A t \in WouldArm(f) : t[1] \in refused \/ Vouched(t[2])
      /\ \A t, u \in WouldArm(f) : t[2] = u[2] /\ t[1] \in refused => u[1] \in refused
      /\ \A x \in refused : \E t \in WouldArm(f) : t[1] = x
  BY DEF ProbedSoFar
<1>4. \A p : <<"index", p>> \in tasks <=> p \in Fields /\ <<"index", p>> \notin refused
  BY DEF TasksOf
<1> HIDE DEF tasks
<1>5. \A p : IndexOrZero(FinalIndex(f, tasks, p)) =
                IF <<"index", p>> \in tasks THEN Eff(p) ELSE IndexOrZero(key_index[p])
  BY <1>1, <1>4 DEF FinalIndex, EffectiveIndex
<1>6. CASE fp # NoProvider /\ fp # provider
  <2>1. /\ ProviderChanging(f) /\ fp = f.provider /\ <<"provider", fp>> \notin refused
        /\ fp \in Providers
    BY <1>6 DEF FinalProvider, ProviderChanging, ConfigFields, tasks
  <2>2. <<<<"provider", fp>>, <<fp, Eff(fp)>>>> \in WouldArm(f)
    BY <1>6, <2>1 DEF WouldArm, ArmingTargets
  <2>3. Vouched(<<fp, Eff(fp)>>)
    BY <1>3, <2>1, <2>2
  <2>4. <<"index", fp>> \notin refused
    <3> SUFFICES ASSUME <<"index", fp>> \in refused PROVE FALSE
      OBVIOUS
    <3>1. PICK t \in WouldArm(f) : t[1] = <<"index", fp>>
      BY <1>3
    <3>2. t[2] = <<fp, Eff(fp)>>
      BY <1>2, <3>1
    <3> QED
      BY <1>3, <2>1, <2>2, <3>1, <3>2
  <2>5. IndexOrZero(FinalIndex(f, tasks, fp)) = Eff(fp)
    BY <1>4, <1>5, <2>4 DEF EffectiveIndex
  <2> QED
    BY <2>3, <2>5 DEF Writing, FinalSlot, tasks
<1>7. CASE fp # NoProvider /\ fp = provider
  <2>1. Vouched(<<fp, IndexOrZero(key_index[fp])>>)
    BY <1>7 DEF Armed, ArmedSlot
  <2>2. ASSUME <<"index", fp>> \in tasks, Eff(fp) # IndexOrZero(key_index[fp])
        PROVE  Vouched(<<fp, Eff(fp)>>)
    <3>1. fp \in Fields /\ <<"index", fp>> \notin refused
      BY <1>4, <2>2
    <3>2. <<<<"index", fp>>, <<fp, Eff(fp)>>>> \in WouldArm(f)
      BY <1>7, <2>2, <3>1 DEF WouldArm, ArmingTargets
    <3> QED
      BY <1>3, <3>1, <3>2
  <2> QED
    BY <1>5, <2>1, <2>2 DEF Writing, FinalSlot, tasks
<1>8. CASE fp = NoProvider
  BY <1>8 DEF Writing, tasks
<1> QED
  BY <1>6, <1>7, <1>8

(* So it does after the step that makes the last probe. *)
LEMMA ProbesSettleNext == SettledByProbes'
BY ProbesSettle, PTL

(* What is left when a handler's step is over. *)
Post(r) == (MidPatch \/ Armed) /\ (Busy(r) => HandlerArmed(req[r]))

(* On to the probes that are left, or to the tasks. *)
LEMMA AfterProbing ==
    ASSUME Typed, Typed', NEW r \in Requests, Busy(r), req[r].body.kind = "config",
           req[r].indexes = key_index, NEW f, f = req[r].body.fields,
           NEW targets, NEW refused, Probing(r, targets, refused),
           UNCHANGED configVars, Armed', ProbedSoFar(f, targets, refused)'
    PROVE  Post(r)'
<1>1. DOMAIN req = Requests /\ HandlerTyped(req[r]) /\ ConfigFields(f)
  BY BusyTyped, KindsOfBodies, BodiesAssumption DEF Typed, RequestsTyped, HandlerTyped
<1>2. DOMAIN req[r] = HandlerFields /\ req[r] # Idle
  BY <1>1 DEF HandlerTyped, Busy
<1>3. CASE targets = {} /\ Tasks(f, refused) = <<>>
  <2>1. req'[r] = Idle
    BY <1>1, <1>3 DEF Probing, Proceeds, Answers, Becomes
  <2> QED
    BY <2>1 DEF Post, Busy
<1>4. CASE targets = {} /\ Tasks(f, refused) # <<>>
  <2>1. req'[r] = [req[r] EXCEPT !.at = "tasks", !.todo = Tasks(f, refused)]
    BY <1>1, <1>4 DEF Probing, Proceeds, Becomes
  <2>2. /\ req'[r].at = "tasks" /\ req'[r].body = req[r].body
        /\ req'[r].todo = Tasks(f, refused)
    BY <1>2, <2>1 DEF HandlerFields
  <2>3. ProbedSoFar(f, {}, refused)'
    BY <1>4
  <2>4. Writing(f, TasksOf(f) \ refused)'
    BY <1>1, <2>3, ProbesSettleNext DEF SettledByProbes
  <2>5. Writing(f, Listed(Tasks(f, refused)))'
    BY <1>1, <2>4, TasksRange
  <2> QED
    BY <2>2, <2>5 DEF Post, HandlerArmed, ConfigArmed
<1>5. CASE targets # {}
  <2>1. req'[r] = [req[r] EXCEPT !.at = "probe", !.targets = targets, !.refused = refused]
    BY <1>1, <1>5 DEF Probing, Becomes
  <2>2. /\ req'[r].at = "probe" /\ req'[r].body = req[r].body /\ req'[r].targets = targets
        /\ req'[r].refused = refused /\ req'[r].indexes = key_index'
    BY <1>2, <2>1 DEF HandlerFields, configVars
  <2> QED
    BY <2>2 DEF Post, HandlerArmed, ConfigArmed
<1> QED
  BY <1>3, <1>4, <1>5

(* Whoever handles /config, at the points before the tasks. *)
LEMMA ConfigProbes ==
    ASSUME Typed, Typed', NEW r \in Requests, Armed, Busy(r) => HandlerArmed(req[r]),
           ReadStoredIndexes(r) \/ ReadCurrentProvider(r) \/ ProbeTarget(r)
    PROVE  Post(r)'
<1> DEFINE q == req[r]
           f == q.body.fields
<1>1. Busy(r) /\ q.body.kind = "config" /\ HandlerTyped(q) /\ ConfigArmed(q)
  BY BusyTyped DEF ReadStoredIndexes, ReadCurrentProvider, ProbeTarget, At, HandlerArmed, Typed
<1>2. DOMAIN req = Requests /\ DOMAIN q = HandlerFields /\ ConfigFields(f)
  BY <1>1, KindsOfBodies, BodiesAssumption DEF Typed, RequestsTyped, HandlerTyped
<1>3. UNCHANGED configVars
  BY DEF ReadStoredIndexes, ReadCurrentProvider, ProbeTarget, OnlyReads, configVars
<1>4. CASE ReadStoredIndexes(r)
  <2>1. Armed'
    BY <1>3, <1>4, ArmedKept DEF ReadStoredIndexes, OnlyReads
  <2>2. req'[r] = [q EXCEPT !.at = "provider", !.indexes = key_index]
    BY <1>2, <1>4 DEF ReadStoredIndexes, Becomes
  <2>3. /\ req'[r].at = "provider" /\ req'[r].body = q.body /\ req'[r].indexes = key_index'
    BY <1>2, <1>3, <2>2 DEF HandlerFields, configVars
  <2> QED
    BY <1>1, <2>1, <2>3 DEF Post, HandlerArmed, ConfigArmed
<1>5. CASE ReadCurrentProvider(r)
  <2>1. q.indexes = key_index
    BY <1>1, <1>5 DEF ReadCurrentProvider, At, ConfigArmed
  <2>2. Armed'
    BY <1>3, <1>5, ArmedKept DEF ReadCurrentProvider, OnlyReads
  <2>3. Probing(r, WouldArm(f), {})
    BY <1>5, <2>1 DEF ReadCurrentProvider, WouldArm
  <2>4. PICK fields, targets : fields = f /\ targets = WouldArm(f)
    OBVIOUS
  <2>5. targets = WouldArm(fields)'
    BY <1>3, <2>4 DEF WouldArm, configVars, ArmingTargets, EffectiveIndex
  <2>6. ProbedSoFar(fields, targets, {})'
    BY <2>5 DEF ProbedSoFar
  <2> QED
    BY <1>1, <1>3, <2>1, <2>2, <2>3, <2>4, <2>6, AfterProbing
<1>6. CASE ProbeTarget(r)
  <2>1. q.indexes = key_index /\ ProbedSoFar(f, q.targets, q.refused)
    BY <1>1, <1>6 DEF ProbeTarget, At, ConfigArmed
  <2>2. PICK slot \in {t[2] : t \in q.targets} :
          \/ /\ ProbeAccepts(slot, q.env[slot], slot_config[slot])
             /\ Probing(r, q.targets \ {t \in q.targets : t[2] = slot}, q.refused)
          \/ /\ ProbeRefuses(slot, q.env[slot], slot_config[slot])
             /\ Probing(r, q.targets \ {t \in q.targets : t[2] = slot},
                        q.refused \cup {t[1] : t \in {t \in q.targets : t[2] = slot}})
    BY <1>6 DEF ProbeTarget
  <2>3. PICK fields, targets, here, refused :
          /\ fields = f /\ here = {t \in q.targets : t[2] = slot}
          /\ targets = q.targets \ here
          /\ refused = IF ProbeAccepts(slot, q.env[slot], slot_config[slot])
                          /\ Probing(r, q.targets \ here, q.refused)
                       THEN q.refused ELSE q.refused \cup {t[1] : t \in here}
    OBVIOUS
  <2> DEFINE W == WouldArm(f)
             old == q.targets
  <2>4. /\ old \subseteq W
        /\ \A t \in W \ old : t[1] \in q.refused \/ Vouched(t[2])
        /\ \A t, u \in W : t[2] = u[2] =>
              (t \in old => u \in old) /\ (t[1] \in q.refused => u[1] \in q.refused)
        /\ q.refused \subseteq {t[1] : t \in W \ old}
    BY <2>1 DEF ProbedSoFar
  <2>5. \A t, u \in W : t[1] = u[1] => t[2] = u[2]
    <3>1. key_index \in [Providers -> Slots \cup {NoIndex}]
      BY DEF Typed, OpsTypeOK, ConfigTypeOK
    <3>2. \A t \in W : t[2] = <<t[1][2], EffectiveIndex(f, key_index, t[1][2])>>
      BY <1>2, <3>1, TargetsTyped DEF WouldArm
    <3> QED
      BY <3>2
  <2>6. WouldArm(fields)' = W
    BY <1>3, <2>3 DEF WouldArm, configVars, ArmingTargets, EffectiveIndex
  <2>7. UNCHANGED slot_config
    BY <1>3 DEF configVars
  <2>8. CASE /\ ProbeAccepts(slot, q.env[slot], slot_config[slot])
             /\ Probing(r, q.targets \ here, q.refused)
    <3>1. vouched' = vouched \cup {<<slot, slot_config[slot]>>}
      BY <2>8 DEF ProbeAccepts, Vouch
    <3>2. Vouched(slot)' /\ \A t \in W : Vouched(t[2]) => Vouched(t[2])'
      BY <2>7, <3>1 DEF Vouched
    <3>3. Armed'
      BY <1>3, <3>1, ArmedKept
    <3>4. refused = q.refused /\ Probing(r, targets, refused)
      BY <2>3, <2>8
    <3> HIDE DEF W
    <3>5. \A t \in W \ targets : t[1] \in refused \/ Vouched(t[2])'
      BY <2>3, <2>4, <3>2, <3>4
    <3>6. \A t, u \in W : t[2] = u[2] =>
             (t \in targets => u \in targets) /\ (t[1] \in refused => u[1] \in refused)
      BY <2>3, <2>4, <3>4
    <3>7. targets \subseteq W /\ refused \subseteq {t[1] : t \in W \ targets}
      BY <2>3, <2>4, <3>4
    <3>8. ProbedSoFar(fields, targets, refused)'
      BY <2>6, <3>5, <3>6, <3>7 DEF ProbedSoFar
    <3> QED
      BY <1>1, <1>3, <2>1, <2>3, <3>3, <3>4, <3>8, AfterProbing
  <2>9. CASE ~(/\ ProbeAccepts(slot, q.env[slot], slot_config[slot])
               /\ Probing(r, q.targets \ here, q.refused))
    <3>1. refused = q.refused \cup {t[1] : t \in here}
      BY <2>3, <2>9
    <3>2. /\ ProbeRefuses(slot, q.env[slot], slot_config[slot])
          /\ Probing(r, targets, refused)
      BY <2>2, <2>3, <2>9, <3>1
    <3>3. UNCHANGED vouched
      BY <3>2 DEF ProbeRefuses
    <3>4. Armed' /\ \A t \in W : Vouched(t[2]) => Vouched(t[2])'
      BY <1>3, <2>7, <3>3, ArmedKept DEF Vouched
    <3> HIDE DEF W
    <3>5. \A t \in W \ targets : t[1] \in refused \/ Vouched(t[2])'
      BY <2>3, <2>4, <3>1, <3>4
    <3>6. \A t, u \in W : t[2] = u[2] /\ t[1] \in refused => u[1] \in refused
      BY <2>3, <2>4, <2>5, <3>1
    <3>7. \A t, u \in W : t[2] = u[2] /\ t \in targets => u \in targets
      BY <2>3, <2>4
    <3>8. targets \subseteq W /\ refused \subseteq {t[1] : t \in W \ targets}
      BY <2>3, <2>4, <3>1
    <3>9. ProbedSoFar(fields, targets, refused)'
      BY <2>6, <3>5, <3>6, <3>7, <3>8 DEF ProbedSoFar
    <3> QED
      BY <1>1, <1>3, <2>1, <2>3, <3>2, <3>4, <3>9, AfterProbing
  <2> QED
    BY <2>8, <2>9
<1> QED
  BY <1>4, <1>5, <1>6

(* With no task left, what is armed is what the tasks were to arm. *)
WritingNothing == \A f : Writing(f, {}) => Armed

(* The final slot of no task is the armed one. *)
LEMMA NothingToWrite == WritingNothing
BY DEF WritingNothing, Writing, Armed, ArmedSlot, FinalSlot, FinalProvider, FinalIndex

(* Also after a step. *)
LEMMA NothingToWriteNext == WritingNothing'
BY NothingToWrite, PTL

(* On to the next task, or to the answer. *)
LEMMA AfterTask ==
    ASSUME Typed, NEW r \in Requests, Busy(r), req[r].body.kind = "config",
           req[r].at \in {"tasks", "group"}, NEW f, f = req[r].body.fields,
           NEW rest, rest = Tail(req[r].todo), NextTask(r), Writing(f, Listed(rest))'
    PROVE  Post(r)'
<1>1. DOMAIN req = Requests /\ HandlerTyped(req[r])
  BY BusyTyped DEF Typed, RequestsTyped
<1>2. DOMAIN req[r] = HandlerFields
  BY <1>1 DEF HandlerTyped
<1>3. CASE rest = <<>>
  <2>1. req'[r] = Idle
    BY <1>1, <1>3 DEF NextTask, Proceeds, Answers, Becomes
  <2>2. Listed(rest) = {}
    BY <1>3, ListedOne
  <2>3. Writing(f, {})'
    BY <2>2
  <2> QED
    BY <2>1, <2>3, NothingToWriteNext DEF Post, Busy, WritingNothing
<1>4. CASE rest # <<>>
  <2>1. req'[r] = [req[r] EXCEPT !.at = "tasks", !.todo = rest]
    BY <1>1, <1>4 DEF NextTask, Proceeds, Becomes
  <2>2. req'[r].at = "tasks" /\ req'[r].body = req[r].body /\ req'[r].todo = rest
    BY <1>2, <2>1 DEF HandlerFields
  <2>3. At(r, "config", "tasks")'
    BY <2>2 DEF At, Busy, Idle
  <2> QED
    BY <2>2, <2>3 DEF Post, HandlerArmed, ConfigArmed, MidPatch
<1> QED
  BY <1>3, <1>4

(* Applying one task arms nothing but what the tasks were to arm. *)
LEMMA ConfigTasks ==
    ASSUME Typed, NEW r \in Requests, Busy(r) => HandlerArmed(req[r]),
           ApplyProvider(r) \/ ApplyKeyIndex(r) \/ ReadGroup(r) \/ StoreGroup(r)
    PROVE  Post(r)'
<1> DEFINE q == req[r]
           fields == q.body.fields
<1>1. /\ Busy(r) /\ q.body.kind = "config" /\ HandlerTyped(q) /\ ConfigArmed(q)
      /\ q.at \in {"tasks", "group"}
  BY BusyTyped DEF ApplyProvider, ApplyKeyIndex, ReadGroup, StoreGroup, At, HandlerArmed, Typed
<1>2. DOMAIN req = Requests /\ DOMAIN q = HandlerFields /\ ConfigFields(fields)
  BY <1>1, KindsOfBodies, BodiesAssumption DEF Typed, RequestsTyped, HandlerTyped
<1>3. PICK f, todo, rest, head :
        f = fields /\ todo = q.todo /\ rest = Tail(q.todo) /\ head = Head(q.todo)
  OBVIOUS
<1>4. head \in TasksOf(f) /\ Listed(todo) = {head} \cup Listed(rest)
  <2> DEFINE T == TasksOf(f)
  <2>1. todo \in Seq(T) /\ todo # <<>>
    BY <1>1, <1>3 DEF HandlerTyped, ConfigHandler
  <2> HIDE DEF T
  <2>2. Head(todo) \in T
    BY <2>1
  <2>3. Listed(todo) = {Head(todo)} \cup Listed(Tail(todo))
    BY <2>1, ListedTail
  <2> QED
    BY <1>3, <2>2, <2>3 DEF T
<1>5. Writing(f, {head} \cup Listed(rest))
  BY <1>1, <1>3, <1>4 DEF ConfigArmed
<1>6. PICK L : L = Listed(rest)
  OBVIOUS
<1>7. CASE ApplyProvider(r)
  <2>1. head = <<"provider", f.provider>> /\ "provider" \in DOMAIN f /\ provider' = f.provider
    <3>1. head[1] = "provider" /\ provider' = head[2]
      BY <1>3, <1>7 DEF ApplyProvider, Task, SetProviderOverride
    <3>2. head = <<"provider", f.provider>> /\ "provider" \in DOMAIN f
      BY <1>4, <3>1 DEF TasksOf
    <3> QED
      BY <3>1, <3>2
  <2>2. UNCHANGED <<key_index, slot_config, vouched>>
    BY <1>7 DEF ApplyProvider, SetProviderOverride, OnlyConfig
  <2>3. FinalProvider(f, {head} \cup L) = f.provider
    BY <2>1 DEF FinalProvider
  <2>4. FinalProvider(f, L)' = f.provider
    BY <2>1 DEF FinalProvider
  <2>5. \A p : FinalIndex(f, {head} \cup L, p) = FinalIndex(f, L, p)'
    BY <2>1, <2>2 DEF FinalIndex
  <2>6. Writing(f, L)'
    BY <1>5, <1>6, <2>2, <2>3, <2>4, <2>5 DEF Writing, FinalSlot, Vouched
  <2>7. NextTask(r)
    BY <1>7 DEF ApplyProvider
  <2> QED
    BY <1>1, <1>3, <1>6, <2>6, <2>7, AfterTask
<1>8. CASE ApplyKeyIndex(r)
  <2>1. PICK p \in DOMAIN IndexField(f) : head = <<"index", p>>
    <3>1. head[1] = "index"
      BY <1>3, <1>8 DEF ApplyKeyIndex, Task
    <3> QED
      BY <1>4, <3>1 DEF TasksOf
  <2>2. p \in Providers /\ key_index \in [Providers -> Slots \cup {NoIndex}]
    BY <1>2, <1>3, <2>1, IndexFieldTyped DEF Typed, OpsTypeOK, ConfigTypeOK
  <2>3. /\ key_index' = [key_index EXCEPT ![p] = f.index[p]]
        /\ UNCHANGED <<provider, slot_config, vouched>>
    <3>1. head[2] = p
      BY <2>1
    <3>2. SetKeyIndexOverride(head[2], f.index[head[2]]) /\ UNCHANGED vouched
      BY <1>3, <1>8 DEF ApplyKeyIndex, Task, OnlyConfig
    <3> QED
      BY <3>1, <3>2 DEF SetKeyIndexOverride
  <2>4. FinalProvider(f, {head} \cup L) = FinalProvider(f, L)'
    BY <2>1, <2>3 DEF FinalProvider
  <2>5. \A s \in Providers : FinalIndex(f, {head} \cup L, s) = FinalIndex(f, L, s)'
    BY <2>1, <2>2, <2>3 DEF FinalIndex
  <2>6. FinalProvider(f, L)' \in Providers \cup {NoProvider}
    BY <1>2, <1>3, <2>3 DEF FinalProvider, ConfigFields, Typed, OpsTypeOK, ConfigTypeOK
  <2>7. Writing(f, L)'
    BY <1>5, <1>6, <2>3, <2>4, <2>5, <2>6 DEF Writing, FinalSlot, Vouched
  <2>8. NextTask(r)
    BY <1>8 DEF ApplyKeyIndex
  <2> QED
    BY <1>1, <1>3, <1>6, <2>7, <2>8, AfterTask
<1>9. CASE ReadGroup(r)
  <2>1. UNCHANGED <<provider, key_index, slot_config, vouched>>
    BY <1>9 DEF ReadGroup, OnlyReads, configVars
  <2>2. Writing(f, {head} \cup L)'
    BY <1>5, <1>6, <2>1 DEF Writing, FinalSlot, FinalProvider, FinalIndex, Vouched
  <2>3. req'[r] = [q EXCEPT !.at = "group", !.group = GetGroup(Task(r)[2])]
    BY <1>2, <1>9 DEF ReadGroup, Becomes
  <2>4. req'[r].at = "group" /\ req'[r].body = q.body /\ req'[r].todo = todo
    BY <1>2, <1>3, <2>3 DEF HandlerFields
  <2>5. At(r, "config", "group")'
    BY <1>1, <2>4 DEF At, Busy, Idle
  <2>6. Writing(f, Listed(todo))'
    BY <1>4, <1>6, <2>2
  <2> QED
    BY <1>1, <1>3, <2>4, <2>5, <2>6 DEF Post, HandlerArmed, ConfigArmed, MidPatch
<1>10. CASE StoreGroup(r)
  <2>1. UNCHANGED <<provider, key_index, slot_config, vouched>>
    BY <1>10 DEF StoreGroup, configVars
  <2>2. head[1] = "group"
    BY <1>1, <1>3, <1>10 DEF StoreGroup, At, HandlerTyped, ConfigHandler
  <2>3. Writing(f, L)'
    BY <1>5, <1>6, <2>1, <2>2 DEF Writing, FinalSlot, FinalProvider, FinalIndex, Vouched
  <2>4. NextTask(r)
    BY <1>10 DEF StoreGroup
  <2> QED
    BY <1>1, <1>3, <1>6, <2>3, <2>4, AfterTask
<1> QED
  BY <1>7, <1>8, <1>9, <1>10

-----------------------------------------------------------------------------
(* The other handlers. *)

(* A handler that is at no task of a PATCH found what is armed as it was left. *)
Settled(r) == ~(At(r, "config", "tasks") \/ At(r, "config", "group")) => Armed

(* Whoever answers, with what is armed probed. *)
LEMMA AnswersArmed ==
    ASSUME Typed, NEW r \in Requests, Answers(r), Armed'
    PROVE  Post(r)'
<1>1. req'[r] = Idle
  BY DEF Answers, Becomes, Typed, RequestsTyped
<1> QED
  BY <1>1 DEF Post, Busy

(* Whoever goes on in a handler that has nothing armed to keep track of. *)
LEMMA GoesToArmed ==
    ASSUME Typed, NEW r \in Requests, Busy(r), HandlerArmed(req[r]), NEW at, GoesTo(r, at), Armed',
           \/ req[r].body.kind = "render"
           \/ req[r].body.kind = "apply" /\ vouched \subseteq vouched'
           \/ req[r].body.kind = "delete" /\ at = "deploy"
    PROVE  Post(r)'
<1>1. req'[r] = [req[r] EXCEPT !.at = at] /\ DOMAIN req[r] = HandlerFields
  BY BusyTyped DEF GoesTo, Becomes, Typed, RequestsTyped, HandlerTyped
<1>2. req'[r].body = req[r].body /\ req'[r].at = at
  BY <1>1 DEF HandlerFields
<1>3. req[r].body.kind = "render" => HandlerArmed(req[r])'
  BY <1>2 DEF HandlerArmed
<1>4. req[r].body.kind = "apply" /\ vouched \subseteq vouched' => HandlerArmed(req[r])'
  BY <1>2 DEF HandlerArmed, ApplyArmed
<1>5. req[r].body.kind = "delete" /\ at = "deploy" => HandlerArmed(req[r])'
  BY <1>2 DEF HandlerArmed, DeleteArmed
<1> QED
  BY <1>3, <1>4, <1>5 DEF Post

(* PATCH of a slot writes the row that it probed in that slot. *)
LEMMA SlotArms ==
    ASSUME Typed, NEW r \in Requests, Armed, Busy(r) => HandlerArmed(req[r]), ApplySlotPatch(r)
    PROVE  Post(r)'
<1>1. /\ Busy(r) /\ req[r].body.kind = "slot" /\ DOMAIN req = Requests
      /\ DOMAIN req[r] = HandlerFields /\ SlotArmed(req[r])
  BY BusyTyped DEF ApplySlotPatch, MergeAndProbe, WriteSlotRow, At, HandlerArmed, Typed,
     RequestsTyped, HandlerTyped
<1>2. CASE MergeAndProbe(r)
  <2> DEFINE slot == req[r].body.slot
  <2>1. PICK row :
          \/ /\ ProbeAccepts(slot, req[r].env[slot], row)
             /\ Becomes(r, [req[r] EXCEPT !.at = "write", !.row = row])
          \/ Answers(r) /\ UNCHANGED vouched
    BY <1>2 DEF MergeAndProbe, ProbeRefuses
  <2>2. UNCHANGED configVars
    BY <1>2 DEF MergeAndProbe, configVars
  <2>3. CASE Answers(r) /\ UNCHANGED vouched
    BY <2>2, <2>3, ArmedKept, AnswersArmed
  <2>4. CASE /\ ProbeAccepts(slot, req[r].env[slot], row)
             /\ Becomes(r, [req[r] EXCEPT !.at = "write", !.row = row])
    <3>1. vouched' = vouched \cup {<<slot, row>>}
      BY <2>4 DEF ProbeAccepts, Vouch
    <3>2. Armed'
      BY <2>2, <3>1, ArmedKept
    <3>3. req'[r].body = req[r].body /\ req'[r].row = row
      BY <1>1, <2>4 DEF Becomes, HandlerFields
    <3> QED
      BY <1>1, <3>1, <3>2, <3>3 DEF Post, HandlerArmed, SlotArmed
  <2> QED
    BY <2>1, <2>3, <2>4
<1>3. CASE WriteSlotRow(r)
  <2>1. <<req[r].body.slot, req[r].row>> \in vouched /\ UNCHANGED vouched /\ Answers(r)
    BY <1>1, <1>3 DEF WriteSlotRow, At, SlotArmed, OnlyConfig
  <2>2. SetSlotConfig(req[r].body.slot, req[r].row) \/ UNCHANGED configVars
    BY <1>3 DEF WriteSlotRow
  <2>3. Armed'
    BY <2>1, <2>2, VouchedWrite, ArmedKept
  <2> QED
    BY <2>1, <2>3, AnswersArmed
<1> QED
  BY <1>2, <1>3 DEF ApplySlotPatch

(* Apply saves the row that was probed with the credential it pushes. *)
LEMMA ApplyArms ==
    ASSUME Typed, NEW r \in Requests, Armed, Busy(r) => HandlerArmed(req[r]), ApplyCredential(r)
    PROVE  Post(r)'
<1>1. Busy(r) /\ req[r].body.kind = "apply" /\ HandlerArmed(req[r]) /\ ApplyArmed(req[r])
  BY DEF ApplyCredential, PushCredential, SaveApplied, At, HandlerArmed
<1>2. CASE PushCredential(r)
  <2>1. Armed' /\ UNCHANGED vouched
    BY <1>2, ArmedKept DEF PushCredential, OnlyRender
  <2>2. GoesTo(r, "save") \/ GoesTo(r, "save unpushed")
    BY <1>2 DEF PushCredential
  <2> QED
    BY <1>1, <2>1, <2>2, GoesToArmed
<1>3. CASE SaveApplied(r)
  <2>1. UNCHANGED vouched /\ (GoesTo(r, "deploy") \/ Answers(r))
    BY <1>3 DEF SaveApplied, OnlyConfig
  <2>2. SetSlotConfig(req[r].body.slot, req[r].body.row) \/ UNCHANGED configVars
    BY <1>3 DEF SaveApplied
  <2>3. Armed'
    BY <1>1, <2>1, <2>2, VouchedWrite, ArmedKept DEF ApplyArmed
  <2> QED
    BY <1>1, <2>1, <2>3, GoesToArmed, AnswersArmed
<1> QED
  BY <1>2, <1>3 DEF ApplyCredential

(* DELETE of a key never takes the slot that is armed: neither its row, nor the
   index of the armed provider. *)
LEMMA DeleteArms ==
    ASSUME Typed, NEW r \in Requests, Armed, Busy(r) => HandlerArmed(req[r]), CascadeDelete(r)
    PROVE  Post(r)'
<1> DEFINE q == req[r]
           key == q.body.key
<1>1. /\ Busy(r) /\ q.body.kind = "delete" /\ DOMAIN req = Requests
      /\ DOMAIN q = HandlerFields /\ HandlerArmed(q) /\ DeleteArmed(q)
      /\ HandlerTyped(q)
  BY BusyTyped DEF CascadeDelete, ReadIndexes, ReadProvider, CheckDependents, DeleteVariable,
     ClearDependent, At, HandlerArmed, Typed, RequestsTyped, HandlerTyped
<1>2. /\ key \in Keys /\ key = <<key[1], key[2]>> /\ key[2] # NoIndex
      /\ key_index \in [Providers -> Slots \cup {NoIndex}]
  <2>1. key \in Keys
    BY <1>1, KindsOfBodies, BodiesAssumption DEF HandlerTyped
  <2> QED
    BY <2>1, ConfigAssumption DEF Keys, Typed, OpsTypeOK, ConfigTypeOK
<1>3. CASE ReadIndexes(r)
  <2>1. Armed' /\ UNCHANGED configVars
    BY <1>3, ArmedKept DEF ReadIndexes, OnlyReads
  <2>2. req'[r] = [q EXCEPT !.at = "provider", !.indexes = key_index]
    BY <1>1, <1>3 DEF ReadIndexes, Becomes
  <2>3. req'[r].at = "provider" /\ req'[r].body = q.body /\ req'[r].indexes = key_index'
    BY <1>1, <2>1, <2>2 DEF HandlerFields, configVars
  <2> QED
    BY <1>1, <2>1, <2>3 DEF Post, HandlerArmed, DeleteArmed
<1>4. CASE ReadProvider(r)
  <2>1. Armed' /\ UNCHANGED configVars /\ q.indexes = key_index
    BY <1>1, <1>4, ArmedKept DEF ReadProvider, OnlyReads, At, DeleteArmed
  <2>2. req'[r] = [q EXCEPT !.at = "row", !.current = provider]
    BY <1>1, <1>4 DEF ReadProvider, Becomes
  <2>3. /\ req'[r].at = "row" /\ req'[r].body = q.body /\ req'[r].indexes = key_index'
        /\ req'[r].current = provider'
    BY <1>1, <2>1, <2>2 DEF HandlerFields, configVars
  <2> QED
    BY <1>1, <2>1, <2>3 DEF Post, HandlerArmed, DeleteArmed
<1>5. CASE CheckDependents(r)
  <2>1. Armed' /\ UNCHANGED configVars /\ q.indexes = key_index /\ q.current = provider
    BY <1>1, <1>5, ArmedKept DEF CheckDependents, OnlyReads, At, DeleteArmed
  <2>2. CASE Answers(r)
    BY <2>1, <2>2, AnswersArmed
  <2>3. CASE ~Active(key, q.indexes, q.current)
             /\ Becomes(r, [q EXCEPT !.at = "delete", !.row = slot_config[key]])
    <3>1. /\ req'[r].at = "delete" /\ req'[r].body = q.body /\ req'[r].indexes = q.indexes
      BY <1>1, <2>3 DEF Becomes, HandlerFields
    <3>2. provider # key[1] \/ IndexOrZero(key_index[key[1]]) # key[2]
      BY <2>1, <2>3 DEF Active
    <3>3. ArmedSlot # key
      <4> SUFFICES ASSUME ArmedSlot = key PROVE FALSE
        OBVIOUS
      <4>1. provider = key[1] /\ IndexOrZero(key_index[provider]) = key[2]
        BY <1>2 DEF ArmedSlot
      <4> QED
        BY <3>2, <4>1
    <3>4. Overridden(key, q.indexes) => key[1] # provider
      BY <1>2, <2>1, <3>2 DEF Overridden, IndexOrZero
    <3>5. ArmedSlot' = ArmedSlot /\ provider' = provider /\ key_index' = key_index
      BY <2>1 DEF ArmedSlot, configVars
    <3>6. DeleteArmed(req[r])'
      BY <2>1, <3>1, <3>3, <3>4, <3>5 DEF DeleteArmed, Overridden
    <3> QED
      BY <1>1, <2>1, <3>1, <3>6 DEF Post, HandlerArmed
  <2> QED
    BY <1>5, <2>2, <2>3 DEF CheckDependents
<1>6. CASE DeleteVariable(r)
  <2>1. Armed' /\ UNCHANGED configVars
    BY <1>6, ArmedKept DEF DeleteVariable, OnlyRender
  <2>2. ArmedSlot' = ArmedSlot /\ provider' = provider
    BY <2>1 DEF ArmedSlot, configVars
  <2>3. /\ provider # NoProvider => ArmedSlot # key
        /\ Overridden(key, q.indexes) => key[1] # provider
    BY <1>1, <1>6 DEF DeleteVariable, At, DeleteArmed
  <2>4. CASE GoesTo(r, "deploy") \/ Answers(r)
    BY <1>1, <2>1, <2>4, GoesToArmed, AnswersArmed
  <2>5. CASE Becomes(r, [q EXCEPT !.at = "cascade", !.todo = Cascade(r)])
    <3>1. /\ req'[r].at = "cascade" /\ req'[r].body = q.body /\ req'[r].todo = Cascade(r)
      BY <1>1, <2>5 DEF Becomes, HandlerFields
    <3>2. "index" \in Listed(Cascade(r)) => Overridden(key, q.indexes)
      <4> DEFINE First == IF Overridden(key, q.indexes) THEN <<"index">> ELSE <<>>
                 Second == IF q.row # NoRow THEN <<"row">> ELSE <<>>
      <4>1. /\ First \in Seq({"index", "row"}) /\ Second \in Seq({"index", "row"})
            /\ Cascade(r) = First \o Second
        <5>1. <<>> \in Seq({"index", "row"}) /\ <<"index">> \in Seq({"index", "row"})
          OBVIOUS
        <5>2. <<"row">> \in Seq({"index", "row"})
          OBVIOUS
        <5> QED
          BY <5>1, <5>2 DEF Cascade
      <4>2. /\ "index" \in Listed(First) => Overridden(key, q.indexes)
            /\ "index" \notin Listed(Second)
        BY ListedOne
      <4> HIDE DEF First, Second
      <4>3. Listed(First \o Second) = Listed(First) \cup Listed(Second)
        BY <4>1, ListedConcat
      <4> QED
        BY <4>1, <4>2, <4>3
    <3>3. DeleteArmed(req[r])'
      BY <2>2, <2>3, <3>1, <3>2 DEF DeleteArmed
    <3> QED
      BY <1>1, <2>1, <3>1, <3>3 DEF Post, HandlerArmed
  <2> QED
    BY <1>6, <2>4, <2>5 DEF DeleteVariable
<1>7. CASE ClearDependent(r)
  <2> DEFINE rest == Tail(q.todo)
             next == [q EXCEPT !.todo = rest, !.at = IF rest = <<>> THEN "deploy" ELSE @]
  <2>1. /\ provider # NoProvider => ArmedSlot # key
        /\ "index" \in Listed(q.todo) => key[1] # provider
        /\ q.at = "cascade" /\ UNCHANGED vouched
    BY <1>1, <1>7 DEF ClearDependent, At, DeleteArmed, OnlyConfig
  <2>2. Listed(q.todo) = {Head(q.todo)} \cup Listed(rest)
    <3>1. q.todo \in Seq({"index", "row"}) /\ q.todo # <<>>
      BY <1>1, <2>1 DEF HandlerTyped, DeleteHandler
    <3> QED
      BY <3>1, ListedTail
  <2>3. CASE Answers(r) /\ UNCHANGED configVars
    BY <2>1, <2>3, ArmedKept, AnswersArmed
  <2>4. CASE Becomes(r, next)
             /\ (IF Head(q.todo) = "index" THEN SetKeyIndexOverride(key[1], NoIndex)
                 ELSE DeleteSlotConfig(key))
    <3>1. provider' = provider
      BY <2>4 DEF SetKeyIndexOverride, DeleteSlotConfig
    <3>2. provider # NoProvider =>
            ArmedSlot' = ArmedSlot /\ slot_config'[ArmedSlot] = slot_config[ArmedSlot]
      <4> SUFFICES ASSUME provider # NoProvider
                   PROVE  ArmedSlot' = ArmedSlot /\ slot_config'[ArmedSlot] = slot_config[ArmedSlot]
        OBVIOUS
      <4>1. CASE Head(q.todo) = "index"
        <5>1. key[1] # provider
          BY <2>1, <2>2, <4>1
        <5>2. /\ key_index' = [key_index EXCEPT ![key[1]] = NoIndex]
              /\ UNCHANGED <<provider, slot_config>>
          BY <2>4, <4>1 DEF SetKeyIndexOverride
        <5>3. provider \in Providers
          BY DEF Typed, OpsTypeOK, ConfigTypeOK
        <5>4. key_index'[provider] = key_index[provider]
          BY <1>2, <5>1, <5>2, <5>3
        <5> QED
          BY <5>2, <5>4 DEF ArmedSlot
      <4>2. CASE Head(q.todo) # "index"
        <5>1. slot_config' = [slot_config EXCEPT ![key] = NoRow] /\ UNCHANGED <<provider, key_index>>
          BY <2>4, <4>2 DEF DeleteSlotConfig
        <5>2. ArmedSlot' = ArmedSlot
          BY <5>1 DEF ArmedSlot
        <5> QED
          BY <2>1, <5>1, <5>2
      <4> QED
        BY <4>1, <4>2
    <3>3. Armed'
      BY <2>1, <3>1, <3>2 DEF Armed, Vouched
    <3>4. req'[r].body = q.body /\ req'[r].todo = rest /\ req'[r].at \in {"cascade", "deploy"}
      BY <1>1, <2>1, <2>4 DEF Becomes, HandlerFields
    <3>5. DeleteArmed(req[r])'
      BY <2>1, <2>2, <3>1, <3>2, <3>4 DEF DeleteArmed
    <3> QED
      BY <1>1, <3>3, <3>4, <3>5 DEF Post, HandlerArmed
  <2> QED
    BY <1>7, <2>3, <2>4 DEF ClearDependent
<1> QED
  BY <1>3, <1>4, <1>5, <1>6, <1>7 DEF CascadeDelete

(* PATCH /render changes variables of the service, not what is armed. *)
LEMMA RenderArms ==
    ASSUME Typed, NEW r \in Requests, Armed, Busy(r) => HandlerArmed(req[r]), ApplyRenderPatch(r)
    PROVE  Post(r)'
<1>1. /\ Busy(r) /\ req[r].body.kind = "render" /\ DOMAIN req = Requests
      /\ DOMAIN req[r] = HandlerFields /\ HandlerArmed(req[r])
  BY BusyTyped DEF ApplyRenderPatch, ReadOverrides, CheckSpare, DeleteSpare, SetVariable,
     SetsDone, At, Typed, RequestsTyped, HandlerTyped
<1>2. Armed'
  BY ArmedKept DEF ApplyRenderPatch, ReadOverrides, CheckSpare, DeleteSpare, SetVariable,
     SetsDone, OnlyReads, OnlyRender
<1>3. CASE Answers(r)
  BY <1>2, <1>3, AnswersArmed
<1>4. CASE \E at : GoesTo(r, at)
  BY <1>1, <1>2, <1>4, GoesToArmed
<1>5. CASE \E next : Becomes(r, next) /\ next.body = req[r].body
  <2>1. req'[r].body = req[r].body
    BY <1>1, <1>5 DEF Becomes
  <2> QED
    BY <1>1, <1>2, <2>1 DEF Post, HandlerArmed
<1>6. \A todo, applied : AfterDeletion(r, todo, applied) =>
        \E next : Becomes(r, next) /\ next.body = req[r].body
  <2> SUFFICES ASSUME NEW todo, NEW applied, AfterDeletion(r, todo, applied)
               PROVE  \E next : Becomes(r, next) /\ next.body = req[r].body
    OBVIOUS
  <2> DEFINE next == [req[r] EXCEPT !.applied = applied,
                        !.at = IF todo # <<>> THEN "row" ELSE "sets",
                        !.todo = IF todo # <<>> THEN todo ELSE req[r].body.sets]
  <2>1. next.body = req[r].body
    BY <1>1 DEF HandlerFields
  <2>2. Becomes(r, next)
    BY DEF AfterDeletion
  <2> QED
    BY <2>1, <2>2
<1>7. CASE ReadOverrides(r)
  <2> DEFINE read == [req[r] EXCEPT !.at = "provider", !.indexes = key_index]
             found == [req[r] EXCEPT !.at = "row", !.current = provider,
                                     !.todo = req[r].body.deletes]
  <2>1. read.body = req[r].body /\ found.body = req[r].body
    BY <1>1 DEF HandlerFields
  <2>2. Becomes(r, read) \/ Becomes(r, found)
    BY <1>7 DEF ReadOverrides
  <2> QED
    BY <1>5, <2>1, <2>2
<1>8. CASE CheckSpare(r)
  BY <1>4, <1>5, <1>6, <1>8 DEF CheckSpare
<1>9. CASE DeleteSpare(r)
  BY <1>3, <1>4, <1>5, <1>6, <1>9 DEF DeleteSpare, Finishes
<1>10. CASE SetVariable(r)
  <2> DEFINE next == [req[r] EXCEPT !.todo = Tail(@), !.applied = @ \cup {Head(req[r].todo)[1]}]
  <2>1. next.body = req[r].body
    BY <1>1 DEF HandlerFields
  <2>2. Becomes(r, next) \/ Finishes(r, req[r].applied)
    BY <1>10 DEF SetVariable
  <2> QED
    BY <1>3, <1>4, <1>5, <2>1, <2>2 DEF Finishes
<1>11. CASE SetsDone(r)
  BY <1>3, <1>4, <1>11 DEF SetsDone, Finishes
<1> QED
  BY <1>7, <1>8, <1>9, <1>10, <1>11 DEF ApplyRenderPatch

(* Every step of every handler, when none is cut off between its writes. *)
LEMMA HandlingArms ==
    ASSUME Typed, Typed', NEW r \in Requests, Settled(r), Busy(r) => HandlerArmed(req[r]),
           troubles' = troubles \/ ~(At(r, "config", "tasks") \/ At(r, "config", "group")),
           Handling(r)
    PROVE  Post(r)'
<1>1. troubles \in Nat
  BY DEF Typed, OpsTypeOK
<1>2. CASE ApplyConfigPatch(r)
  <2>1. CASE ReadStoredIndexes(r) \/ ReadCurrentProvider(r) \/ ProbeTarget(r)
    <3>1. ~(At(r, "config", "tasks") \/ At(r, "config", "group"))
      BY <2>1 DEF ReadStoredIndexes, ReadCurrentProvider, ProbeTarget, At
    <3> QED
      BY <2>1, <3>1, ConfigProbes DEF Settled
  <2>2. CASE TaskFails(r)
    <3>1. troubles' = troubles + 1
      BY <2>2 DEF TaskFails, Trouble
    <3> QED
      BY <1>1, <2>2, <3>1 DEF TaskFails
  <2> QED
    BY <1>2, <2>1, <2>2, ConfigTasks DEF ApplyConfigPatch
<1>3. CASE ApplySlotPatch(r) \/ ApplyCredential(r) \/ CascadeDelete(r) \/ ApplyRenderPatch(r)
  <2>1. ~(At(r, "config", "tasks") \/ At(r, "config", "group"))
    BY <1>3 DEF ApplySlotPatch, MergeAndProbe, WriteSlotRow, ApplyCredential, PushCredential,
       SaveApplied, CascadeDelete, ReadIndexes, ReadProvider, CheckDependents, DeleteVariable,
       ClearDependent, ApplyRenderPatch, ReadOverrides, CheckSpare, DeleteSpare, SetVariable,
       SetsDone, At
  <2> QED
    BY <1>3, <2>1, SlotArms, ApplyArms, DeleteArms, RenderArms DEF Settled
<1>4. CASE HandlerDeploys(r) \/ ReadFails(r)
  <2>1. ~(At(r, "config", "tasks") \/ At(r, "config", "group"))
    BY <1>4 DEF HandlerDeploys, ReadFails, At
  <2>2. Armed' /\ Answers(r)
    BY <1>4, <2>1, ArmedKept DEF HandlerDeploys, ReadFails, OnlyReads, OnlyRender, Settled
  <2> QED
    BY <2>2, AnswersArmed
<1>5. CASE HandlerCut(r)
  <2>1. troubles' = troubles + 1
    BY <1>5 DEF HandlerCut, Trouble
  <2>2. Armed' /\ Answers(r)
    BY <1>1, <1>5, <2>1, ArmedKept DEF HandlerCut, OnlyReads, Settled
  <2> QED
    BY <2>2, AnswersArmed
<1> QED
  BY <1>2, <1>3, <1>4, <1>5 DEF Handling

-----------------------------------------------------------------------------
(* set_override. *)

(* The phases of a command that probes: with a model, the probe comes first and
   the row is written; without one, the slot is verified and probed before
   anything is written. *)
LEMMA ProbingPhases ==
    ASSUME ProbingCommands, NEW a \in Commands, ~a.clear
    PROVE  /\ a.model # Absent => /\ AtStart(a, FromStart(a)) /\ FromArmed(a) = FromIndex(a)
                                  /\ AtRow(a, FromRow(a)) /\ AtModel(a, FromModel(a))
           /\ a.model = Absent => /\ FromStart(a) = FromVerify(a) /\ AtVerify(a, FromVerify(a))
                                  /\ AtArmed(a, FromArmed(a)) /\ FromRow(a) = FromActivate(a)
           /\ IF a.index = Absent THEN FromIndex(a) = FromRow(a) ELSE AtIndex(a, FromIndex(a))
           /\ FromActivate(a) = <<>> \/ AtActivate(a, FromActivate(a))
<1>1. /\ a.probe /\ a.model # NoModel
      /\ a.activate \/ a.index # NoIndex \/ a.model # Absent
      /\ a.activate \/ a.index # Absent \/ a.model # Absent
      /\ a.index \in Slots \cup {NoIndex, Absent}
  BY CommandAssumption DEF ProbingCommands
<1>2. Rests(a) \subseteq Seq(PhaseNames)
  BY RestsListed
<1>3. /\ FromRow(a) \in Seq(PhaseNames) /\ FromIndex(a) \in Seq(PhaseNames)
      /\ FromVerify(a) \in Seq(PhaseNames) /\ FromArmed(a) \in Seq(PhaseNames)
      /\ {"write index", "probe armed", "probe model"} \subseteq PhaseNames
  BY <1>2 DEF Rests, PhaseNames
<1>4. IF a.index = Absent THEN FromIndex(a) = FromRow(a) ELSE AtIndex(a, FromIndex(a))
  <2>1. CASE a.index = Absent
    BY <2>1 DEF FromIndex, Optional
  <2>2. CASE a.index # Absent
    <3>1. /\ Head(<<"write index">> \o FromRow(a)) = "write index"
          /\ Tail(<<"write index">> \o FromRow(a)) = FromRow(a)
      BY <1>3, PrependRead
    <3>2. FromIndex(a) = <<"write index">> \o FromRow(a)
      BY <2>2 DEF FromIndex, Optional
    <3> QED
      BY <2>2, <3>1, <3>2 DEF AtIndex
  <2> QED
    BY <2>1, <2>2
<1>5. CASE a.model # Absent
  <2>1. Named(a)
    BY <1>1, <1>5 DEF Named
  <2>2. AtStart(a, FromStart(a))
    <3>1. /\ Head(<<"probe model">> \o FromVerify(a)) = "probe model"
          /\ Tail(<<"probe model">> \o FromVerify(a)) = FromVerify(a)
      BY <1>3, PrependRead
    <3>2. FromStart(a) = <<"probe model">> \o FromVerify(a)
      BY <1>1, <2>1 DEF FromStart, Optional
    <3> QED
      BY <1>1, <2>1, <3>1, <3>2 DEF AtStart
  <2>3. FromArmed(a) = FromIndex(a)
    BY <2>1 DEF FromArmed, Optional
  <2> QED
    BY <1>4, <1>5, <2>2, <2>3, RestsRead
<1>6. CASE a.model = Absent
  <2>1. ~Named(a) /\ Touched(a)
    BY <1>1, <1>6 DEF Named, Touched
  <2>2. AtArmed(a, FromArmed(a))
    <3>1. /\ Head(<<"probe armed">> \o FromIndex(a)) = "probe armed"
          /\ Tail(<<"probe armed">> \o FromIndex(a)) = FromIndex(a)
      BY <1>3, PrependRead
    <3>2. FromArmed(a) = <<"probe armed">> \o FromIndex(a)
      BY <1>1, <2>1 DEF FromArmed, Optional
    <3> QED
      BY <1>1, <2>1, <3>1, <3>2 DEF AtArmed
  <2>3. FromStart(a) = FromVerify(a)
    BY <2>1 DEF FromStart, Optional
  <2> QED
    BY <1>4, <1>6, <2>1, <2>2, <2>3, RestsRead
<1> QED
  BY <1>5, <1>6

(* What is left when a command's step is over. *)
CommandPost == (Midway \/ Armed) /\ (Commanding => CommandArmed)

(* A command that exits, with what is armed probed. *)
LEMMA ExitsArmed == Exits /\ Armed' => CommandPost'
BY DEF Exits, CommandPost, Commanding, Running

(* Where the next phase finds the command. *)
LEMMA NextPhaseRead ==
    ASSUME CommandTyped(cli), NextPhase
    PROVE  \/ Tail(cli.todo) = <<>> /\ Exits
           \/ /\ Tail(cli.todo) # <<>> /\ Commanding'
              /\ cli'.args = cli.args /\ cli'.todo = Tail(cli.todo) /\ cli'.row = cli.row
              /\ cli'.index \in {cli.index, Unread}
<1>1. CASE Tail(cli.todo) = <<>>
  BY <1>1 DEF NextPhase
<1>2. CASE Tail(cli.todo) # <<>>
  <2> DEFINE rest == Tail(cli.todo)
             i == IF Head(rest) \in KeepsIndex THEN cli.index ELSE Unread
  <2>1. cli' = [cli EXCEPT !.todo = rest, !.index = i]
    BY <1>2 DEF NextPhase
  <2> HIDE DEF rest, i
  <2>2. /\ cli'.args = cli.args /\ cli'.todo = rest /\ cli'.row = cli.row /\ cli'.index = i
        /\ cli'.at = "phases" \/ cli'.at = cli.at
    BY <2>1 DEF CommandTyped
  <2>3. Commanding'
    BY <2>1 DEF CommandTyped, Commanding, Running, NotRunning
  <2> QED
    BY <1>2, <2>2, <2>3 DEF rest, i
<1> QED
  BY <1>1, <1>2

(* The reads of set_override. *)
LEMMA CommandReads ==
    ASSUME Typed, ProbingCommands, Commanding, CommandArmed, Midway \/ Armed,
           ResolveIndex \/ ReadRow
    PROVE  CommandPost'
<1>1. CommandTyped(cli) /\ cli.args \in Commands /\ cli.args.provider \in Providers
  <2>1. Phase(Head(cli.todo))
    BY DEF Phase, Commanding
  <2> QED
    BY <2>1, PhaseTyped DEF Typed, CommandTyped
<1>2. UNCHANGED configVars /\ UNCHANGED vouched
  BY DEF ResolveIndex, ReadRow, OnlyReads
<1>3. UNCHANGED <<provider, key_index, slot_config, vouched>>
  BY <1>2 DEF configVars
<1>4. Armed => Armed'
  BY <1>2, ArmedKept
<1>5. CASE ResolveIndex
  <2>1. cli' = [cli EXCEPT !.index = Target[2]]
    BY <1>5 DEF ResolveIndex, Target
  <2>2. /\ cli'.args = cli.args /\ cli'.todo = cli.todo /\ cli'.row = cli.row
        /\ cli'.index = Target[2] /\ cli'.at = cli.at
    BY <1>1, <2>1 DEF CommandTyped
  <2>3. Commanding'
    BY <2>2 DEF Commanding, Running, NotRunning
  <2>4. Target' = Target /\ NewRow' = NewRow /\ MidWrite' = MidWrite
    BY <1>3, <2>2 DEF Target, NewRow, MidWrite
  <2>5. CommandArmed'
    BY <1>3, <2>2, <2>4 DEF CommandArmed, Vouched
  <2>6. Midway => Midway'
    BY <1>3, <2>2, <2>3, <2>4 DEF Midway
  <2> QED
    BY <1>4, <2>5, <2>6 DEF CommandPost
<1>6. CASE ReadRow
  <2>1. Head(cli.todo) = "read row" /\ AtSome(cli.args, cli.todo) /\ cli.index # Unread
    BY <1>6, PhaseTyped DEF ReadRow, Typed
  <2>2. CLISlot = Target
    BY <2>1 DEF CommandArmed, CLISlot, Target
  <2>3. cli' = [cli EXCEPT !.row = slot_config[Target], !.todo = Tail(@)]
    BY <1>6, <2>2 DEF ReadRow
  <2>4. /\ cli'.args = cli.args /\ cli'.todo = Tail(cli.todo) /\ cli'.index = cli.index
        /\ cli'.row = slot_config[Target] /\ cli'.at = cli.at
    BY <1>1, <2>3 DEF CommandTyped
  <2>5. Commanding'
    BY <2>4 DEF Commanding, Running, NotRunning
  <2>6. /\ cli.args.model # Absent /\ Tail(cli.todo) = FromModel(cli.args)
        /\ Head(FromModel(cli.args)) = "write model"
    BY <2>1, RestsRead DEF AtSome, AtActivate, AtModel, AtRow, AtIndex, AtArmed, AtVerify, AtStart
  <2>7. Head(cli'.todo) = "write model" /\ MidWrite /\ MidWrite'
    BY <2>1, <2>4, <2>6 DEF MidWrite
  <2>8. Target' = Target /\ NewRow' = NewRow
    BY <1>3, <2>4 DEF Target, NewRow
  <2>9. CommandArmed'
    BY <1>3, <2>4, <2>6, <2>7, <2>8 DEF CommandArmed
  <2>10. Midway => Midway'
    BY <1>3, <2>4, <2>5, <2>7 DEF Midway
  <2> QED
    BY <1>4, <2>9, <2>10 DEF CommandPost
<1> QED
  BY <1>5, <1>6

(* A probe that accepts vouches for what the phases after it write. *)
LEMMA CommandProbes ==
    ASSUME Typed, ProbingCommands, Commanding, CommandArmed, Midway \/ Armed,
           ProbeModel \/ VerifySlot \/ ProbeArmed
    PROVE  CommandPost'
<1> DEFINE a == cli.args
           rest == Tail(cli.todo)
           head == Head(cli.todo)
<1>1. /\ CommandTyped(cli) /\ a \in Commands /\ ~a.clear /\ AtSome(a, cli.todo)
      /\ head \in {"probe model", "verify", "probe armed"}
      /\ a.provider \in Providers
  <2>1. Phase("probe model") \/ Phase("verify") \/ Phase("probe armed")
    BY DEF ProbeModel, VerifySlot, ProbeArmed
  <2> QED
    BY <2>1, PhaseTyped DEF Typed, CommandTyped
<1>2. UNCHANGED configVars /\ vouched \subseteq vouched'
  BY DEF ProbeModel, VerifySlot, ProbeArmed, Probes, ProbeAccepts, ProbeRefuses, Vouch, OnlyReads,
     configVars
<1>3. UNCHANGED <<provider, key_index, slot_config>>
  BY <1>2 DEF configVars
<1>4. Armed'
  BY <1>1, <1>2, ArmedKept DEF Midway, MidWrite
<1>5. CASE Exits
  BY <1>4, <1>5, ExitsArmed
<1>6. CASE NextPhase /\ rest = <<>>
  BY <1>1, <1>5, <1>6, NextPhaseRead
<1>7. CASE NextPhase /\ rest # <<>>
  <2>1. /\ Commanding' /\ cli'.args = a /\ cli'.todo = rest /\ cli'.row = cli.row
        /\ cli'.index \in {cli.index, Unread}
    BY <1>1, <1>7, NextPhaseRead
  <2>2. Target' = Target /\ NewRow' = NewRow
    BY <1>3, <2>1 DEF Target, NewRow
  <2>3. cli'.index \in {Unread, Target[2]}
    BY <2>1 DEF CommandArmed
  <2>4. a.index = Absent => IndexOrZero(key_index[a.provider]) = Target[2]
    BY DEF Target
  <2>5. CASE a.model # Absent
    <3>1. head \in {"probe model", "verify"}
      BY <1>1, <2>5, CommandAssumption DEF AtSome, AtActivate, AtModel, AtRow, AtIndex, AtArmed,
         AtVerify, AtStart, ProbingCommands, Named
    <3>2. rest = FromVerify(a) \/ rest = FromArmed(a)
      BY <1>1, <3>1 DEF AtSome, AtActivate, AtModel, AtRow, AtIndex, AtArmed, AtVerify, AtStart
    <3>3. /\ Head(rest) \in {"verify", "write index", "read row"}
          /\ Head(rest) = "read row" => a.index = Absent
      BY <1>1, <2>5, <3>2, ProbingPhases, RestsRead DEF AtVerify, AtIndex, AtRow
    <3>4. <<Target, NewRow>> \in vouched'
      <4>1. CASE VerifySlot
        <5>1. head = "verify"
          BY <4>1 DEF VerifySlot, Phase
        <5> QED
          BY <1>2, <2>5, <5>1 DEF CommandArmed
      <4>2. CASE ProbeModel
        <5>1. CLISlot = Target
          BY <4>2 DEF ProbeModel, CommandArmed, CLISlot, Target
        <5>2. ProbeAccepts(Target, Shell[Target], NewRow) \/ Exits
          BY <4>2, <5>1 DEF ProbeModel, Probes, NewRow
        <5> QED
          BY <1>7, <2>1, <5>2 DEF ProbeAccepts, Vouch, Exits, Commanding, Running
      <4>3. CASE ProbeArmed
        BY <3>1, <4>3 DEF ProbeArmed, Phase
      <4> QED
        BY <4>1, <4>2, <4>3
    <3>5. /\ Head(cli'.todo) \in {"verify", "write index", "read row"}
          /\ Head(cli'.todo) = "read row" => IndexOrZero(key_index'[cli'.args.provider]) = Target'[2]
          /\ cli'.args.model # Absent /\ cli'.index \in {Unread, Target'[2]}
          /\ <<Target', NewRow'>> \in vouched'
      BY <1>3, <2>1, <2>2, <2>3, <2>4, <2>5, <3>3, <3>4
    <3>6. CommandArmed'
      BY <3>5 DEF CommandArmed, MidWrite
    <3> QED
      BY <1>4, <3>6 DEF CommandPost
  <2>6. CASE a.model = Absent
    <3>1. CASE head = "probe armed"
      <4>1. ProbeArmed /\ cli.index # Unread
        BY <1>1, <3>1, CommandAssumption DEF ProbeModel, VerifySlot, Phase, CommandTyped, KeepsIndex
      <4>2. CLISlot = Target
        BY <4>1 DEF CommandArmed, CLISlot, Target
      <4>3. ProbeAccepts(Target, Shell[Target], slot_config[Target]) \/ Exits
        BY <4>1, <4>2 DEF ProbeArmed, Probes
      <4>4. Vouched(Target)'
        BY <1>3, <2>1, <2>2, <4>3 DEF ProbeAccepts, Vouch, Vouched, Exits, Commanding, Running
      <4>5. rest = FromIndex(a)
        BY <1>1, <3>1 DEF AtSome, AtActivate, AtModel, AtRow, AtIndex, AtArmed, AtVerify, AtStart
      <4>6. /\ Head(rest) \in {"write index", "activate"}
            /\ Head(rest) = "activate" => a.index = Absent
        BY <1>1, <1>7, <2>6, <4>5, ProbingPhases DEF AtIndex, AtActivate
      <4>7. CommandArmed'
        BY <1>3, <2>1, <2>2, <2>3, <2>4, <2>6, <4>4, <4>6 DEF CommandArmed, MidWrite
      <4> QED
        BY <1>4, <4>7 DEF CommandPost
    <3>2. CASE head = "verify"
      <4>1. Head(rest) = "probe armed"
        BY <1>1, <2>6, <3>2, ProbingPhases
           DEF AtSome, AtActivate, AtModel, AtRow, AtIndex, AtArmed, AtVerify, AtStart
      <4>2. CommandArmed'
        BY <2>1, <2>2, <2>3, <2>6, <4>1 DEF CommandArmed, MidWrite
      <4> QED
        BY <1>4, <4>2 DEF CommandPost
    <3>3. CASE head = "probe model"
      BY <1>1, <2>6, <3>3 DEF AtSome, AtActivate, AtModel, AtRow, AtIndex, AtArmed, AtVerify,
         AtStart, Named
    <3> QED
      BY <1>1, <3>1, <3>2, <3>3
  <2> QED
    BY <2>5, <2>6
<1>8. NextPhase \/ Exits
  BY DEF ProbeModel, VerifySlot, ProbeArmed, Probes
<1> QED
  BY <1>5, <1>6, <1>7, <1>8

(* The slot that a command goes for is a slot. *)
LEMMA TargetTyped ==
    ASSUME Typed, CommandTyped(cli)
    PROVE  /\ Target \in Keys /\ cli.args.provider \in Providers /\ cli.args \in Commands
           /\ ~cli.args.clear
           /\ cli.args.index \in Slots \cup {NoIndex, Absent}
<1>1. 0 \in Slots
  BY RenderAssumption DEF Slots
<1>2. /\ cli.args.provider \in Providers /\ cli.args \in Commands /\ ~cli.args.clear
      /\ cli.args.index \in Slots \cup {NoIndex, Absent}
  BY CommandAssumption DEF CommandTyped
<1>3. key_index[cli.args.provider] \in Slots \cup {NoIndex}
  BY <1>2 DEF Typed, OpsTypeOK, ConfigTypeOK
<1>4. Target[2] \in Slots
  BY <1>1, <1>2, <1>3 DEF Target, IndexOrZero
<1> QED
  BY <1>2, <1>4 DEF Target, Keys

(* Writing the index: either the slot it arms was probed, or the row that goes
   with it, which was, comes next. *)
LEMMA WriteIndexArms ==
    ASSUME Typed, ProbingCommands, Commanding, CommandArmed, Midway \/ Armed, WriteIndex
    PROVE  CommandPost'
<1> DEFINE a == cli.args
           rest == Tail(cli.todo)
<1>1. /\ CommandTyped(cli) /\ AtSome(a, cli.todo) /\ Head(cli.todo) = "write index"
      /\ a \in Commands /\ ~a.clear /\ a.provider \in Providers
  BY PhaseTyped, TargetTyped DEF Typed, WriteIndex
<1>2. /\ a.index # Absent /\ rest = FromRow(a) /\ a.index \in Slots \cup {NoIndex}
  BY <1>1, TargetTyped DEF AtSome, AtActivate, AtModel, AtRow, AtIndex, AtArmed, AtVerify, AtStart
<1>3. /\ key_index' = [key_index EXCEPT ![a.provider] = a.index]
      /\ UNCHANGED <<provider, slot_config, vouched>> /\ NextPhase
  BY DEF WriteIndex, SetKeyIndexOverride, OnlyConfig
<1>4. key_index \in [Providers -> Slots \cup {NoIndex}] /\ provider \in Providers \cup {NoProvider}
  BY DEF Typed, OpsTypeOK, ConfigTypeOK
<1>5. Target = <<a.provider, IndexOrZero(a.index)>> /\ key_index'[a.provider] = a.index
  BY <1>1, <1>2, <1>3, <1>4 DEF Target
<1>6. Armed
  BY <1>1 DEF Midway, MidWrite
<1>7. provider # a.provider \/ Vouched(Target) => Armed'
  <2>1. CASE provider # a.provider /\ provider # NoProvider
    <3>1. key_index'[provider] = key_index[provider]
      BY <1>1, <1>3, <1>4, <2>1
    <3>2. ArmedSlot' = ArmedSlot
      BY <1>3, <3>1 DEF ArmedSlot
    <3> QED
      BY <1>3, <1>6, <2>1, <3>2 DEF Armed, Vouched
  <2>2. CASE provider = a.provider /\ Vouched(Target)
    <3>1. ArmedSlot' = Target
      BY <1>3, <1>5, <2>2 DEF ArmedSlot
    <3> QED
      BY <1>3, <2>2, <3>1 DEF Armed, Vouched
  <2>3. CASE provider = NoProvider
    BY <1>3, <2>3 DEF Armed
  <2> QED
    BY <2>1, <2>2, <2>3
<1>8. CASE a.model = Absent
  <2>1. Vouched(Target) /\ rest = FromActivate(a)
    BY <1>1, <1>2, <1>8, ProbingPhases DEF CommandArmed
  <2>2. Armed'
    BY <1>7, <2>1
  <2>3. CASE rest = <<>>
    BY <1>1, <1>3, <2>2, <2>3, NextPhaseRead, ExitsArmed
  <2>4. CASE rest # <<>>
    <3>1. /\ cli'.args = a /\ cli'.todo = rest /\ cli'.index \in {cli.index, Unread}
      BY <1>1, <1>3, <2>4, NextPhaseRead
    <3>2. Head(rest) = "activate"
      BY <1>1, <2>1, <2>4, RestsRead DEF AtActivate
    <3>3. Target' = Target /\ Vouched(Target)'
      BY <1>2, <1>3, <1>5, <2>1, <3>1 DEF Target, Vouched
    <3>4. /\ Head(cli'.todo) = "activate" /\ cli'.index \in {Unread, Target'[2]}
          /\ IndexOrZero(key_index'[cli'.args.provider]) = Target'[2]
          /\ cli'.args.model = Absent
      BY <1>5, <1>8, <3>1, <3>2, <3>3 DEF CommandArmed
    <3>5. CommandArmed'
      BY <3>3, <3>4 DEF CommandArmed, MidWrite
    <3> QED
      BY <2>2, <3>5 DEF CommandPost
  <2> QED
    BY <2>3, <2>4
<1>9. CASE a.model # Absent
  <2>1. Head(rest) = "read row" /\ <<Target, NewRow>> \in vouched /\ rest # <<>>
    BY <1>1, <1>2, <1>9, RestsRead DEF CommandArmed, AtRow
  <2>2. /\ Commanding' /\ cli'.args = a /\ cli'.todo = rest /\ cli'.index \in {cli.index, Unread}
    BY <1>1, <1>3, <2>1, NextPhaseRead
  <2>3. Target' = Target /\ NewRow' = NewRow
    BY <1>2, <1>3, <1>5, <2>2 DEF Target, NewRow
  <2>4. /\ Head(cli'.todo) = "read row" /\ cli'.index \in {Unread, Target'[2]}
        /\ IndexOrZero(key_index'[cli'.args.provider]) = Target'[2]
        /\ cli'.args.model # Absent /\ <<Target', NewRow'>> \in vouched'
    <3>1. Head(cli'.todo) = "read row" /\ cli'.args.model # Absent
      BY <1>9, <2>1, <2>2
    <3>2. cli'.index \in {Unread, Target'[2]}
      BY <2>2, <2>3 DEF CommandArmed
    <3>3. IndexOrZero(key_index'[cli'.args.provider]) = Target'[2]
      BY <1>5, <2>2, <2>3
    <3>4. <<Target', NewRow'>> \in vouched'
      BY <1>3, <2>1, <2>3
    <3> QED
      BY <3>1, <3>2, <3>3, <3>4
  <2>5. CommandArmed'
    BY <2>4 DEF CommandArmed, MidWrite
  <2>6. provider = a.provider => Midway'
    BY <1>3, <2>2, <2>4 DEF Midway, MidWrite
  <2> QED
    BY <1>7, <2>5, <2>6 DEF CommandPost
<1> QED
  BY <1>8, <1>9

(* Writing the row that was probed with the model. *)
LEMMA WriteModelArms ==
    ASSUME Typed, ProbingCommands, Commanding, CommandArmed, Midway \/ Armed, WriteModel
    PROVE  CommandPost'
<1> DEFINE a == cli.args
           rest == Tail(cli.todo)
<1>1. /\ CommandTyped(cli) /\ AtSome(a, cli.todo) /\ Head(cli.todo) = "write model"
      /\ a \in Commands /\ ~a.clear /\ a.provider \in Providers /\ Target \in Keys
  BY PhaseTyped, TargetTyped DEF Typed, WriteModel
<1>2. a.model # Absent /\ rest = FromActivate(a) /\ cli.index # Unread
  BY <1>1, CommandAssumption DEF AtSome, AtActivate, AtModel, AtRow, AtIndex, AtArmed, AtVerify,
     AtStart, CommandTyped, KeepsIndex
<1>3. /\ cli.row = slot_config[Target] /\ <<Target, NewRow>> \in vouched /\ CLISlot = Target
      /\ IndexOrZero(key_index[a.provider]) = Target[2]
  BY <1>1, <1>2 DEF CommandArmed, MidWrite, CLISlot, Target
<1>4. SetSlotConfig(Target, NewRow) /\ UNCHANGED vouched /\ NextPhase
  BY <1>3 DEF WriteModel, NewRow, OnlyConfig
<1>5. /\ slot_config' = [slot_config EXCEPT ![Target] = NewRow]
      /\ UNCHANGED <<provider, key_index>>
  BY <1>4 DEF SetSlotConfig
<1>6. slot_config \in [Keys -> SlotRow \cup {NoRow}]
  BY DEF Typed, OpsTypeOK, ConfigTypeOK
<1>7. <<Target, slot_config'[Target]>> \in vouched'
  BY <1>1, <1>3, <1>4, <1>5, <1>6
<1>8. Armed'
  <2>1. CASE provider = a.provider
    <3>1. ArmedSlot' = Target
      BY <1>3, <1>5, <2>1 DEF ArmedSlot, Target
    <3> QED
      BY <1>7, <3>1 DEF Armed, Vouched
  <2>2. CASE provider # a.provider
    <3>1. Armed
      BY <2>2 DEF Midway
    <3> QED
      BY <1>3, <1>4, <3>1, VouchedWrite
  <2> QED
    BY <2>1, <2>2
<1>9. CASE rest = <<>>
  BY <1>1, <1>4, <1>8, <1>9, NextPhaseRead, ExitsArmed
<1>10. CASE rest # <<>>
  <2>1. /\ cli'.args = a /\ cli'.todo = rest /\ cli'.index \in {cli.index, Unread}
    BY <1>1, <1>4, <1>10, NextPhaseRead
  <2>2. Head(rest) = "activate"
    BY <1>2, <1>10, RestsRead DEF AtActivate
  <2>3. Target' = Target
    BY <1>5, <2>1 DEF Target
  <2>4. /\ Head(cli'.todo) = "activate" /\ cli'.index \in {Unread, Target'[2]}
        /\ IndexOrZero(key_index'[cli'.args.provider]) = Target'[2]
        /\ Vouched(Target)'
    BY <1>3, <1>5, <1>7, <2>1, <2>2, <2>3 DEF CommandArmed, Vouched
  <2>5. CommandArmed'
    BY <2>4 DEF CommandArmed, MidWrite
  <2> QED
    BY <1>8, <2>5 DEF CommandPost
<1> QED
  BY <1>9, <1>10

(* Every step of set_override, when it is not cut off between its writes. *)
LEMMA OverrideArms ==
    ASSUME Typed, ProbingCommands, Running, CommandPost, troubles' = troubles \/ ~MidModel,
           SetOverride
    PROVE  CommandPost'
<1>1. CASE ClearProvider
  <2>1. provider' = NoProvider /\ Exits
    BY <1>1 DEF ClearProvider, SetProviderOverride
  <2> QED
    BY <2>1, ExitsArmed DEF Armed
<1>2. CASE CommandDies
  <2>1. troubles' = troubles + 1 /\ Exits /\ OnlyReads
    BY <1>2 DEF CommandDies, Trouble
  <2>2. ~MidModel
    BY <2>1 DEF Typed, OpsTypeOK
  <2>3. ~Midway
    <3> SUFFICES ASSUME Midway PROVE FALSE
      OBVIOUS
    <3>1. Phase(Head(cli.todo)) /\ Head(cli.todo) \in {"read row", "write model"}
      BY DEF Midway, Commanding, MidWrite, Phase
    <3>2. AtSome(cli.args, cli.todo)
      BY <3>1, PhaseTyped DEF Typed
    <3>3. cli.args.model # Absent
      BY <3>1, <3>2 DEF AtSome, AtActivate, AtModel, AtRow, AtIndex, AtArmed, AtVerify, AtStart
    <3> QED
      BY <2>2, <3>3 DEF Midway, Commanding, MidModel
  <2>4. Armed'
    BY <2>1, <2>3, ArmedKept DEF CommandPost, OnlyReads
  <2> QED
    BY <2>1, <2>4, ExitsArmed
<1>3. CASE Activate
  <2>1. Phase("activate") /\ Commanding /\ SetProviderOverride(cli.args.provider) /\ Exits
        /\ UNCHANGED vouched
    BY <1>3 DEF Activate, Phase, Commanding, OnlyConfig
  <2>2. Vouched(Target) /\ IndexOrZero(key_index[cli.args.provider]) = Target[2]
    BY <2>1 DEF CommandPost, CommandArmed, Phase
  <2>3. ArmedSlot' = Target
    BY <2>1, <2>2 DEF SetProviderOverride, ArmedSlot, Target
  <2>4. Armed'
    BY <2>1, <2>2, <2>3 DEF Armed, Vouched, SetProviderOverride
  <2> QED
    BY <2>1, <2>4, ExitsArmed
<1>4. CASE ResolveIndex \/ ReadRow \/ ProbeModel \/ VerifySlot \/ ProbeArmed \/ WriteIndex \/ WriteModel
  <2>1. Commanding
    BY <1>4 DEF ResolveIndex, ReadRow, ProbeModel, VerifySlot, ProbeArmed, WriteIndex, WriteModel,
       Phase, Commanding
  <2>2. CommandArmed /\ (Midway \/ Armed)
    BY <2>1 DEF CommandPost
  <2> QED
    BY <1>4, <2>1, <2>2, CommandReads, CommandProbes, WriteIndexArms, WriteModelArms
<1> QED
  BY <1>1, <1>2, <1>3, <1>4 DEF SetOverride

(* A command that starts has probed nothing yet, and writes nothing before. *)
LEMMA CommandStartsArmed ==
    ASSUME Typed, ProbingCommands, Armed, NEW args \in Commands, Command(args)
    PROVE  CommandPost'
<1>1. UNCHANGED configVars /\ UNCHANGED vouched /\ Armed'
  BY ArmedKept DEF Command, OnlyReads
<1>2. CASE args.clear
  BY <1>1, <1>2 DEF Command, CommandPost, Commanding
<1>3. CASE ~args.clear
  <2>1. cli' = [at |-> "phases", args |-> args, todo |-> Phases(args),
                index |-> Unread, row |-> NoRow, found |-> provider]
    BY <1>3 DEF Command
  <2>2. cli'.args = args /\ cli'.todo = FromStart(args) /\ cli'.index = Unread
    BY <2>1, PhasesRead
  <2>3. IF args.model = Absent THEN Head(FromStart(args)) = "verify"
        ELSE Head(FromStart(args)) = "probe model"
    BY <1>3, ProbingPhases DEF AtStart, AtVerify
  <2>4. CommandArmed'
    BY <2>2, <2>3 DEF CommandArmed, MidWrite
  <2> QED
    BY <1>1, <2>4 DEF CommandPost
<1> QED
  BY <1>2, <1>3

-----------------------------------------------------------------------------
(* Everything together. *)

(* Whatever leaves the configuration, the handlers and the command alone. *)
LEMMA SoundKept ==
    ASSUME Sound, UNCHANGED <<configVars, vouched, req, cli>>, (InProgress <= 1)'
    PROVE  Sound'
<1>1. UNCHANGED <<provider, key_index, slot_config>>
  BY DEF configVars
<1>2. /\ Armed => Armed'
      /\ MidPatch => MidPatch'
      /\ Midway => Midway'
  BY <1>1 DEF Armed, Vouched, ArmedSlot, MidPatch, Midway, At, Busy, Commanding, Running, MidWrite
<1>3. \A r \in Requests : Busy(r)' => HandlerArmed(req[r])'
  <2> SUFFICES ASSUME NEW r \in Requests, Busy(r) PROVE HandlerArmed(req[r])'
    BY DEF Busy
  <2>1. HandlerArmed(req[r])
    BY DEF Sound
  <2>2. ConfigArmed(req[r]) => ConfigArmed(req[r])'
    <3>1. \A f, targets, refused :
            ProbedSoFar(f, targets, refused) => ProbedSoFar(f, targets, refused)'
      <4> SUFFICES ASSUME NEW f, NEW targets, NEW refused, ProbedSoFar(f, targets, refused)
                   PROVE  ProbedSoFar(f, targets, refused)'
        OBVIOUS
      <4>1. WouldArm(f)' = WouldArm(f)
        BY <1>1 DEF WouldArm, ArmingTargets, EffectiveIndex
      <4>2. \A slot : Vouched(slot)' <=> Vouched(slot)
        BY <1>1 DEF Vouched
      <4> QED
        BY <4>1, <4>2 DEF ProbedSoFar
    <3>2. \A f, tasks : Writing(f, tasks) => Writing(f, tasks)'
      BY <1>1 DEF Writing, FinalSlot, FinalProvider, FinalIndex, Vouched
    <3> QED
      BY <1>1, <3>1, <3>2 DEF ConfigArmed
  <2>3. DeleteArmed(req[r]) => DeleteArmed(req[r])'
    BY <1>1 DEF DeleteArmed, ArmedSlot, Overridden
  <2> QED
    BY <2>1, <2>2, <2>3 DEF HandlerArmed, SlotArmed, ApplyArmed
<1>4. CommandArmed => CommandArmed'
  BY <1>1 DEF CommandArmed, Target, NewRow, MidWrite, Vouched
<1> QED
  BY <1>2, <1>3, <1>4 DEF Sound, Unsettled, Commanding, Running

(* Whatever ends every handler, none of them between its writes. *)
LEMMA SoundWithoutHandlers ==
    ASSUME Sound, UNCHANGED <<configVars, vouched, cli>>, ~MidPatch,
           req' = [r \in Requests |-> Idle], (InProgress <= 1)'
    PROVE  Sound'
<1>1. UNCHANGED <<provider, key_index, slot_config>>
  BY DEF configVars
<1>2. /\ Armed => Armed'
      /\ Midway => Midway'
      /\ CommandArmed => CommandArmed'
      /\ Commanding' => Commanding
  BY <1>1 DEF Armed, Vouched, ArmedSlot, Midway, Commanding, Running, MidWrite, CommandArmed,
     Target, NewRow
<1> QED
  BY <1>2 DEF Sound, Unsettled, Busy

(* The handlers, one of which arrives or goes on. *)
LEMMA SoundWithHandler ==
    ASSUME Typed, Typed', NEW r \in Requests, \A s \in Requests \ {r} : req'[s] = Idle,
           ~Running', Post(r)', (InProgress <= 1)'
    PROVE  Sound'
<1>1. \A s \in Requests : Busy(s)' => s = r
  BY DEF Busy
<1> QED
  BY <1>1 DEF Sound, Post, Unsettled, Commanding

(* The command, which starts or goes on. *)
LEMMA SoundWithCommand ==
    ASSUME CommandPost', \A s \in Requests : ~Busy(s)', (InProgress <= 1)'
    PROVE  Sound'
BY DEF Sound, CommandPost, Unsettled

(* A handler's step is that of its own request. *)
OwnRequest(r) == \E q : Becomes(r, q)

(* So are the ways a handler goes on. *)
LEMMA ProceedsOwn ==
    /\ \A r : Answers(r) => OwnRequest(r)
    /\ \A r, at : GoesTo(r, at) => OwnRequest(r)
    /\ \A r, at, todo : Proceeds(r, at, todo) => OwnRequest(r)
    /\ \A r, targets, refused : Probing(r, targets, refused) => OwnRequest(r)
    /\ \A r : NextTask(r) => OwnRequest(r)
    /\ \A r, todo, applied : AfterDeletion(r, todo, applied) => OwnRequest(r)
    /\ \A r, applied : Finishes(r, applied) => OwnRequest(r)
<1>1. \A r : Answers(r) => OwnRequest(r)
  BY DEF Answers, OwnRequest
<1>2. \A r, at : GoesTo(r, at) => OwnRequest(r)
  BY DEF GoesTo, OwnRequest
<1>3. \A r, at, todo : Proceeds(r, at, todo) => OwnRequest(r)
  BY <1>1 DEF Proceeds, OwnRequest
<1>4. \A r, targets, refused : Probing(r, targets, refused) => OwnRequest(r)
  BY <1>3 DEF Probing, OwnRequest
<1>5. \A r : NextTask(r) => OwnRequest(r)
  BY <1>3 DEF NextTask
<1>6. \A r, todo, applied : AfterDeletion(r, todo, applied) => OwnRequest(r)
  BY DEF AfterDeletion, OwnRequest
<1>7. \A r, applied : Finishes(r, applied) => OwnRequest(r)
  BY <1>1, <1>2 DEF Finishes
<1> QED
  BY <1>1, <1>2, <1>3, <1>4, <1>5, <1>6, <1>7

(* Nobody's step is another's. *)
LEMMA HandlingOwn ==
    ASSUME NEW r, Handling(r)
    PROVE  OwnRequest(r)
<1>1. CASE ApplyConfigPatch(r)
  <2>1. ReadStoredIndexes(r) \/ ReadGroup(r) => OwnRequest(r)
    BY DEF ReadStoredIndexes, ReadGroup, OwnRequest
  <2>2. ReadCurrentProvider(r) => OwnRequest(r)
    BY ProceedsOwn DEF ReadCurrentProvider
  <2>3. ProbeTarget(r) => OwnRequest(r)
    BY ProceedsOwn DEF ProbeTarget
  <2>4. ApplyProvider(r) \/ ApplyKeyIndex(r) \/ StoreGroup(r) \/ TaskFails(r) => OwnRequest(r)
    BY ProceedsOwn DEF ApplyProvider, ApplyKeyIndex, StoreGroup, TaskFails
  <2> QED
    BY <1>1, <2>1, <2>2, <2>3, <2>4 DEF ApplyConfigPatch
<1>2. CASE ApplySlotPatch(r) \/ ApplyCredential(r)
  <2>1. MergeAndProbe(r) => OwnRequest(r)
    BY ProceedsOwn DEF MergeAndProbe, OwnRequest
  <2>2. WriteSlotRow(r) \/ PushCredential(r) \/ SaveApplied(r) => OwnRequest(r)
    BY ProceedsOwn DEF WriteSlotRow, PushCredential, SaveApplied
  <2> QED
    BY <1>2, <2>1, <2>2 DEF ApplySlotPatch, ApplyCredential
<1>3. CASE CascadeDelete(r)
  <2>1. ReadIndexes(r) \/ ReadProvider(r) => OwnRequest(r)
    BY DEF ReadIndexes, ReadProvider, OwnRequest
  <2>2. CheckDependents(r) => OwnRequest(r)
    BY ProceedsOwn DEF CheckDependents, OwnRequest
  <2>3. DeleteVariable(r) => OwnRequest(r)
    BY ProceedsOwn DEF DeleteVariable, OwnRequest
  <2>4. ClearDependent(r) => OwnRequest(r)
    BY ProceedsOwn DEF ClearDependent, OwnRequest
  <2> QED
    BY <1>3, <2>1, <2>2, <2>3, <2>4 DEF CascadeDelete
<1>4. CASE ApplyRenderPatch(r)
  <2>1. ReadOverrides(r) => OwnRequest(r)
    BY DEF ReadOverrides, OwnRequest
  <2>2. CheckSpare(r) \/ DeleteSpare(r) \/ SetsDone(r) => OwnRequest(r)
    BY ProceedsOwn DEF CheckSpare, DeleteSpare, SetsDone
  <2>3. SetVariable(r) => OwnRequest(r)
    BY ProceedsOwn DEF SetVariable, OwnRequest
  <2> QED
    BY <1>4, <2>1, <2>2, <2>3 DEF ApplyRenderPatch
<1>5. CASE HandlerDeploys(r) \/ ReadFails(r) \/ HandlerCut(r)
  BY <1>5, ProceedsOwn DEF HandlerDeploys, ReadFails, HandlerCut
<1> QED
  BY <1>1, <1>2, <1>3, <1>4, <1>5 DEF Handling

(* A request that arrives arms nothing: a PATCH of /config without a provider or
   an index has nothing to probe, Apply comes with its probe, the others start
   with reads. *)
LEMMA ArrivalsArm ==
    ASSUME Typed, NEW r \in Requests, Arrivals(r)
    PROVE  UNCHANGED <<configVars, req, vouched>> \/ (OwnRequest(r) /\ Busy(r)' /\ (Armed => Post(r)'))
<1>1. DOMAIN req = Requests
  BY DEF Typed, RequestsTyped
<1>2. ASSUME NEW body, NEW at, at # "tasks", Arrives(r, body, at),
             body.kind = "config" => at = "indexes",
             body.kind = "slot" => at = "row",
             body.kind = "delete" => at = "indexes",
             body.kind # "apply"
      PROVE  OwnRequest(r) /\ Busy(r)' /\ (Armed => Post(r)')
  <2>1. req'[r].at = at /\ req'[r].body = body /\ DOMAIN req'[r] = HandlerFields
    BY <1>1, <1>2 DEF Arrives, Becomes, Arrival, HandlerFields
  <2>2. (Armed => Armed') /\ OwnRequest(r)
    BY <1>2, ArmedKept DEF Arrives, OnlyReads, OwnRequest
  <2>3. HandlerArmed(req[r])'
    BY <1>2, <2>1 DEF HandlerArmed, ConfigArmed, SlotArmed, DeleteArmed
  <2>4. Busy(r)'
    BY <2>1 DEF Busy, Idle, HandlerFields
  <2> QED
    BY <2>2, <2>3, <2>4 DEF Post
<1>3. ASSUME NEW body \in SlotPatches, SlotPatch(r, body)
      PROVE  OwnRequest(r) /\ Busy(r)' /\ (Armed => Post(r)')
  BY <1>2, <1>3, BodiesAssumption DEF SlotPatch
<1>4. ASSUME NEW body \in Deletes, DeleteKey(r, body)
      PROVE  OwnRequest(r) /\ Busy(r)' /\ (Armed => Post(r)')
  BY <1>2, <1>4, BodiesAssumption DEF DeleteKey
<1>5. ASSUME NEW body \in Applies, Apply(r, body)
      PROVE  OwnRequest(r) /\ Busy(r)' /\ (Armed => Post(r)')
  <2>1. vouched' = vouched \cup {<<body.slot, body.row>>} /\ UNCHANGED configVars
    BY <1>5 DEF Apply, ProbeAccepts, Vouch, configVars
  <2>2. Armed => Armed'
    BY <2>1, ArmedKept
  <2>3. /\ req'[r].at = "push" /\ req'[r].body = body /\ body.kind = "apply"
        /\ DOMAIN req'[r] = HandlerFields
    BY <1>1, <1>5, BodiesAssumption DEF Apply, Becomes, Arrival, HandlerFields
  <2>4. HandlerArmed(req[r])'
    BY <2>1, <2>3 DEF HandlerArmed, ApplyArmed
  <2>5. Busy(r)' /\ OwnRequest(r)
    BY <1>5, <2>3 DEF Busy, Idle, HandlerFields, Apply, OwnRequest
  <2> QED
    BY <2>2, <2>4, <2>5 DEF Post
<1>6. ASSUME NEW body \in RenderPatches, RenderPatch(r, body)
      PROVE  OwnRequest(r) /\ Busy(r)' /\ (Armed => Post(r)')
  <2>1. CASE body.deletes # <<>>
    BY <1>2, <1>6, <2>1, BodiesAssumption DEF RenderPatch
  <2>2. CASE body.deletes = <<>>
    <3> DEFINE next == [Arrival(body, "sets") EXCEPT !.todo = body.sets]
    <3>1. next.body = body /\ DOMAIN next = HandlerFields /\ body.kind = "render"
      BY BodiesAssumption, <1>6 DEF Arrival, HandlerFields
    <3>2. Becomes(r, next) /\ OnlyReads
      BY <1>6, <2>2 DEF RenderPatch
    <3> HIDE DEF next
    <3>3. req'[r] = next
      BY <1>1, <3>2 DEF Becomes
    <3>4. HandlerArmed(req[r])' /\ Busy(r)'
      BY <3>1, <3>3 DEF HandlerArmed, Busy, Idle, HandlerFields
    <3> QED
      BY <3>2, <3>4, ArmedKept DEF Post, OwnRequest, OnlyReads
  <2> QED
    BY <2>1, <2>2
<1>7. ASSUME NEW body \in ConfigPatches, ConfigPatch(r, body)
      PROVE  UNCHANGED <<configVars, req, vouched>> \/ (OwnRequest(r) /\ Busy(r)' /\ (Armed => Post(r)'))
  <2> DEFINE f == body.fields
             todo == Tasks(f, {})
  <2>1. body.kind = "config" /\ ConfigFields(f)
    BY <1>7, BodiesAssumption
  <2>2. CASE DOMAIN IndexField(f) # {} \/ ProviderChanging(f)
    BY <1>2, <1>7, <2>1, <2>2 DEF ConfigPatch
  <2>3. CASE DOMAIN IndexField(f) = {} /\ ~ProviderChanging(f) /\ todo = <<>>
    BY <1>7, <2>3 DEF ConfigPatch, OnlyReads
  <2>4. CASE DOMAIN IndexField(f) = {} /\ ~ProviderChanging(f) /\ todo # <<>>
    <3> DEFINE next == [Arrival(body, "tasks") EXCEPT !.todo = todo]
    <3>1. /\ next.body = body /\ next.at = "tasks" /\ next.todo = todo
          /\ DOMAIN next = HandlerFields
      BY DEF Arrival, HandlerFields
    <3>2. Becomes(r, next) /\ OnlyReads
      BY <1>7, <2>4 DEF ConfigPatch
    <3> HIDE DEF next
    <3>3. req'[r] = next
      BY <1>1, <3>2 DEF Becomes
    <3>4. UNCHANGED <<provider, key_index, slot_config, vouched>>
      BY <3>2 DEF OnlyReads, configVars
    <3>5. ProbedSoFar(f, {}, {})
      <4>1. WouldArm(f) = {}
        BY <2>4 DEF WouldArm, ArmingTargets
      <4> QED
        BY <4>1 DEF ProbedSoFar
    <3>6. Armed => Writing(f, TasksOf(f) \ {})
      BY <2>1, <3>5, ProbesSettle DEF SettledByProbes
    <3>7. Armed => Writing(f, Listed(todo))
      BY <2>1, <3>6, TasksRange
    <3>8. PICK fields, tasks : fields = f /\ tasks = todo
      OBVIOUS
    <3>9. Armed => Writing(fields, Listed(tasks))'
      BY <3>4, <3>7, <3>8 DEF Writing, FinalSlot, FinalProvider, FinalIndex, Vouched
    <3>10. (Armed => HandlerArmed(req[r])') /\ Busy(r)' /\ At(r, "config", "tasks")'
      BY <2>1, <3>1, <3>3, <3>8, <3>9 DEF HandlerArmed, ConfigArmed, At, Busy, Idle, HandlerFields
    <3> QED
      BY <3>2, <3>10 DEF Post, OwnRequest, MidPatch
  <2> QED
    BY <2>2, <2>3, <2>4
<1> QED
  BY <1>3, <1>4, <1>5, <1>6, <1>7 DEF Arrivals

(* --sync-env writes a row only where there was none, so never the armed one. *)
LEMMA SyncArms ==
    ASSUME Typed, Sync
    PROVE  \/ UNCHANGED <<configVars, vouched, req, cli>>
           \/ /\ UNCHANGED <<vouched, req, cli>> /\ SyncBusy
              /\ Armed => Armed'
<1>1. CASE SeedSlotZero
  <2> DEFINE slot == <<sync.provider, 0>>
  <2>1. CASE slot_config[slot] = NoRow /\ SetSlotConfig(slot, LocalRow[sync.provider])
             /\ UNCHANGED <<vouched, req, cli>>
    <3>1. ASSUME Armed, provider # NoProvider
          PROVE  ArmedSlot # slot
      <4>1. <<ArmedSlot, slot_config[ArmedSlot]>> \in Keys \X SlotRow
        BY <3>1 DEF Armed, Vouched, Typed, OpsTypeOK, ConfigTypeOK
      <4> QED
        BY <2>1, <4>1, ConfigAssumption
    <3>2. /\ UNCHANGED <<provider, key_index>>
          /\ slot_config' = [slot_config EXCEPT ![slot] = LocalRow[sync.provider]]
      BY <2>1 DEF SetSlotConfig
    <3>3. ArmedSlot' = ArmedSlot
      BY <3>2 DEF ArmedSlot
    <3>4. Armed /\ provider # NoProvider => slot_config'[ArmedSlot] = slot_config[ArmedSlot]
      BY <3>1, <3>2
    <3>5. Armed => Armed'
      BY <2>1, <3>2, <3>3, <3>4 DEF Armed, Vouched
    <3>6. SyncBusy
      BY <1>1 DEF SeedSlotZero, SyncAt, SyncBusy
    <3> QED
      BY <2>1, <3>5, <3>6
  <2>2. CASE UNCHANGED <<configVars, vouched, req, cli>>
    BY <2>2
  <2> QED
    BY <1>1, <2>1, <2>2 DEF SeedSlotZero, OnlyConfig, SyncFails, SyncOnlyReads, OnlyReads
<1>2. CASE ResolveProvider \/ SyncConfigDB \/ CompareEnv
  BY <1>2 DEF ResolveProvider, SyncConfigDB, CompareEnv, SyncFails, SyncOnlyReads, OnlyReads,
     configVars
<1>3. CASE PushNext \/ WaitForInFlight \/ TriggerAndPoll \/ PollDeploy \/ SyncCut
  BY <1>3 DEF PushNext, WaitForInFlight, TriggerAndPoll, PollDeploy, SyncCut, SyncFails,
     SyncOnlyReads, OnlyReads, OnlyRender
<1> QED
  BY <1>1, <1>2, <1>3 DEF Sync

(* A behaviour starts with nothing going on, and with what the boot gate asks for. *)
LEMMA InitArms == GatedStarts /\ OpsInit => ArmedInv
<1> SUFFICES ASSUME GatedStarts, OpsInit PROVE Sound
  BY DEF ArmedInv
<1>1. \A r \in Requests : ~Busy(r)
  BY DEF OpsInit, TabInit, Busy
<1>2. ~Running /\ ~SyncBusy
  BY DEF OpsInit, Running, SyncBusy, SyncNever
<1>3. InProgress <= 1
  <2>1. Writers = {}
    BY <1>1 DEF Writers
  <2>2. Cardinality(Writers) = 0
    BY <2>1, FS_EmptySet
  <2> QED
    BY <1>2, <2>2 DEF InProgress
<1>4. Armed
  <2> SUFFICES ASSUME provider # NoProvider PROVE Vouched(ArmedSlot)
    BY DEF Armed
  <2>1. PICK start \in Starts : /\ provider = start.provider /\ key_index = start.key_index
                                /\ slot_config = start.slot_config
    BY DEF OpsInit
  <2>2. ArmedRow # NoRow
    BY <2>1 DEF GatedStarts, ArmedRow, ArmedSlot
  <2>3. provider \in Providers
    BY <2>1, OpsAssumption
  <2>4. vouched = {<<ArmedSlot, ArmedRow>>}
    BY <2>2, <2>3 DEF OpsInit, BootGate
  <2> QED
    BY <2>4 DEF Vouched, ArmedRow
<1> QED
  BY <1>1, <1>2, <1>3, <1>4 DEF Sound, Unsettled, Commanding

(* What is known of a step that does not tear anything: one thing goes on before
   it and after it, and no trouble comes between two writes. *)
Untorn ==
    /\ Sound /\ (InProgress <= 1)'
    /\ troubles' = troubles \/ (~MidPatch /\ ~MidModel)

(* That is a step that leaves torn false. *)
LEMMA UntornStep == ArmedInv /\ History /\ ~torn' => Untorn
BY NotTorn DEF ArmedInv, Untorn

(* Whoever acts is then alone, before and after. *)
LEMMA UntornAlone == Untorn => OnlyOne /\ OnlyOne'
BY Alone, AloneNext DEF Untorn, Sound

(* A handler's step leaves the other requests alone. *)
LEMMA OthersKept ==
    ASSUME Typed, NEW r \in Requests, OwnRequest(r)
    PROVE  \A s \in Requests \ {r} : req'[s] = req[s]
<1>1. DOMAIN req = Requests
  BY DEF Typed, RequestsTyped
<1> QED
  BY <1>1 DEF OwnRequest, Becomes

(* While r is busy, before its step or after it, nobody else is. *)
LEMMA OthersIdle ==
    ASSUME Typed, Untorn, NEW r \in Requests, OwnRequest(r), UNCHANGED cli,
           Busy(r) \/ Busy(r)'
    PROVE  /\ \A s \in Requests \ {r} : req[s] = Idle /\ req'[s] = Idle
           /\ ~Running /\ ~Running'
<1>1. OnlyOne /\ OnlyOne'
  BY UntornAlone
<1>2. \A s \in Requests \ {r} : req'[s] = req[s]
  BY OthersKept
<1>3. Running' <=> Running
  BY DEF Running
<1> QED
  BY <1>1, <1>2, <1>3 DEF OnlyOne, Busy

(* A request arrives. *)
LEMMA DashboardArrivesArms ==
    ASSUME Typed, Typed', Untorn, DashboardArrives
    PROVE  Sound'
<1>1. PICK r \in Requests : Arrivals(r) /\ UNCHANGED cli
  BY DEF DashboardArrives, Tab
<1>2. CASE UNCHANGED <<configVars, req, vouched>>
  BY <1>1, <1>2, SoundKept DEF Untorn
<1>3. CASE OwnRequest(r) /\ Busy(r)' /\ (Armed => Post(r)')
  <2>1. ~Busy(r)
    BY <1>1 DEF Arrivals, ConfigPatch, SlotPatch, Apply, DeleteKey, RenderPatch, Arrives
  <2>2. /\ \A s \in Requests \ {r} : req[s] = Idle /\ req'[s] = Idle
        /\ ~Running /\ ~Running'
    BY <1>1, <1>3, OthersIdle
  <2>3. ~Unsettled
    BY <2>1, <2>2 DEF Unsettled, MidPatch, Midway, Commanding, At, Busy
  <2> QED
    BY <1>3, <2>2, <2>3, SoundWithHandler DEF Untorn, Sound
<1> QED
  BY <1>1, <1>2, <1>3, ArrivalsArm

(* Only a request in progress is handled. *)
LEMMA HandlingBusy == \A r : Handling(r) => Busy(r)
<1>1. \A r : ApplyConfigPatch(r) => Busy(r)
  BY DEF ApplyConfigPatch, ReadStoredIndexes, ReadCurrentProvider, ProbeTarget,
     ApplyProvider, ApplyKeyIndex, ReadGroup, StoreGroup, TaskFails, At
<1>2. \A r : ApplySlotPatch(r) \/ ApplyCredential(r) => Busy(r)
  BY DEF ApplySlotPatch, MergeAndProbe, WriteSlotRow, ApplyCredential, PushCredential,
     SaveApplied, At
<1>3. \A r : CascadeDelete(r) => Busy(r)
  BY DEF CascadeDelete, ReadIndexes, ReadProvider, CheckDependents, DeleteVariable,
     ClearDependent, At
<1>4. \A r : ApplyRenderPatch(r) => Busy(r)
  BY DEF ApplyRenderPatch, ReadOverrides, CheckSpare, DeleteSpare, SetVariable, SetsDone, At
<1>5. \A r : HandlerDeploys(r) \/ ReadFails(r) \/ HandlerCut(r) => Busy(r)
  BY DEF HandlerDeploys, ReadFails, HandlerCut
<1> QED
  BY <1>1, <1>2, <1>3, <1>4, <1>5 DEF Handling

(* A handler goes on. *)
LEMMA DashboardHandlesArms ==
    ASSUME Typed, Typed', Untorn, DashboardHandles
    PROVE  Sound'
<1>1. PICK r \in Requests : Handling(r) /\ UNCHANGED cli
  BY DEF DashboardHandles, Tab
<1>2. Busy(r) /\ OwnRequest(r)
  BY <1>1, HandlingBusy, HandlingOwn
<1>3. /\ \A s \in Requests \ {r} : req[s] = Idle /\ req'[s] = Idle
      /\ ~Running /\ ~Running'
  BY <1>1, <1>2, OthersIdle
<1>4. MidPatch <=> At(r, "config", "tasks") \/ At(r, "config", "group")
  BY <1>3 DEF MidPatch, At, Busy
<1>5. ~Midway
  BY <1>3 DEF Midway, Commanding
<1>6. Settled(r) /\ HandlerArmed(req[r])
  BY <1>2, <1>4, <1>5 DEF Settled, Untorn, Sound, Unsettled
<1>7. Post(r)'
  BY <1>1, <1>4, <1>6, HandlingArms DEF Untorn
<1> QED
  BY <1>3, <1>7, SoundWithHandler DEF Untorn

(* set_override starts. *)
LEMMA CommandStartsArms ==
    ASSUME Typed, ProbingCommands, Untorn, CommandStarts
    PROVE  Sound'
<1>1. PICK args \in Commands : Command(args)
  BY DEF CommandStarts
<1>2. ~Running /\ Running' /\ UNCHANGED req
  BY <1>1 DEF Command, Running, NotRunning
<1>3. \A s \in Requests : ~Busy(s) /\ ~Busy(s)'
  BY <1>2, UntornAlone DEF OnlyOne, Busy
<1>4. Armed
  BY <1>2, <1>3 DEF Untorn, Sound, Unsettled, MidPatch, Midway, Commanding, At
<1> QED
  BY <1>1, <1>3, <1>4, CommandStartsArmed, SoundWithCommand DEF Untorn

(* set_override goes on. *)
LEMMA CommandRunsArms ==
    ASSUME Typed, ProbingCommands, Untorn, CommandRuns
    PROVE  Sound'
<1>1. SetOverride
  BY DEF CommandRuns
<1>2. Running /\ UNCHANGED req
  BY <1>1 DEF SetOverride, ResolveIndex, ProbeModel, VerifySlot, ProbeArmed, WriteIndex, ReadRow,
     WriteModel, Activate, ClearProvider, CommandDies, Phase, Probes
<1>3. \A s \in Requests : ~Busy(s) /\ ~Busy(s)'
  BY <1>2, UntornAlone DEF OnlyOne, Busy
<1>4. CommandPost
  BY <1>3 DEF Untorn, Sound, Unsettled, MidPatch, At, CommandPost
<1> QED
  BY <1>1, <1>2, <1>3, <1>4, OverrideArms, SoundWithCommand DEF Untorn

(* --sync-env goes on. *)
LEMMA SyncRunsArms ==
    ASSUME Typed, Untorn, SyncRuns
    PROVE  Sound'
<1>1. Sync
  BY DEF SyncRuns
<1>2. CASE UNCHANGED <<configVars, vouched, req, cli>>
  BY <1>2, SoundKept DEF Untorn
<1>3. CASE UNCHANGED <<vouched, req, cli>> /\ SyncBusy /\ (Armed => Armed')
  <2>1. ~Running /\ ~Running'
    BY <1>3, UntornAlone DEF OnlyOne, Running
  <2>2. \A s \in Requests : ~Busy(s) /\ ~Busy(s)'
    BY <1>3, UntornAlone DEF OnlyOne, Busy
  <2>3. Armed
    BY <2>1, <2>2 DEF Untorn, Sound, Unsettled, MidPatch, Midway, Commanding, At
  <2> QED
    BY <1>3, <2>1, <2>2, <2>3 DEF Untorn, Sound, Commanding
<1> QED
  BY <1>1, <1>2, <1>3, SyncArms

(* The container is torn down, with the handlers it runs. *)
LEMMA CutsArm ==
    ASSUME Typed, Untorn, Crash \/ NewProcessServes
    PROVE  Sound'
<1>1. UNCHANGED <<configVars, vouched, cli>> /\ req' = [r \in Requests |-> Idle]
  BY DEF Crash, NewProcessServes, Platform
<1>2. CASE UNCHANGED req
  BY <1>1, <1>2, SoundKept DEF Untorn
<1>3. CASE Trouble("cut")
  <2>1. troubles' # troubles
    BY <1>3 DEF Trouble, Typed, OpsTypeOK
  <2> QED
    BY <1>1, <2>1, SoundWithoutHandlers DEF Untorn
<1> QED
  BY <1>1, <1>2, <1>3 DEF Crash, NewProcessServes

(* Every step. *)
LEMMA NextArms ==
    ASSUME ProbingCommands, Typed, Typed', ArmedInv, [OpsNext]_opsVars
    PROVE  ArmedInv'
<1> SUFFICES ASSUME ~torn' PROVE Sound'
  BY DEF ArmedInv
<1>1. CASE UNCHANGED opsVars
  <2>1. UNCHANGED <<configVars, vouched, req, cli, sync, torn>>
    BY <1>1 DEF opsVars
  <2>2. Sound /\ (InProgress <= 1)'
    BY <2>1 DEF ArmedInv, Sound, InProgress, Writers, Busy, Running, SyncBusy
  <2> QED
    BY <2>1, <2>2, SoundKept
<1>2. CASE OpsNext
  <2>1. History
    BY <1>2 DEF OpsNext, DashboardArrives, DashboardHandles, CommandStarts, CommandRuns, SyncStarts,
       SyncRuns, Boot, Crash, NewProcessServes, NewProcessFails, Resolves, Starting, Going
  <2>2. Untorn
    BY <2>1, UntornStep
  <2>3. CASE SyncStarts \/ Boot \/ NewProcessFails \/ Resolves
    <3>1. UNCHANGED <<configVars, vouched, req, cli>>
      BY <2>3 DEF SyncStarts, SyncEnv, SyncOnlyReads, OnlyReads, Boot, NewProcessFails, Resolves,
         Platform
    <3> QED
      BY <2>2, <3>1, SoundKept DEF Untorn
  <2> QED
    BY <1>2, <2>2, <2>3, DashboardArrivesArms, DashboardHandlesArms, CommandStartsArms,
       CommandRunsArms, SyncRunsArms, CutsArm DEF OpsNext
<1> QED
  BY <1>1, <1>2

(* Once the command is between its writes, it is so for its model. *)
LEMMA MidwayWritesModel == Typed /\ Midway => MidModel
<1> SUFFICES ASSUME Typed, Midway PROVE MidModel
  OBVIOUS
<1>1. Running /\ cli.at = "phases" /\ cli.args.provider = provider
  BY DEF Midway, Commanding
<1>2. Head(cli.todo) = "read row" \/ Head(cli.todo) = "write model"
  BY DEF Midway, MidWrite
<1>3. Phase(Head(cli.todo)) /\ CLITyped
  BY <1>1 DEF Phase, Typed
<1>4. AtSome(cli.args, cli.todo)
  BY <1>3, PhaseTyped
<1>5. cli.args.model # Absent
  BY <1>2, <1>4 DEF AtSome, AtActivate, AtModel, AtRow, AtIndex, AtArmed, AtVerify, AtStart
<1> QED
  BY <1>1, <1>5 DEF MidModel

(* ArmedIsProbed: whoever armed or edited the slot that reviews run with, in
   whatever sequence, with refused probes and failing calls, its row was
   accepted by a probe of that very slot. *)
THEOREM ArmedWasProbed ==
    ASSUME GatedStarts, ProbingCommands
    PROVE  OpsSpec => []ArmedIsProbed
<1>1. OpsInit => Typed /\ ArmedInv
  BY InitTyped, InitArms
<1>2. Typed /\ ArmedInv /\ [OpsNext]_opsVars => (Typed /\ ArmedInv)'
  BY NextTyped, NextArms
<1>3. Typed /\ ArmedInv => ArmedIsProbed
  BY MidwayWritesModel DEF ArmedInv, Sound, Unsettled, Armed, Vouched, ArmedIsProbed, ArmedRow
<1> QED
  BY <1>1, <1>2, <1>3, PTL DEF OpsSpec
=============================================================================
