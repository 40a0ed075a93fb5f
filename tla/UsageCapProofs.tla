--------------------------- MODULE UsageCapProofs ---------------------------
(***************************************************************************)
(* The usage cap holds and lifts, for every cap, every length of a day,    *)
(* every reset time, any number of slots, tickets, pushes and mishaps, and *)
(* whatever calls consume.                                                 *)
(***************************************************************************)
EXTENDS UsageCap, TLAPS

-----------------------------------------------------------------------------
(* Instants and windows. *)

(* The window of an instant is one that rows are summed over. *)
LEMMA WindowType ==
    ASSUME NEW t \in Instants, t.day <= LastDay
    PROVE  /\ Window(t) \in Windows /\ Window(t) \in Int
           /\ NextReset(t) \in Instants
BY CapAssumption DEF Instants, Window, Windows, NextReset

(* Windows follow each other as instants do. *)
LEMMA WindowMonotone ==
    ASSUME NEW t \in Instants, NEW u \in Instants, ~Before(u, t)
    PROVE  Window(t) <= Window(u)
BY CapAssumption DEF Instants, Window, Before

LEMMA BeforeTransitive ==
    ASSUME NEW t \in Instants, NEW u \in Instants, NEW v \in Instants,
           ~Before(u, t), ~Before(v, u)
    PROVE  ~Before(v, t)
BY CapAssumption DEF Instants, Before

(* The clock only goes forward, and stops on the last day. *)
LEMMA TickAdvances ==
    ASSUME now \in Instants, now.day <= LastDay, Tick
    PROVE  now' \in Instants /\ now'.day <= LastDay /\ ~Before(now', now)
BY CapAssumption DEF Tick, Instants, Before

-----------------------------------------------------------------------------
(* The attempt. *)

(* A specialist's step leaves an attempt, with the selection it began with. *)
LEMMA WorkType ==
    ASSUME PipelineTypeOK, NEW s \in Specialists, NEW w \in Work, Does(s, w)
    PROVE  PipelineTypeOK' /\ attempt'.at = attempt.at /\ attempt'.cached = attempt.cached
BY DEF PipelineTypeOK, Does

LEMMA StartType ==
    ASSUME NEW c \in Selections \cup {NoSelection}, StartAttempt(c)
    PROVE  PipelineTypeOK' /\ attempt'.at = "gather" /\ attempt'.cached = c
BY DEF StartAttempt, PipelineTypeOK, NotStarted, Work, Stages

LEMMA EndType ==
    ASSUME EndAttempt
    PROVE  PipelineTypeOK' /\ attempt'.at = "idle"
BY DEF EndAttempt, NoAttempt, PipelineTypeOK, NotStarted, Work, Stages

LEMMA TokensType ==
    ASSUME PipelineTypeOK
    PROVE  TotalTokens \in Nat
BY DEF PipelineTypeOK, TotalTokens, Tokens, Work, Specialists

(* What a call that answers makes of a specialist's work. *)
LEMMA AnswerType ==
    ASSUME NEW w \in Work, NEW n \in Nat
    PROVE  /\ Answered(w, n) \in Work
           /\ [w EXCEPT !.at = "repair", !.spent = n] \in Work
           /\ [w EXCEPT !.at = "failed", !.spent = @ + n, !.tokens = w.spent + n] \in Work
<1>1. w.spent + n \in Nat
  BY DEF Work
<1> QED
  BY <1>1 DEF Answered, Work, Settled

(* Each way in which a specialist's step changes the attempt. *)
LEMMA SpecialistType ==
    ASSUME CapTypeOK, NEW s \in Specialists,
           SpecialistStarts(s) \/ SpecialistAnswers(s) \/ SpecialistErrs(s)
    PROVE  PipelineTypeOK' /\ attempt'.at = attempt.at /\ attempt'.cached = attempt.cached
<1> SUFFICES \E w \in Work : Does(s, w)
  BY WorkType DEF CapTypeOK
<1> PipelineTypeOK /\ attempt.work[s] \in Work /\ step.cached \in Selections \cup {NoSelection}
  BY DEF CapTypeOK, PipelineTypeOK
<1>1. CASE SpecialistStarts(s)
  BY <1>1 DEF SpecialistStarts, GetProvider, NotStarted, Work, Settled
<1>2. CASE SpecialistAnswers(s)
  <2>1. PICK n \in Amounts : CallAnswers(s, n)
    BY <1>2 DEF SpecialistAnswers
  <2>2. n \in Nat
    BY PipelineAssumption
  <2>3. Answered(attempt.work[s], n) \in Work
    BY <2>2, AnswerType
  <2> QED
    BY <2>1, <2>3 DEF CallAnswers
<1>3. CASE SpecialistErrs(s)
  <2>1. CASE \E n \in Amounts : OutputInvalid(s, n)
    <3>1. PICK n \in Amounts : OutputInvalid(s, n)
      BY <2>1
    <3>2. n \in Nat
      BY PipelineAssumption
    <3>3. /\ [attempt.work[s] EXCEPT !.at = "repair", !.spent = n] \in Work
          /\ [attempt.work[s] EXCEPT !.at = "failed", !.spent = @ + n,
                                     !.tokens = attempt.work[s].spent + n] \in Work
      BY <3>2, AnswerType
    <3> QED
      BY <3>1, <3>3 DEF OutputInvalid
  <2>2. CASE GetProviderRaises(s) \/ CallRaises(s) \/ CallLimited(s)
    BY <2>2 DEF GetProviderRaises, CallRaises, CallLimited, NotStarted, Work, Settled
  <2> QED
    BY <1>3, <2>1, <2>2 DEF SpecialistErrs
<1> QED
  BY <1>1, <1>2, <1>3

-----------------------------------------------------------------------------
(* The inductive invariant.  UsageBounded is not inductive: a review records  *)
(* under the instant it ends, which may be in a later window than the one the *)
(* gate looked at, and under the selection the attempt began with.            *)

(* The clock has not gone back behind a claim. *)
ClaimedBefore == step.now.day <= LastDay /\ ~Before(now, step.now)

(* While a ticket is claimed no rows appear: what is recorded by then lies in
   the window of the claim or before. *)
LastRows == IF step.at = "idle" THEN now ELSE step.now
NoLaterRows ==
    \A c \in Selections, w \in Windows : w > Window(LastRows) => usage[c][w] = Unused

(* What the gate looked at is what the attempt runs with. *)
AttemptAsGated ==
    /\ step.at \in {"gate", "review"} => step.cached \in Selections
    /\ attempt.at = "gather" => step.at = "review" /\ attempt.cached = step.cached

(* ...and it has not changed since. *)
GateChecked ==
    step.at = "review" /\ ~unchecked =>
        usage[step.cached][Window(step.now)].total < TokenCap

(* The instant a capped ticket comes due. *)
CappedUntil ==
    \A t \in Tickets : ticket[t].status = "capped" =>
        ticket[t].not_before = [day |-> ticket[t].window + 1, time |-> ResetTime]

CapInv ==
    /\ CapTypeOK /\ ClaimedBefore /\ NoLaterRows /\ AttemptAsGated
    /\ GateChecked /\ UsageBounded /\ CappedUntil

LEMMA InitCap == CapInit => CapInv
<1> SUFFICES ASSUME CapInit PROVE CapInv
  OBVIOUS
<1> USE CapAssumption, PipelineAssumption
<1>1. now \in Instants /\ now = [day |-> 0, time |-> 0]
  BY DEF CapInit, Instants
<1>2. PipelineTypeOK /\ attempt.at = "idle"
  BY DEF CapInit, PipelineInit, NoAttempt, PipelineTypeOK, NotStarted, Work, Stages
<1>3. ticket \in [Tickets -> [status : {"none", "pending", "running", "capped", "done"},
                             not_before : Instants, window : Windows]]
  BY <1>1 DEF CapInit, Windows
<1>4. usage \in [Selections -> [Windows -> Sum]]
  BY DEF CapInit, Sum, Unused
<1>9. step \in [at : {"idle", "refresh", "gate", "review"}, ticket : Tickets \cup {NoTicket},
                now : Instants, cached : Selections \cup {NoSelection}, cap : BOOLEAN]
  BY <1>1 DEF CapInit, Idle
<1>10. now.day <= LastDay
  BY <1>1
<1>12. armed \in Armable /\ unchecked \in BOOLEAN
  BY Zenon DEF CapInit
<1>11. troubles \in 0 .. MaxCapTroubles /\ pushes \in 0 .. MaxPushes
  BY DEF CapInit
<1>5. CapTypeOK
  BY <1>1, <1>2, <1>3, <1>4, <1>9, <1>10, <1>11, <1>12, Zenon DEF CapTypeOK
<1>6. ClaimedBefore
  BY <1>1 DEF CapInit, ClaimedBefore, Idle, Before
<1>7. NoLaterRows /\ UsageBounded
  BY DEF CapInit, NoLaterRows, UsageBounded, Unused
<1>8. AttemptAsGated /\ GateChecked /\ CappedUntil
  BY <1>2 DEF CapInit, AttemptAsGated, GateChecked, CappedUntil, Idle
<1> QED
  BY <1>5, <1>6, <1>7, <1>8 DEF CapInv

(* Recording keeps a table a table. *)
LEMMA RecordedType ==
    ASSUME CapTypeOK, NEW c \in Selections, NEW n \in Nat
    PROVE  /\ Recorded(c, now, n) \in [Selections -> [Windows -> Sum]]
           /\ \A d \in Selections, w \in Windows :
                Recorded(c, now, n)[d][w] =
                    IF d = c /\ w = Window(now)
                    THEN [total |-> usage[d][w].total + n, last |-> n] ELSE usage[d][w]
<1>1. Window(now) \in Windows
  BY WindowType DEF CapTypeOK
<1>2. usage \in [Selections -> [Windows -> Sum]] /\ usage[c][Window(now)].total + n \in Nat
  BY <1>1 DEF CapTypeOK, Sum
<1>3. [total |-> usage[c][Window(now)].total + n, last |-> n] \in Sum
  BY <1>2 DEF Sum
<1> QED
  BY <1>1, <1>2, <1>3 DEF Recorded

-----------------------------------------------------------------------------
(* What a step does to one part of the state. *)

TicketTypeOK ==
    ticket \in [Tickets -> [status : {"none", "pending", "running", "capped", "done"},
                            not_before : Instants, window : Windows]]
StepTypeOK ==
    step \in [at : {"idle", "refresh", "gate", "review"}, ticket : Tickets \cup {NoTicket},
              now : Instants, cached : Selections \cup {NoSelection}, cap : BOOLEAN]
BoundsTypeOK == troubles \in 0 .. MaxCapTroubles /\ pushes \in 0 .. MaxPushes

(* The type of the state is that of its parts. *)
LEMMA CapTypeParts ==
    CapTypeOK <=>
        /\ PipelineTypeOK /\ now \in Instants /\ now.day <= LastDay
        /\ TicketTypeOK /\ armed \in Armable /\ StepTypeOK
        /\ usage \in [Selections -> [Windows -> Sum]]
        /\ BoundsTypeOK /\ unchecked \in BOOLEAN
BY Zenon DEF CapTypeOK, TicketTypeOK, StepTypeOK, BoundsTypeOK

(* A ticket that changes its status, to another than capped. *)
LEMMA StatusChanges ==
    ASSUME TicketTypeOK, CappedUntil, NEW t, NEW status \in {"pending", "running", "done"},
           Is(t, status)
    PROVE  TicketTypeOK' /\ CappedUntil'
<1>1. TicketTypeOK'
  BY DEF TicketTypeOK, Is
<1>2. ASSUME NEW u \in Tickets, ticket'[u].status = "capped"
      PROVE  ticket'[u] = ticket[u]
  BY <1>2 DEF TicketTypeOK, Is
<1> QED
  BY <1>1, <1>2 DEF CappedUntil

(* A mishap, or none. *)
LEMMA BoundsType ==
    ASSUME BoundsTypeOK, UNCHANGED pushes, NEW kind, CapTrouble(kind) \/ AllWell
    PROVE  BoundsTypeOK'
BY CapAssumption DEF BoundsTypeOK, CapTrouble, AllWell

(* The idle dispatcher. *)
LEMMA IdleType ==
    ASSUME CapTypeOK, step' = Idle, UNCHANGED now
    PROVE  StepTypeOK' /\ ClaimedBefore'
<1>1. [day |-> 0, time |-> 0] \in Instants
  BY CapAssumption DEF Instants
<1>2. StepTypeOK'
  BY <1>1 DEF StepTypeOK, Idle
<1>3. step'.now.day = 0 /\ step'.now.time = 0
  BY DEF Idle
<1>4. ~Before(now, step'.now)
  BY <1>3 DEF CapTypeOK, Instants, Before
<1> QED
  BY <1>2, <1>3, <1>4, CapAssumption DEF ClaimedBefore, Before

(* Rows recorded by the instant of the claim are recorded by now. *)
LEMMA RowsByNow ==
    ASSUME CapInv
    PROVE  \A c \in Selections, w \in Windows : w > Window(now) => usage[c][w] = Unused
<1> SUFFICES ASSUME NEW c \in Selections, NEW w \in Windows, w > Window(now)
             PROVE  usage[c][w] = Unused
  OBVIOUS
<1>1. now \in Instants /\ step.now \in Instants /\ now.day <= LastDay /\ step.now.day <= LastDay
  BY DEF CapInv, CapTypeOK, ClaimedBefore
<1>2. Window(step.now) <= Window(now)
  BY <1>1, WindowMonotone DEF CapInv, ClaimedBefore
<1>3. Window(step.now) \in Int /\ Window(now) \in Int /\ w \in Int
  BY <1>1, WindowType, CapAssumption DEF Windows
<1>4. w > Window(LastRows)
  BY <1>2, <1>3 DEF LastRows
<1> QED
  BY <1>4 DEF CapInv, NoLaterRows

(* The dispatcher becomes idle without a row. *)
LEMMA EndsWithoutRow ==
    ASSUME CapInv, step' = Idle, UNCHANGED <<now, usage, unchecked>>, attempt'.at # "gather"
    PROVE  /\ StepTypeOK' /\ ClaimedBefore' /\ NoLaterRows' /\ AttemptAsGated'
           /\ GateChecked' /\ UsageBounded'
<1>1. StepTypeOK' /\ ClaimedBefore'
  BY IdleType DEF CapInv
<1>2. step'.at = "idle"
  BY DEF Idle
<1>3. NoLaterRows'
  BY <1>2, RowsByNow DEF NoLaterRows, LastRows
<1>4. AttemptAsGated' /\ GateChecked'
  BY <1>2 DEF AttemptAsGated, GateChecked
<1>5. UsageBounded'
  BY DEF CapInv, UsageBounded
<1> QED
  BY <1>1, <1>3, <1>4, <1>5

(* Nothing the invariant says of the dispatcher or the rows is touched. *)
LEMMA NoRowNoStep ==
    ASSUME CapInv, UNCHANGED <<now, step, usage, unchecked>>,
           attempt'.at = attempt.at, attempt'.cached = attempt.cached
    PROVE  /\ StepTypeOK' /\ ClaimedBefore' /\ NoLaterRows' /\ AttemptAsGated'
           /\ GateChecked' /\ UsageBounded'
<1>1. StepTypeOK' /\ ClaimedBefore'
  BY CapTypeParts DEF CapInv, StepTypeOK, ClaimedBefore
<1>2. NoLaterRows'
  BY DEF CapInv, NoLaterRows, LastRows
<1>3. AttemptAsGated' /\ GateChecked'
  BY DEF CapInv, AttemptAsGated, GateChecked
<1>4. UsageBounded'
  BY DEF CapInv, UsageBounded
<1> QED
  BY <1>1, <1>2, <1>3, <1>4

-----------------------------------------------------------------------------
(* Each action preserves the invariant. *)

LEMMA TickPreserves == CapInv /\ Tick => CapInv'
<1> SUFFICES ASSUME CapInv, Tick PROVE CapInv'
  OBVIOUS
<1>1. now' \in Instants /\ now'.day <= LastDay /\ ~Before(now', now)
  BY TickAdvances DEF CapInv, CapTypeOK
<1>2. CapTypeOK'
  <2>1. UNCHANGED <<ticket, armed, step, usage, troubles, pushes, unchecked, attempt>>
    BY DEF Tick
  <2> QED
    BY <1>1, <2>1 DEF CapInv, CapTypeOK, PipelineTypeOK
<1>3. ClaimedBefore'
  <2>1. step' = step /\ step.now \in Instants /\ now \in Instants
    BY DEF Tick, CapInv, CapTypeOK
  <2> QED
    BY <1>1, <2>1, BeforeTransitive DEF CapInv, ClaimedBefore
<1>4. NoLaterRows'
  <2> SUFFICES ASSUME NEW c \in Selections, NEW w \in Windows, w > Window(LastRows')
               PROVE  usage[c][w] = Unused
    BY DEF NoLaterRows, Tick, LastRows
  <2>1. CASE step.at = "idle"
    <3>1. now \in Instants /\ now.day <= LastDay
      BY DEF CapInv, CapTypeOK
    <3>2. Window(now) <= Window(now')
      BY <1>1, <3>1, WindowMonotone
    <3>3. Window(now) \in Int /\ Window(now') \in Int /\ w \in Int
      BY <1>1, <3>1, WindowType, CapAssumption DEF Windows
    <3>4. w > Window(now)
      BY <2>1, <3>2, <3>3 DEF LastRows, Tick
    <3> QED
      BY <3>4, RowsByNow
  <2>2. CASE step.at # "idle"
    BY <2>2 DEF CapInv, NoLaterRows, LastRows, Tick
  <2> QED
    BY <2>1, <2>2
<1>5. AttemptAsGated' /\ GateChecked' /\ UsageBounded' /\ CappedUntil'
  BY DEF CapInv, Tick, AttemptAsGated, GateChecked, UsageBounded, CappedUntil
<1> QED
  BY <1>2, <1>3, <1>4, <1>5 DEF CapInv

LEMMA PushPreserves == ASSUME NEW t \in Tickets PROVE CapInv /\ Push(t) => CapInv'
<1> SUFFICES ASSUME CapInv, Push(t) PROVE CapInv'
  OBVIOUS
<1>1. TicketTypeOK' /\ CappedUntil'
  BY StatusChanges, CapTypeParts DEF CapInv, Push
<1>2. /\ StepTypeOK' /\ ClaimedBefore' /\ NoLaterRows' /\ AttemptAsGated'
      /\ GateChecked' /\ UsageBounded'
  BY NoRowNoStep DEF Push
<1>3. BoundsTypeOK'
  BY CapTypeParts, CapAssumption DEF CapInv, Push, BoundsTypeOK
<1>4. UNCHANGED <<now, armed, usage, unchecked, attempt>>
  BY DEF Push
<1>5. PipelineTypeOK'
  BY <1>4, CapTypeParts DEF CapInv, PipelineTypeOK
<1>6. CapTypeOK'
  BY <1>1, <1>2, <1>3, <1>4, <1>5, CapTypeParts DEF CapInv, CapTypeOK, TicketTypeOK, StepTypeOK, BoundsTypeOK
<1> QED
  BY <1>1, <1>2, <1>6 DEF CapInv

LEMMA ArmPreserves == ASSUME NEW c \in Armable PROVE CapInv /\ Arm(c) => CapInv'
<1> SUFFICES ASSUME CapInv, Arm(c) PROVE CapInv'
  OBVIOUS
<1>1. UNCHANGED <<now, ticket, step, usage, troubles, pushes, unchecked, attempt>> /\ armed' = c
  BY DEF Arm
<1>2. /\ StepTypeOK' /\ ClaimedBefore' /\ NoLaterRows' /\ AttemptAsGated'
      /\ GateChecked' /\ UsageBounded'
  BY <1>1, NoRowNoStep
<1>3. CappedUntil'
  BY <1>1 DEF CapInv, CappedUntil
<1>4. CapTypeOK'
  BY <1>1 DEF CapInv, CapTypeOK, PipelineTypeOK
<1> QED
  BY <1>2, <1>3, <1>4 DEF CapInv

LEMMA ClaimPreserves == ASSUME NEW t \in Tickets PROVE CapInv /\ Claim(t) => CapInv'
<1> SUFFICES ASSUME CapInv, Claim(t) PROVE CapInv'
  OBVIOUS
<1>1. /\ UNCHANGED <<now, armed, usage, troubles, pushes, unchecked, attempt>>
      /\ step.at = "idle" /\ step' = [Idle EXCEPT !.at = "refresh", !.ticket = t, !.now = now]
  BY DEF Claim, World, AllWell
<1>2. TicketTypeOK' /\ CappedUntil'
  BY StatusChanges, CapTypeParts DEF CapInv, Claim
<1>3. now \in Instants /\ now.day <= LastDay
  BY DEF CapInv, CapTypeOK
<1>4. step'.at = "refresh" /\ step'.now = now /\ StepTypeOK'
  BY <1>1, <1>3 DEF Idle, StepTypeOK
<1>5. CapTypeOK'
  BY <1>1, <1>2, <1>4 DEF CapInv, CapTypeOK, PipelineTypeOK, TicketTypeOK, StepTypeOK
<1>6. ClaimedBefore'
  BY <1>1, <1>3, <1>4 DEF ClaimedBefore, Before, Instants
<1>7. NoLaterRows'
  BY <1>1, <1>4 DEF CapInv, NoLaterRows, LastRows
<1>8. AttemptAsGated' /\ GateChecked'
  BY <1>1, <1>4 DEF CapInv, AttemptAsGated, GateChecked
<1>9. UsageBounded'
  BY <1>1 DEF CapInv, UsageBounded
<1> QED
  BY <1>2, <1>5, <1>6, <1>7, <1>8, <1>9 DEF CapInv

LEMMA RefreshPreserves == CapInv /\ RefreshCaps => CapInv'
<1> SUFFICES ASSUME CapInv, RefreshCaps PROVE CapInv'
  OBVIOUS
<1>1. UNCHANGED <<now, ticket, armed, usage, pushes, unchecked, attempt>> /\ step.at = "refresh"
  BY DEF RefreshCaps, World
<1>2. CapTrouble("database") \/ AllWell
  BY DEF RefreshCaps
<1>3. BoundsTypeOK'
  BY <1>1, <1>2, BoundsType, CapTypeParts DEF CapInv
<1>4. /\ StepTypeOK /\ armed \in Selections
      /\ \/ step' = [step EXCEPT !.at = "gate", !.cached = armed, !.cap = TRUE]
         \/ step' = [step EXCEPT !.at = "gate", !.cached = armed]
  BY CapTypeParts, CapAssumption DEF CapInv, RefreshCaps
<1>5. StepTypeOK' /\ step'.at = "gate" /\ step'.now = step.now /\ step'.cached \in Selections
  BY <1>4 DEF StepTypeOK
<1>6. CapTypeOK'
  BY <1>1, <1>3, <1>5 DEF CapInv, CapTypeOK, PipelineTypeOK, StepTypeOK, BoundsTypeOK
<1>7. ClaimedBefore' /\ NoLaterRows'
  BY <1>1, <1>5 DEF CapInv, ClaimedBefore, NoLaterRows, LastRows
<1>8. AttemptAsGated' /\ GateChecked'
  BY <1>1, <1>5 DEF CapInv, AttemptAsGated, GateChecked
<1>9. UsageBounded' /\ CappedUntil'
  BY <1>1 DEF CapInv, UsageBounded, CappedUntil
<1> QED
  BY <1>6, <1>7, <1>8, <1>9 DEF CapInv

LEMMA DeferPreserves == CapInv /\ DeferUsageCapped => CapInv'
<1> SUFFICES ASSUME CapInv, DeferUsageCapped PROVE CapInv'
  OBVIOUS
<1>1. /\ UNCHANGED <<now, armed, usage, pushes, troubles, unchecked, attempt>>
      /\ step.at = "gate" /\ step' = Idle
  BY DEF DeferUsageCapped, World, AllWell
<1>2. step.now \in Instants /\ step.now.day <= LastDay
  BY DEF CapInv, CapTypeOK, ClaimedBefore
<1>3. attempt.at # "gather"
  BY <1>1 DEF CapInv, AttemptAsGated
<1>4. /\ StepTypeOK' /\ ClaimedBefore' /\ NoLaterRows' /\ AttemptAsGated'
      /\ GateChecked' /\ UsageBounded'
  BY <1>1, <1>3, EndsWithoutRow
<1> DEFINE capped == [status |-> "capped", not_before |-> NextReset(step.now),
                      window |-> Window(step.now)]
<1>5. ticket' = [ticket EXCEPT ![step.ticket] = capped]
  BY DEF DeferUsageCapped
<1>6. TicketTypeOK'
  BY <1>2, <1>5, WindowType, CapTypeParts DEF CapInv, TicketTypeOK
<1>7. CappedUntil'
  <2>1. NextReset(step.now) = [day |-> Window(step.now) + 1, time |-> ResetTime]
    BY DEF NextReset
  <2>2. ASSUME NEW u \in Tickets
        PROVE  ticket'[u] = capped \/ ticket'[u] = ticket[u]
    BY <1>5, CapTypeParts DEF CapInv, TicketTypeOK
  <2> QED
    BY <2>1, <2>2 DEF CapInv, CappedUntil
<1>8. CapTypeOK'
  BY <1>1, <1>4, <1>6 DEF CapInv, CapTypeOK, PipelineTypeOK, StepTypeOK, TicketTypeOK
<1> QED
  BY <1>4, <1>7, <1>8 DEF CapInv

LEMMA PassPreserves == CapInv /\ PassGate => CapInv'
<1> SUFFICES ASSUME CapInv, PassGate PROVE CapInv'
  OBVIOUS
<1>1. /\ UNCHANGED <<now, armed, pushes, ticket, usage>> /\ step.at = "gate"
      /\ step' = [step EXCEPT !.at = "review"] /\ StartAttempt(step.cached)
  BY DEF PassGate, World, Reviews
<1>2. \/ /\ ~Spent(KeyUsage(step.cached, step.now))
         /\ UNCHANGED unchecked
      \/ unchecked' = TRUE
  BY Zenon DEF PassGate
<1>3. CapTrouble("database") \/ AllWell
  BY DEF PassGate
<1>4. BoundsTypeOK'
  BY <1>1, <1>3, BoundsType, CapTypeParts DEF CapInv
<1>5. step.cached \in Selections /\ StepTypeOK
  BY <1>1, CapTypeParts DEF CapInv, AttemptAsGated
<1>6. /\ StepTypeOK' /\ step'.at = "review" /\ step'.now = step.now
      /\ step'.cached = step.cached
  BY <1>1, <1>5 DEF StepTypeOK
<1>7. PipelineTypeOK' /\ attempt'.at = "gather" /\ attempt'.cached = step.cached
  BY <1>1, <1>5, StartType
<1>8. unchecked' \in BOOLEAN
  <2>1. unchecked \in BOOLEAN
    BY CapTypeParts, Zenon DEF CapInv
  <2> QED
    BY <1>2, <2>1, Zenon
<1>9. TicketTypeOK' /\ CappedUntil'
  BY <1>1, CapTypeParts DEF CapInv, TicketTypeOK, CappedUntil
<1>10. CapTypeOK'
  <2>1. /\ now' \in Instants /\ now'.day <= LastDay /\ armed' \in Armable
        /\ usage' \in [Selections -> [Windows -> Sum]]
    BY <1>1, CapTypeParts DEF CapInv
  <2> QED
    BY <1>4, <1>6, <1>7, <1>8, <1>9, <2>1, Zenon
    DEF CapTypeOK, TicketTypeOK, StepTypeOK, BoundsTypeOK
<1>11. ClaimedBefore' /\ NoLaterRows'
  BY <1>1, <1>6 DEF CapInv, ClaimedBefore, NoLaterRows, LastRows
<1>12. AttemptAsGated'
  BY <1>5, <1>6, <1>7 DEF AttemptAsGated
<1>13. GateChecked'
  <2> SUFFICES ASSUME ~unchecked'
               PROVE  usage[step.cached][Window(step.now)].total < TokenCap
    BY <1>1, <1>6 DEF GateChecked
  <2>1. ~Spent(KeyUsage(step.cached, step.now))
    BY <1>2
  <2>2. Window(step.now) \in Windows
    BY WindowType DEF CapInv, CapTypeOK, ClaimedBefore
  <2>3. usage[step.cached][Window(step.now)].total \in Nat
    BY <1>5, <2>2 DEF CapInv, CapTypeOK, Sum
  <2> QED
    BY <2>1, <2>3, CapAssumption DEF Spent, KeyUsage
<1>14. UsageBounded'
  BY <1>1, <1>2 DEF CapInv, UsageBounded
<1> QED
  BY <1>9, <1>10, <1>11, <1>12, <1>13, <1>14 DEF CapInv

LEMMA SpecialistPreserves ==
    ASSUME NEW s \in Specialists
    PROVE  CapInv /\ (SpecialistStarts(s) \/ SpecialistAnswers(s) \/ SpecialistErrs(s)) => CapInv'
<1> SUFFICES ASSUME CapInv, SpecialistStarts(s) \/ SpecialistAnswers(s) \/ SpecialistErrs(s)
             PROVE  CapInv'
  OBVIOUS
<1>1. PipelineTypeOK' /\ attempt'.at = attempt.at /\ attempt'.cached = attempt.cached
  BY SpecialistType DEF CapInv
<1>2. UNCHANGED <<now, armed, pushes, ticket, step, usage, unchecked>>
  BY DEF SpecialistStarts, SpecialistAnswers, SpecialistErrs, InReview, World
<1>3. AllWell \/ \E kind \in CapTroubles : CapTrouble(kind)
  BY DEF SpecialistStarts, SpecialistAnswers, SpecialistErrs, CapTrouble
<1>4. BoundsTypeOK'
  BY <1>2, <1>3, BoundsType, CapTypeParts DEF CapInv
<1>5. /\ StepTypeOK' /\ ClaimedBefore' /\ NoLaterRows' /\ AttemptAsGated'
      /\ GateChecked' /\ UsageBounded'
  BY <1>1, <1>2, NoRowNoStep
<1>6. TicketTypeOK' /\ CappedUntil'
  BY <1>2, CapTypeParts DEF CapInv, TicketTypeOK, CappedUntil
<1>7. CapTypeOK'
  BY <1>1, <1>2, <1>4, <1>5, <1>6 DEF CapInv, CapTypeOK, TicketTypeOK, StepTypeOK, BoundsTypeOK
<1> QED
  BY <1>5, <1>6, <1>7 DEF CapInv

LEMMA AgainPreserves == CapInv /\ (TryAgain \/ PostFails) => CapInv'
<1> SUFFICES ASSUME CapInv, TryAgain \/ PostFails PROVE CapInv'
  OBVIOUS
<1>1. /\ UNCHANGED <<now, armed, pushes, usage, unchecked>> /\ step' = Idle
      /\ Is(step.ticket, "pending") /\ EndAttempt
  BY DEF TryAgain, PostFails, World
<1>2. AllWell \/ CapTrouble("github")
  BY DEF TryAgain, PostFails
<1>3. BoundsTypeOK'
  BY <1>1, <1>2, BoundsType, CapTypeParts DEF CapInv
<1>4. PipelineTypeOK' /\ attempt'.at = "idle"
  BY <1>1, EndType
<1>5. /\ StepTypeOK' /\ ClaimedBefore' /\ NoLaterRows' /\ AttemptAsGated'
      /\ GateChecked' /\ UsageBounded'
  BY <1>1, <1>4, EndsWithoutRow
<1>6. TicketTypeOK' /\ CappedUntil'
  BY <1>1, StatusChanges, CapTypeParts DEF CapInv
<1>7. CapTypeOK'
  BY <1>1, <1>3, <1>4, <1>5, <1>6 DEF CapInv, CapTypeOK, TicketTypeOK, StepTypeOK, BoundsTypeOK
<1> QED
  BY <1>5, <1>6, <1>7 DEF CapInv

(* A row is added to a budget that was not spent: to the window of the claim,
   which the gate looked at, or to a later one, which is empty. *)
LEMMA PostPreserves == CapInv /\ PostAndRecord => CapInv'
<1> SUFFICES ASSUME CapInv, PostAndRecord PROVE CapInv'
  OBVIOUS
<1>1. /\ UNCHANGED <<now, armed, pushes, unchecked>> /\ step' = Idle
      /\ Is(step.ticket, "done") /\ EndAttempt /\ attempt.at = "gather"
  BY DEF PostAndRecord, World, IsReviewed, Gathered
<1>2. AllWell \/ CapTrouble("database")
  BY DEF PostAndRecord
<1>3. BoundsTypeOK'
  BY <1>1, <1>2, BoundsType, CapTypeParts DEF CapInv
<1>4. PipelineTypeOK' /\ attempt'.at = "idle"
  BY <1>1, EndType
<1>5. TicketTypeOK' /\ CappedUntil'
  BY <1>1, StatusChanges, CapTypeParts DEF CapInv
<1>6. StepTypeOK' /\ ClaimedBefore' /\ step'.at = "idle"
  BY <1>1, IdleType DEF CapInv, Idle
<1>7. AttemptAsGated' /\ GateChecked'
  BY <1>4, <1>6 DEF AttemptAsGated, GateChecked
<1>8. step.at = "review" /\ Reported = step.cached /\ step.cached \in Selections
  BY <1>1 DEF CapInv, AttemptAsGated, Reported
<1>9. CASE UNCHANGED usage
  <2>1. CapTypeOK'
    BY <1>1, <1>3, <1>4, <1>5, <1>6, <1>9
    DEF CapInv, CapTypeOK, TicketTypeOK, StepTypeOK, BoundsTypeOK
  <2>2. NoLaterRows'
    BY <1>1, <1>6, <1>9, RowsByNow DEF NoLaterRows, LastRows
  <2>3. UsageBounded'
    BY <1>1, <1>9 DEF CapInv, UsageBounded
  <2> QED
    BY <1>5, <1>6, <1>7, <2>1, <2>2, <2>3 DEF CapInv
<1>10. CASE usage' = Recorded(Reported, now, TotalTokens)
  <2>1. TotalTokens \in Nat /\ CapTypeOK
    BY TokensType DEF CapInv, CapTypeOK
  <2>2. /\ usage' \in [Selections -> [Windows -> Sum]]
        /\ \A d \in Selections, w \in Windows :
             usage'[d][w] =
                 IF d = step.cached /\ w = Window(now)
                 THEN [total |-> usage[d][w].total + TotalTokens, last |-> TotalTokens]
                 ELSE usage[d][w]
    BY <1>8, <1>10, <2>1, RecordedType
  <2>3. CapTypeOK'
    BY <1>1, <1>3, <1>4, <1>5, <1>6, <2>2
    DEF CapInv, CapTypeOK, TicketTypeOK, StepTypeOK, BoundsTypeOK
  <2>4. now \in Instants /\ step.now \in Instants /\ now.day <= LastDay /\ step.now.day <= LastDay
    BY DEF CapInv, CapTypeOK, ClaimedBefore
  <2>5. /\ Window(now) \in Windows /\ Window(now) \in Int /\ Window(step.now) \in Int
        /\ Window(step.now) <= Window(now)
    BY <2>4, WindowType, WindowMonotone DEF CapInv, ClaimedBefore
  <2>6. NoLaterRows'
    <3> SUFFICES ASSUME NEW c \in Selections, NEW w \in Windows, w > Window(now)
                 PROVE  usage'[c][w] = Unused
      BY <1>1, <1>6 DEF NoLaterRows, LastRows
    <3>1. w # Window(now) /\ usage[c][w] = Unused
      BY <2>5, RowsByNow
    <3> QED
      BY <2>2, <3>1
  <2>7. ~unchecked => usage[step.cached][Window(now)].total < TokenCap
    <3>1. CASE Window(now) = Window(step.now)
      BY <1>8, <3>1 DEF CapInv, GateChecked
    <3>2. CASE Window(now) > Window(step.now)
      <4>1. usage[step.cached][Window(now)] = Unused
        BY <1>8, <2>5, <3>2 DEF CapInv, NoLaterRows, LastRows
      <4> QED
        BY <4>1, CapAssumption DEF Unused
    <3> QED
      BY <2>5, <3>1, <3>2
  <2>8. UsageBounded'
    <3> SUFFICES ASSUME ~unchecked, NEW c \in Selections, NEW w \in Windows
                 PROVE  usage'[c][w].total - usage'[c][w].last < TokenCap
      BY <1>1 DEF UsageBounded
    <3>1. CASE c = step.cached /\ w = Window(now)
      <4>1. usage[c][w].total \in Nat
        BY <2>1 DEF CapTypeOK, Sum
      <4>5. usage'[c][w] = [total |-> usage[c][w].total + TotalTokens, last |-> TotalTokens]
        BY <2>2, <3>1, Zenon
      <4>2. /\ usage'[c][w].total = usage[c][w].total + TotalTokens
            /\ usage'[c][w].last = TotalTokens
        BY <4>5
      <4>3. usage[c][w].total < TokenCap
        BY <2>7, <3>1
      <4>4. (usage[c][w].total + TotalTokens) - TotalTokens = usage[c][w].total
        BY <2>1, <4>1
      <4> QED
        BY <4>2, <4>3, <4>4
    <3>2. CASE ~(c = step.cached /\ w = Window(now))
      BY <2>2, <3>2 DEF CapInv, UsageBounded
    <3> QED
      BY <3>1, <3>2
  <2> QED
    BY <1>5, <1>6, <1>7, <2>3, <2>6, <2>8 DEF CapInv
<1> QED
  BY <1>9, <1>10 DEF PostAndRecord

-----------------------------------------------------------------------------
LEMMA NextCap == CapInv /\ [CapNext]_<<capVars, attempt>> => CapInv'
<1> SUFFICES ASSUME CapInv, [CapNext]_<<capVars, attempt>> PROVE CapInv'
  OBVIOUS
<1>1. CASE Tick
  BY <1>1, TickPreserves
<1>2. CASE \E t \in Tickets : Push(t) \/ Claim(t)
  BY <1>2, PushPreserves, ClaimPreserves
<1>3. CASE \E c \in Armable : Arm(c)
  BY <1>3, ArmPreserves
<1>4. CASE RefreshCaps \/ DeferUsageCapped \/ PassGate
  BY <1>4, RefreshPreserves, DeferPreserves, PassPreserves
<1>5. CASE \E s \in Specialists : SpecialistStarts(s) \/ SpecialistAnswers(s) \/ SpecialistErrs(s)
  BY <1>5, SpecialistPreserves
<1>6. CASE TryAgain \/ PostFails \/ PostAndRecord
  BY <1>6, AgainPreserves, PostPreserves
<1>7. CASE UNCHANGED <<capVars, attempt>>
  BY <1>7 DEF capVars, CapInv, CapTypeOK, PipelineTypeOK, ClaimedBefore, NoLaterRows, LastRows,
              AttemptAsGated, GateChecked, UsageBounded, CappedUntil
<1> QED
  BY <1>1, <1>2, <1>3, <1>4, <1>5, <1>6, <1>7 DEF CapNext

(* The instant that was stored is the first one of the next window. *)
LEMMA CappedLifts == CapInv => CapLifts
<1> SUFFICES ASSUME CapInv, NEW t \in Tickets, ticket[t].status = "capped"
             PROVE  IsDue(t) <=> Window(now) > ticket[t].window
  BY DEF CapLifts
<1>1. IsDue(t) <=> ~Before(now, ticket[t].not_before)
  BY DEF IsDue
<1>2. ticket[t].not_before = [day |-> ticket[t].window + 1, time |-> ResetTime]
  BY DEF CapInv, CappedUntil
<1>3. ticket[t].window \in Int /\ now \in Instants
  BY CapAssumption DEF CapInv, CapTypeOK, Windows
<1> QED
  BY <1>1, <1>2, <1>3, CapAssumption DEF Before, Window, Instants

LEMMA CapInvariant == CapSpec => []CapInv
BY InitCap, NextCap, PTL DEF CapSpec

(* Types, for every step of the service: usage and caches keep their shape. *)
THEOREM CapTypeCorrect == CapSpec => []CapTypeOK
BY CapInvariant, PTL DEF CapInv

(* No review starts on a budget that is spent, in the window its row will be
   recorded in: unless a check failed and was passed. *)
THEOREM UsageIsBounded == CapSpec => []UsageBounded
BY CapInvariant, PTL DEF CapInv

(* A ticket deferred for the cap comes due with the next window. *)
THEOREM CapDoesLift == CapSpec => []CapLifts
BY CapInvariant, CappedLifts, PTL
=============================================================================
