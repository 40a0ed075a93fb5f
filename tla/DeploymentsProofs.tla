------------------------- MODULE DeploymentsProofs -------------------------
(***************************************************************************)
(* The demo's invariants and the walk over a diff, for any visitors, caps  *)
(* and diffs that DemoAssumption and DiffAssumption admit.                 *)
(*                                                                         *)
(* What Keep returns for every sequence is shown without the library's     *)
(* induction theorems, which take an operator: of the lengths for which a  *)
(* claim failed there would be a least one, and the step up to it refutes  *)
(* that.                                                                   *)
(***************************************************************************)
EXTENDS Deployments, NaturalsInduction, WellFoundedInduction, FiniteSetTheorems,
        SequenceTheorems, TLAPS

-----------------------------------------------------------------------------
(* Sequences. *)

(* A set of naturals has a least element. *)
LEMMA Least ==
    ASSUME NEW S \in SUBSET Nat, S # {}
    PROVE  \E n \in S : \A m \in S : n <= m
<1>1. PICK n \in S : \A m \in S : ~(<<m, n>> \in OpToRel(<, Nat))
  BY NatLessThanWellFounded, WFMin
<1>2. \A m \in S : ~(m < n)
  BY <1>1 DEF OpToRel
<1> QED
  BY <1>2

(* The function that Keep defines, up to n. *)
Filtered(f, n, seq, kept) ==
    f = [i \in 0 .. n |-> IF i = 0 THEN <<>>
                          ELSE IF seq[i] \in kept THEN Append(f[i - 1], seq[i]) ELSE f[i - 1]]

(* It exists: were there a least length without, the one before has it. *)
LEMMA FilterExists ==
    ASSUME NEW seq, NEW kept, NEW N \in Nat
    PROVE  \E f : Filtered(f, N, seq, kept)
<1> DEFINE Bad == {n \in Nat : ~\E f : Filtered(f, n, seq, kept)}
<1> SUFFICES ASSUME Bad # {} PROVE FALSE
  OBVIOUS
<1>1. PICK n \in Bad : \A m \in Bad : n <= m
  <2> HIDE DEF Bad
  <2>1. Bad \in SUBSET Nat
    BY DEF Bad
  <2> QED
    BY <2>1, Least
<1>2. n # 0
  <2>1. Filtered([i \in 0 .. 0 |-> <<>>], 0, seq, kept)
    BY DEF Filtered
  <2> QED
    BY <2>1
<1>3. PICK f : Filtered(f, n - 1, seq, kept)
  BY <1>1, <1>2
<1> DEFINE value(i) == IF i < n THEN f[i]
                       ELSE IF seq[i] \in kept THEN Append(f[i - 1], seq[i]) ELSE f[i - 1]
           g == [i \in 0 .. n |-> value(i)]
<1>4. ASSUME NEW i \in 0 .. n, i # 0
      PROVE  g[i] = IF seq[i] \in kept THEN Append(g[i - 1], seq[i]) ELSE g[i - 1]
  <2>1. n - 1 \in Nat /\ i - 1 \in 0 .. n - 1 /\ i - 1 \in 0 .. n /\ i - 1 < n
    BY <1>2, <1>4
  <2>2. g[i - 1] = f[i - 1]
    BY <2>1
  <2>3. CASE i < n
    <3>1. i \in 0 .. n - 1
      BY <1>4, <2>1, <2>3
    <3>2. f[i] = IF seq[i] \in kept THEN Append(f[i - 1], seq[i]) ELSE f[i - 1]
      BY <1>3, <1>4, <3>1 DEF Filtered
    <3>3. g[i] = f[i]
      BY <2>3
    <3> QED
      BY <2>2, <3>2, <3>3
  <2>4. CASE ~(i < n)
    <3>1. g[i] = IF seq[i] \in kept THEN Append(f[i - 1], seq[i]) ELSE f[i - 1]
      BY <2>4
    <3> QED
      BY <2>2, <3>1
  <2> QED
    BY <2>3, <2>4
<1>5. g[0] = <<>>
  <2>1. 0 \in 0 .. n /\ 0 \in 0 .. n - 1 /\ 0 < n
    BY <1>2
  <2>2. f[0] = <<>>
    BY <1>3, <2>1 DEF Filtered
  <2> QED
    BY <2>1, <2>2
<1>6. g = [i \in 0 .. n |-> g[i]]
  OBVIOUS
<1> HIDE DEF g
<1>7. Filtered(g, n, seq, kept)
  BY <1>4, <1>5, <1>6 DEF Filtered
<1> QED
  BY <1>1, <1>7

(* So Keep is its value at the end. *)
LEMMA KeepIs ==
    ASSUME NEW seq, NEW kept, Len(seq) \in Nat
    PROVE  \E f : Filtered(f, Len(seq), seq, kept) /\ Keep(seq, kept) = f[Len(seq)]
<1>1. PICK h : Filtered(h, Len(seq), seq, kept)
  BY FilterExists
<1> DEFINE g == CHOOSE f : Filtered(f, Len(seq), seq, kept)
<1>2. Filtered(g, Len(seq), seq, kept)
  BY <1>1
<1>3. Keep(seq, kept) = g[Len(seq)]
  BY DEF Keep, Filtered
<1> QED
  BY <1>2, <1>3

(* u is a part of the first n of seq, in their order, and all of it is kept. *)
PartOf(u, n, seq, kept) ==
    \E m \in [1 .. Len(u) -> 1 .. n] :
        /\ \A i \in 1 .. Len(u) : u[i] = seq[m[i]] /\ u[i] \in kept
        /\ \A i, j \in 1 .. Len(u) : i < j => m[i] < m[j]

LEMMA PartNext ==
    ASSUME NEW E, NEW seq \in Seq(E), NEW kept, NEW n \in 1 .. Len(seq),
           NEW u \in Seq(E), PartOf(u, n - 1, seq, kept)
    PROVE  /\ PartOf(u, n, seq, kept)
           /\ seq[n] \in kept => PartOf(Append(u, seq[n]), n, seq, kept)
<1>1. PICK m \in [1 .. Len(u) -> 1 .. n - 1] :
          /\ \A i \in 1 .. Len(u) : u[i] = seq[m[i]] /\ u[i] \in kept
          /\ \A i, j \in 1 .. Len(u) : i < j => m[i] < m[j]
  BY DEF PartOf
<1>2. PartOf(u, n, seq, kept)
  <2>1. m \in [1 .. Len(u) -> 1 .. n]
    BY 1 .. n - 1 \subseteq 1 .. n
  <2> QED
    BY <1>1, <2>1 DEF PartOf
<1>3. ASSUME seq[n] \in kept
      PROVE  PartOf(Append(u, seq[n]), n, seq, kept)
  <2> DEFINE v == Append(u, seq[n])
             k == [i \in 1 .. Len(u) + 1 |-> IF i <= Len(u) THEN m[i] ELSE n]
  <2>1. /\ Len(v) = Len(u) + 1 /\ Len(u) \in Nat
        /\ \A i \in 1 .. Len(u) : v[i] = u[i]
        /\ v[Len(u) + 1] = seq[n]
    BY AppendProperties, seq[n] \in E
  <2>2. k \in [1 .. Len(v) -> 1 .. n]
    <3>1. ASSUME NEW i \in 1 .. Len(u) + 1
          PROVE  (IF i <= Len(u) THEN m[i] ELSE n) \in 1 .. n
      <4>1. CASE i <= Len(u)
        <5>1. m[i] \in 1 .. n - 1
          BY <4>1, <2>1
        <5> QED
          BY <4>1, <5>1
      <4> QED
        BY <4>1
    <3> QED
      BY <2>1, <3>1
  <2>3. ASSUME NEW i \in 1 .. Len(v)
        PROVE  v[i] = seq[k[i]] /\ v[i] \in kept
    <3>1. CASE i <= Len(u)
      <4>1. k[i] = m[i] /\ i \in 1 .. Len(u)
        BY <2>1, <3>1
      <4> QED
        BY <1>1, <2>1, <4>1
    <3>2. CASE ~(i <= Len(u))
      <4>1. k[i] = n /\ i = Len(u) + 1
        BY <2>1, <3>2
      <4> QED
        BY <1>3, <2>1, <4>1
    <3> QED
      BY <3>1, <3>2
  <2>4. ASSUME NEW i \in 1 .. Len(v), NEW j \in 1 .. Len(v), i < j
        PROVE  k[i] < k[j]
    <3>1. i \in 1 .. Len(u) /\ k[i] = m[i] /\ m[i] \in 1 .. n - 1
      BY <2>1, <2>4
    <3>2. CASE j <= Len(u)
      BY <1>1, <2>1, <2>4, <3>1, <3>2
    <3>3. CASE ~(j <= Len(u))
      BY <2>1, <3>1, <3>3
    <3> QED
      BY <3>2, <3>3
  <2> HIDE DEF k, v
  <2> QED
    BY <2>2, <2>3, <2>4 DEF PartOf, v
<1> QED
  BY <1>2, <1>3

(* What is kept is a part of the sequence, and no longer than a count b of what
   may be kept so far allows. *)
LEMMA KeepPart ==
    ASSUME NEW E, NEW seq \in Seq(E), NEW kept, NEW b \in [0 .. Len(seq) -> Nat],
           \A n \in 1 .. Len(seq) :
               b[n] >= IF seq[n] \in kept THEN b[n - 1] + 1 ELSE b[n - 1]
    PROVE  /\ Keep(seq, kept) \in Seq(E)
           /\ PartOf(Keep(seq, kept), Len(seq), seq, kept)
           /\ Len(Keep(seq, kept)) <= b[Len(seq)]
<1> DEFINE N == Len(seq)
<1>1. N \in Nat
  OBVIOUS
<1>2. PICK f : Filtered(f, N, seq, kept) /\ Keep(seq, kept) = f[N]
  BY <1>1, KeepIs
<1> DEFINE Fine(n) == f[n] \in Seq(E) /\ PartOf(f[n], n, seq, kept) /\ Len(f[n]) <= b[n]
           Bad == {n \in 0 .. N : ~Fine(n)}
<1>3. Fine(0)
  <2>1. f[0] = <<>>
    BY <1>1, <1>2 DEF Filtered
  <2>2. PartOf(<<>>, 0, seq, kept)
    <3> DEFINE m == [i \in 1 .. 0 |-> 0]
    <3>1. m \in [1 .. 0 -> 1 .. 0] /\ \A i \in 1 .. 0 : FALSE
      OBVIOUS
    <3>2. Len(<<>>) = 0
      OBVIOUS
    <3> HIDE DEF m
    <3> QED
      BY <3>1, <3>2 DEF PartOf
  <2>3. b[0] \in Nat
    BY <1>1
  <2> QED
    BY <2>1, <2>2, <2>3
<1>4. ASSUME NEW n \in 1 .. N, Fine(n - 1)
      PROVE  Fine(n)
  <2>1. f[n] = IF seq[n] \in kept THEN Append(f[n - 1], seq[n]) ELSE f[n - 1]
    <3>1. n \in 0 .. N /\ n # 0
      BY <1>1
    <3> QED
      BY <1>2, <3>1 DEF Filtered
  <2> DEFINE u == f[n - 1]
  <2>2. u \in Seq(E) /\ PartOf(u, n - 1, seq, kept) /\ Len(u) <= b[n - 1]
    BY <1>4
  <2>3. b[n - 1] \in Nat /\ b[n] \in Nat /\ seq[n] \in E
    <3>1. n - 1 \in 0 .. N /\ n \in 0 .. N
      BY <1>1
    <3>2. seq[n] \in E
      BY ElementOfSeq
    <3> QED
      BY <3>1, <3>2
  <2> HIDE DEF u
  <2>4. /\ PartOf(u, n, seq, kept)
        /\ seq[n] \in kept => PartOf(Append(u, seq[n]), n, seq, kept)
    BY <2>2, PartNext
  <2>5. Append(u, seq[n]) \in Seq(E) /\ Len(Append(u, seq[n])) = Len(u) + 1 /\ Len(u) \in Nat
    BY <2>2, <2>3, AppendProperties
  <2>6. b[n] >= IF seq[n] \in kept THEN b[n - 1] + 1 ELSE b[n - 1]
    OBVIOUS
  <2>7. CASE seq[n] \in kept
    <3>1. f[n] = Append(u, seq[n])
      BY <2>1, <2>7 DEF u
    <3>2. Len(Append(u, seq[n])) <= b[n]
      BY <2>2, <2>3, <2>5, <2>6, <2>7
    <3> QED
      BY <2>4, <2>5, <2>7, <3>1, <3>2
  <2>8. CASE seq[n] \notin kept
    <3>1. f[n] = u
      BY <2>1, <2>8 DEF u
    <3>2. Len(u) <= b[n]
      BY <2>2, <2>3, <2>5, <2>6, <2>8
    <3> QED
      BY <2>2, <2>4, <3>1, <3>2
  <2> QED
    BY <2>7, <2>8
<1>5. Bad = {}
  <2> SUFFICES ASSUME Bad # {} PROVE FALSE
    OBVIOUS
  <2> HIDE DEF Fine
  <2>1. PICK n \in Bad : \A m \in Bad : n <= m
    <3> HIDE DEF Bad
    <3>1. Bad \in SUBSET Nat
      BY <1>1 DEF Bad
    <3> QED
      BY <3>1, Least
  <2>2. n \in 1 .. N /\ n - 1 \in 0 .. N
    BY <1>1, <1>3, <2>1
  <2>3. Fine(n - 1)
    BY <2>1, <2>2
  <2> QED
    BY <1>4, <2>1, <2>2, <2>3
<1>6. Fine(N)
  BY <1>1, <1>5
<1> QED
  BY <1>2, <1>6

-----------------------------------------------------------------------------
(* What a bootstrap stores, and whose it is. *)
Visit == {[session |-> v[1], choice |-> v[2]] : v \in Visits}

Asking == {q \in [at : {"enqueue", "context", "mark"}, session : Sessions, choice : Selections,
                  id : Requests, new : BOOLEAN] : <<q.session, q.choice>> \in Visits}
DemoTicket == [id : Requests, pr : {PRNumber[s] : s \in Sessions},
               status : {"pending", "running", "done"}]

(* A review that is somebody's was made as they asked, and says so. *)
AsAsked == {row \in [session : Sessions \cup {NoSession}, reported : Selections,
                     used : SUBSET Selections] :
               row.session # NoSession =>
                   <<row.session, row.reported>> \in Visits /\ row.used = {row.reported}}

Turns == {Resting} \cup [at : {"refresh", "finalize"}, id : Requests]
           \cup [at : {"review"}, id : Requests, models : [DemoProviders -> Selections]]

DemoTyped ==
    /\ visits \in 0 .. MaxVisits
    /\ delivered \in Seq(Sessions)
    /\ request \in [Requests -> Asking \cup {NotAsking}]
    /\ tickets \in Seq(DemoTicket)
    /\ DOMAIN context \subseteq Requests
    /\ \A d \in DOMAIN context : context[d] \in Visit
    /\ processing \in Visit \cup {Nobody}
    /\ active \in DemoProviders
    /\ rows \in Seq(AsAsked)
    /\ turn \in Turns

Distinct(seq) == \A i, j \in DOMAIN seq : seq[i].id = seq[j].id => i = j
(* A ticket has the number of the request that inserted it, which inserts once. *)
Numbered ==
    /\ Distinct(tickets)
    /\ Ids(tickets) \subseteq 1 .. visits
    /\ \A r \in Requests : r > visits => request[r] = NotAsking
    /\ \A r \in Requests : request[r].at = "enqueue" =>
          request[r].id = r /\ request[r].new /\ r \notin Ids(tickets)

(* The requests that inserted and have not trimmed yet. *)
ToTrim == {r \in Requests : request[r].at = "context" /\ request[r].new}
Trimmed ==
    /\ Len(tickets) <= MaxTickets + Cardinality(ToTrim)
    /\ Len(rows) <= MaxRows /\ Len(delivered) <= DedupCapacity

(* Whatever the demo holds is of a session that is known, or was being
   reviewed when it was swept. *)
Owned ==
    /\ \A r \in Requests : request[r] # NotAsking => request[r].session \in known
    /\ \A d \in DOMAIN context : context[d].session \in known
    /\ Reviewing \subseteq known \cup late
    /\ \A i \in DOMAIN rows : rows[i].session \in {NoSession} \cup known \cup late

(* The attempt is the turn's, and made with what the turn's visitor chose. *)
AsChosen ==
    /\ deployment # "demo" => turn = Resting
    /\ deployment = "demo" => PipelineTypeOK /\ (attempt.at = "gather" => turn.at = "review")
    /\ turn.at = "review" =>
          /\ attempt.cached \in Selections
          /\ processing # Nobody =>
                /\ turn.models = [Priced EXCEPT ![ProviderOf[processing.choice]] = processing.choice]
                /\ attempt.cached = processing.choice
          /\ \A s \in Specialists :
                /\ attempt.work[s].at \in {"new", "ok"}
                /\ attempt.work[s].at = "ok" =>
                      /\ attempt.work[s].used \in Selections
                      /\ processing # Nobody => attempt.work[s].used = processing.choice

DemoInv == DemoTyped /\ Numbered /\ Trimmed /\ Owned /\ AsChosen

-----------------------------------------------------------------------------
DiffLine == Headers \cup Hunks \cup Contents \cup {NoPatch} \cup Rests

Label == (Files \X Nat) \cup {NoLabel}
DiffTyped ==
    /\ diff \in Seq(DiffLine)
    /\ place \in [file : Files \cup {NoLabel}, number : Nat \cup {NoLabel}]
    /\ labels \in Seq(Label) /\ Len(labels) = Len(diff)

(* A diff begins with a header. *)
Headed(lines) == Len(lines) > 0 => lines[1].kind = "file"

(* Line i is in a hunk of a file, both of which the walk could read. *)
IsRead(lines, i) ==
    /\ 0 < FileStart(lines, i) /\ FileStart(lines, i) < HunkStart(lines, i)
    /\ FileIsRead(lines, i) /\ LinesAreRead(lines, i)

(* What the walk carries is where the next line lies... *)
Carried ==
    LET i == Len(diff) + 1
    IN  /\ FileStart(diff, i) > 0 /\ FileIsRead(diff, i) => place.file = FileOf(diff, i)
        /\ IsRead(diff, i) => place.number = LineOf(diff, i)
(* ...and each label where its line does. *)
Labelled ==
    \A i \in DOMAIN diff : diff[i].kind = "added" =>
        /\ HunkStart(diff, i) # 0
        /\ diff[i].reads = "added" /\ FileIsRead(diff, i) /\ LinesAreRead(diff, i) =>
              labels[i] = <<FileOf(diff, i), LineOf(diff, i)>>

DiffInv == DiffTyped /\ Headed(diff) /\ Carried /\ Labelled

-----------------------------------------------------------------------------
(* The lines of a diff. *)

(* What can be said of a line without its origin. *)
LEMMA LineIs ==
    ASSUME NEW line \in DiffLine
    PROVE  /\ line.kind \in {"file", "hunk", "binary", "added", "removed", "kept", "marker", "rest"}
           /\ line.reads \in {"file", "hunk", "text", "added", "removed", "marker"}
           /\ line.kind = "file" => /\ line.value \in Files
                                    /\ line.reads = IF ReadAs[line.value] = NoLabel
                                                    THEN "text" ELSE "file"
           /\ line.reads = "file" => /\ line.kind \in {"file", "rest"}
                                     /\ line.value \in Files /\ ReadAs[line.value] \in Files
           /\ line.kind = "hunk" => line.reads = "hunk"
           /\ line.reads = "hunk" => line.kind \in {"hunk", "rest"} /\ line.value \in Nat
           /\ line.kind = "added" => line.reads \in {"added", "text"}
           /\ line.kind = "removed" => line.reads \in {"removed", "text"}
           /\ line.kind = "kept" => line.reads = "text"
           /\ line.kind = "marker" => line.reads = "marker"
           /\ line.kind = "binary" => line.reads = "text"
<1> USE DiffAssumption DEF Line
<1>1. CASE line \in Headers
  <2>1. PICK f \in Files :
            line = Line("file", IF ReadAs[f] = NoLabel THEN "text" ELSE "file", f)
    BY <1>1 DEF Headers
  <2> QED
    BY <2>1
<1>2. CASE line \in Hunks
  BY <1>2 DEF Hunks
<1>3. CASE line \in Contents
  BY <1>3 DEF Contents
<1>4. CASE line = NoPatch
  BY <1>4 DEF NoPatch
<1>5. CASE line \in Rests
  BY <1>5 DEF Rests
<1> QED
  BY <1>1, <1>2, <1>3, <1>4, <1>5 DEF DiffLine

LEMMA NextLine ==
    ASSUME NEW s \in Seq(DiffLine), NEW line \in DiffLine
    PROVE  LET t == Append(s, line)
           IN  /\ t \in Seq(DiffLine) /\ Len(s) \in Nat /\ Len(t) = Len(s) + 1
               /\ \A i \in 1 .. Len(s) : t[i] = s[i]
               /\ t[Len(s) + 1] = line
               /\ DOMAIN s = 1 .. Len(s) /\ DOMAIN t = 1 .. Len(s) + 1
BY AppendProperties

(* LastOf is the one line that it should be. *)
IsLast(j, lines, i, kinds) ==
    /\ j \in 0 .. i - 1
    /\ j = 0 \/ lines[j].kind \in kinds
    /\ \A k \in j + 1 .. i - 1 : lines[k].kind \notin kinds

LEMMA LastExists ==
    ASSUME NEW lines, NEW kinds, NEW i \in Nat \ {0}
    PROVE  \E j : IsLast(j, lines, i, kinds)
<1> DEFINE Stop(j) == j = 0 \/ lines[j].kind \in kinds
           Back == {n \in 0 .. i - 1 : Stop(i - 1 - n)}
<1>1. Back \in SUBSET Nat /\ i - 1 \in Back
  <2>1. i - 1 \in 0 .. i - 1 /\ i - 1 - (i - 1) = 0
    OBVIOUS
  <2> QED
    BY <2>1
<1>2. PICK n \in Back : \A m \in Back : n <= m
  <2> HIDE DEF Back
  <2> QED
    BY <1>1, Least
<1> DEFINE j == i - 1 - n
<1>3. j \in 0 .. i - 1 /\ Stop(j)
  BY <1>2
<1>4. ASSUME NEW k \in j + 1 .. i - 1, lines[k].kind \in kinds
      PROVE  FALSE
  <2>1. i - 1 - k \in 0 .. i - 1 /\ i - 1 - (i - 1 - k) = k /\ i - 1 - k < n
    BY <1>2
  <2>2. i - 1 - k \in Back
    BY <1>4, <2>1
  <2> QED
    BY <1>2, <2>1, <2>2
<1>5. IsLast(j, lines, i, kinds)
  BY <1>3, <1>4 DEF IsLast
<1> QED
  BY <1>5

LEMMA LastIs ==
    ASSUME NEW lines, NEW kinds, NEW i \in Nat \ {0}
    PROVE  /\ IsLast(LastOf(lines, i, kinds), lines, i, kinds)
           /\ \A j : IsLast(j, lines, i, kinds) => j = LastOf(lines, i, kinds)
<1>1. PICK j : IsLast(j, lines, i, kinds)
  BY LastExists
<1>2. ASSUME NEW m, NEW n, IsLast(m, lines, i, kinds), IsLast(n, lines, i, kinds)
      PROVE  m = n
  BY <1>2 DEF IsLast
<1>3. IsLast(LastOf(lines, i, kinds), lines, i, kinds)
  BY <1>1 DEF LastOf, IsLast
<1> QED
  BY <1>2, <1>3

(* Where a line lies does not depend on what follows... *)
LEMMA LastStays ==
    ASSUME NEW s \in Seq(DiffLine), NEW line \in DiffLine, NEW kinds, NEW i \in 1 .. Len(s) + 1
    PROVE  LastOf(Append(s, line), i, kinds) = LastOf(s, i, kinds)
<1> DEFINE t == Append(s, line)
           j == LastOf(s, i, kinds)
<1>1. Len(s) \in Nat /\ \A k \in 1 .. Len(s) : t[k] = s[k]
  BY NextLine
<1>2. IsLast(j, s, i, kinds)
  BY LastIs
<1> HIDE DEF t, j
<1>3. IsLast(j, t, i, kinds)
  BY <1>1, <1>2 DEF IsLast
<1> QED
  BY <1>3, LastIs DEF t, j

(* ...and the next line starts anew after a line of the kind. *)
LEMMA LastNext ==
    ASSUME NEW s \in Seq(DiffLine), NEW line \in DiffLine, NEW kinds
    PROVE  LET i == Len(s) + 1
           IN  LastOf(Append(s, line), i + 1, kinds)
                 = IF line.kind \in kinds THEN i ELSE LastOf(s, i, kinds)
<1> DEFINE t == Append(s, line)
           i == Len(s) + 1
           j == LastOf(s, i, kinds)
<1>1. Len(s) \in Nat /\ t[i] = line /\ \A k \in 1 .. Len(s) : t[k] = s[k]
  BY NextLine
<1>2. IsLast(j, s, i, kinds)
  BY <1>1, LastIs
<1> HIDE DEF t, j
<1>3. CASE line.kind \in kinds
  <2>1. IsLast(i, t, i + 1, kinds)
    BY <1>1, <1>3 DEF IsLast
  <2> QED
    BY <1>1, <1>3, <2>1, LastIs DEF t, j
<1>4. CASE line.kind \notin kinds
  <2>1. IsLast(j, t, i + 1, kinds)
    BY <1>1, <1>2, <1>4 DEF IsLast
  <2> QED
    BY <1>1, <1>4, <2>1, LastIs DEF t, j
<1> QED
  BY <1>3, <1>4

(* The header of a hunk, and of a file, are that. *)
LEMMA Starts ==
    ASSUME NEW s \in Seq(DiffLine), Headed(s), NEW i \in 1 .. Len(s) + 1
    PROVE  /\ FileStart(s, i) \in 0 .. i - 1 /\ HunkStart(s, i) \in 0 .. i - 1
           /\ FileStart(s, i) # 0 => FileOf(s, i) \in Files
           /\ HunkStart(s, i) # 0 => s[HunkStart(s, i)].value \in Nat
           /\ i > 1 => FileStart(s, i) # 0
<1>1. Len(s) \in Nat /\ \A k \in 1 .. Len(s) : s[k] \in DiffLine
  BY ElementOfSeq
<1>2. /\ IsLast(FileStart(s, i), s, i, {"file"})
      /\ IsLast(HunkStart(s, i), s, i, {"hunk"})
  BY <1>1, LastIs DEF FileStart, HunkStart
<1>3. FileStart(s, i) # 0 => FileOf(s, i) \in Files
  <2>1. FileStart(s, i) # 0 =>
            FileStart(s, i) \in 1 .. Len(s) /\ s[FileStart(s, i)].kind = "file"
    BY <1>1, <1>2 DEF IsLast
  <2> QED
    BY <1>1, <2>1, LineIs DEF FileOf
<1>4. HunkStart(s, i) # 0 => s[HunkStart(s, i)].value \in Nat
  <2>1. HunkStart(s, i) # 0 =>
            HunkStart(s, i) \in 1 .. Len(s) /\ s[HunkStart(s, i)].kind = "hunk"
    BY <1>1, <1>2 DEF IsLast
  <2> QED
    BY <1>1, <2>1, LineIs
<1>5. i > 1 => FileStart(s, i) # 0
  BY <1>1, <1>2 DEF IsLast, Headed
<1> QED
  BY <1>2, <1>3, <1>4, <1>5 DEF IsLast

(* What is between two lines is finitely many. *)
LEMMA FewBetween ==
    ASSUME NEW lines, NEW h \in Nat, NEW i \in Nat
    PROVE  IsFiniteSet(NewBetween(lines, h, i)) /\ Cardinality(NewBetween(lines, h, i)) \in Nat
<1>1. NewBetween(lines, h, i) \subseteq h + 1 .. i - 1
  BY DEF NewBetween
<1>2. IsFiniteSet(h + 1 .. i - 1)
  BY FS_Interval
<1> QED
  BY <1>1, <1>2, FS_Subset, FS_CardinalityType

(* A line once walked over stays where it is. *)
LEMMA PlacesStay ==
    ASSUME NEW s \in Seq(DiffLine), NEW line \in DiffLine, Headed(s), NEW i \in 2 .. Len(s) + 1
    PROVE  LET t == Append(s, line)
           IN  /\ FileStart(t, i) = FileStart(s, i) /\ HunkStart(t, i) = HunkStart(s, i)
               /\ FileOf(t, i) = FileOf(s, i)
               /\ FileIsRead(t, i) <=> FileIsRead(s, i)
               /\ LinesAreRead(t, i) <=> LinesAreRead(s, i)
               /\ HunkStart(s, i) # 0 => LineOf(t, i) = LineOf(s, i)
<1> DEFINE t == Append(s, line)
<1>1. Len(s) \in Nat /\ \A k \in 1 .. Len(s) : t[k] = s[k]
  BY NextLine
<1> HIDE DEF t
<1>2. i \in 1 .. Len(s) + 1 /\ i > 1 /\ i - 1 \in 1 .. Len(s)
  BY <1>1
<1>3. FileStart(t, i) = FileStart(s, i) /\ HunkStart(t, i) = HunkStart(s, i)
  BY <1>2, LastStays DEF FileStart, HunkStart, t
<1>4. FileStart(s, i) \in 1 .. i - 1 /\ HunkStart(s, i) \in 0 .. i - 1
  BY <1>1, <1>2, Starts
<1>5. FileOf(t, i) = FileOf(s, i)
  BY <1>1, <1>2, <1>3, <1>4 DEF FileOf
<1>6. FileIsRead(t, i) <=> FileIsRead(s, i)
  BY <1>1, <1>2, <1>3, <1>4, <1>5 DEF FileIsRead
<1>7. LinesAreRead(t, i) <=> LinesAreRead(s, i)
  <2>1. \A k \in HunkStart(s, i) + 1 .. i - 1 : t[k] = s[k]
    BY <1>1, <1>2, <1>4
  <2> QED
    BY <1>3, <2>1 DEF LinesAreRead
<1>8. ASSUME HunkStart(s, i) # 0
      PROVE  LineOf(t, i) = LineOf(s, i)
  <2> DEFINE h == HunkStart(s, i)
  <2>1. h \in 1 .. Len(s)
    BY <1>1, <1>2, <1>4, <1>8
  <2> HIDE DEF h
  <2>2. NewBetween(t, h, i) = NewBetween(s, h, i)
    BY <1>1, <1>2, <2>1 DEF NewBetween
  <2>3. LineOf(t, i) = t[h].value + Cardinality(NewBetween(t, h, i))
    BY <1>3 DEF LineOf, h
  <2>4. LineOf(s, i) = s[h].value + Cardinality(NewBetween(s, h, i))
    BY DEF LineOf, h
  <2> QED
    BY <1>1, <2>1, <2>2, <2>3, <2>4
<1> QED
  BY <1>3, <1>5, <1>6, <1>7, <1>8 DEF t

(* The next line is in the same file, unless this one is a header... *)
LEMMA FileNext ==
    ASSUME NEW s \in Seq(DiffLine), NEW line \in DiffLine, NEW i \in Nat, i = Len(s) + 1,
           FileStart(s, i) \in 1 .. Len(s), line.kind # "file"
    PROVE  LET t == Append(s, line)
           IN  /\ FileStart(t, i + 1) = FileStart(s, i) /\ FileOf(t, i + 1) = FileOf(s, i)
               /\ FileIsRead(t, i + 1) => FileIsRead(s, i) /\ line.reads # "file"
<1> DEFINE t == Append(s, line)
<1>1. Len(s) \in Nat /\ t[i] = line /\ \A k \in 1 .. Len(s) : t[k] = s[k]
  BY NextLine
<1>2. FileStart(t, i + 1) = FileStart(s, i)
  BY LastNext DEF FileStart
<1> HIDE DEF t
<1>3. FileOf(t, i + 1) = FileOf(s, i)
  BY <1>1, <1>2 DEF FileOf
<1>4. ASSUME FileIsRead(t, i + 1)
      PROVE  FileIsRead(s, i) /\ line.reads # "file"
  <2>1. \A k \in FileStart(s, i) + 1 .. i : ~(t[k].kind = "rest" /\ t[k].reads = "file")
    BY <1>2, <1>4 DEF FileIsRead
  <2>2. line.reads # "file"
    BY <1>1, <2>1, LineIs
  <2>3. FileIsRead(s, i)
    BY <1>1, <1>3, <1>4, <2>1 DEF FileIsRead
  <2> QED
    BY <2>2, <2>3
<1> QED
  BY <1>2, <1>3, <1>4 DEF t

(* ...and in the same hunk, one line further if this one is in the new file. *)
LEMMA NumberNext ==
    ASSUME NEW s \in Seq(DiffLine), NEW line \in DiffLine, NEW i \in Nat, i = Len(s) + 1,
           HunkStart(s, i) \in 1 .. Len(s), s[HunkStart(s, i)].value \in Nat, line.kind # "hunk"
    PROVE  LET t == Append(s, line)
           IN  /\ HunkStart(t, i + 1) = HunkStart(s, i) /\ LineOf(s, i) \in Nat
               /\ LineOf(t, i + 1) = IF line.kind \in {"added", "kept"} THEN LineOf(s, i) + 1
                                                                ELSE LineOf(s, i)
               /\ LinesAreRead(t, i + 1) =>
                     /\ LinesAreRead(s, i) /\ line.kind # "rest"
                     /\ ~(line.kind = "removed" /\ line.reads = "text")
<1> DEFINE t == Append(s, line)
           h == HunkStart(s, i)
<1>1. Len(s) \in Nat /\ t[i] = line /\ \A k \in 1 .. Len(s) : t[k] = s[k]
  BY NextLine
<1>2. HunkStart(t, i + 1) = h
  BY LastNext DEF HunkStart
<1>3. h \in 1 .. Len(s) /\ s[h].value \in Nat
  OBVIOUS
<1> HIDE DEF t
<1>4. LinesAreRead(t, i + 1) =>
          /\ LinesAreRead(s, i) /\ line.kind # "rest"
          /\ ~(line.kind = "removed" /\ line.reads = "text")
  <2>1. i \in h + 1 .. i + 1 - 1 /\ h + 1 .. i - 1 \subseteq h + 1 .. i + 1 - 1
        /\ h + 1 .. i - 1 \subseteq 1 .. Len(s)
    BY <1>1, <1>3
  <2> QED
    BY <1>1, <1>2, <2>1 DEF LinesAreRead
<1> DEFINE old == NewBetween(s, h, i)
           new == NewBetween(t, h, i + 1)
<1>5. LineOf(s, i) = s[h].value + Cardinality(old)
      /\ LineOf(t, i + 1) = t[h].value + Cardinality(new)
  BY <1>2 DEF LineOf
<1> HIDE DEF h
<1>6. new = IF line.kind \in {"added", "kept"} THEN old \cup {i} ELSE old
  <2>1. h + 1 .. i + 1 - 1 = (h + 1 .. i - 1) \cup {i}
    BY <1>1, <1>3
  <2>2. \A k \in h + 1 .. i - 1 : t[k] = s[k]
    BY <1>1, <1>3
  <2>3. ASSUME NEW k
        PROVE  k \in new <=> k \in old \/ (k = i /\ line.kind \in {"added", "kept"})
    BY <1>1, <2>1, <2>2 DEF NewBetween
  <2> QED
    BY <2>3
<1>7. i \notin old /\ IsFiniteSet(old) /\ Cardinality(old) \in Nat
  <2>1. i \notin old
    BY DEF NewBetween
  <2> QED
    BY <1>3, <2>1, FewBetween
<1> HIDE DEF old, new
<1>8. Cardinality(new) = IF line.kind \in {"added", "kept"} THEN Cardinality(old) + 1
                                                      ELSE Cardinality(old)
  <2>1. Cardinality(old \cup {i}) = Cardinality(old) + 1
    BY <1>7, FS_AddElement
  <2>2. CASE line.kind \in {"added", "kept"}
    <3>1. new = old \cup {i}
      BY <1>6, <2>2
    <3>2. Cardinality(new) = Cardinality(old) + 1
      BY <2>1, <3>1, Zenon
    <3> QED
      BY <2>2, <3>2
  <2>3. CASE line.kind \notin {"added", "kept"}
    <3>1. new = old
      BY <1>6, <2>3
    <3>2. Cardinality(new) = Cardinality(old)
      BY <3>1, Zenon
    <3> QED
      BY <2>3, <3>2
  <2> QED
    BY <2>2, <2>3
<1>9. t[h].value = s[h].value
  BY <1>1, <1>3
<1>10. /\ LineOf(s, i) \in Nat
       /\ LineOf(t, i + 1) = IF line.kind \in {"added", "kept"} THEN LineOf(s, i) + 1 ELSE LineOf(s, i)
  BY <1>3, <1>5, <1>7, <1>8, <1>9
<1> QED
  BY <1>2, <1>4, <1>10 DEF t, h

(* After the header of a hunk, the line is the one it says. *)
LEMMA NumberStarts ==
    ASSUME NEW s \in Seq(DiffLine), NEW line \in DiffLine, NEW i \in Nat, i = Len(s) + 1,
           line.kind = "hunk"
    PROVE  LineOf(Append(s, line), i + 1) = line.value
<1> DEFINE t == Append(s, line)
<1>1. Len(s) \in Nat /\ t[i] = line
  BY NextLine
<1>2. HunkStart(t, i + 1) = i
  BY LastNext DEF HunkStart
<1> HIDE DEF t
<1>3. NewBetween(t, i, i + 1) = {}
  BY DEF NewBetween
<1>4. Cardinality(NewBetween(t, i, i + 1)) = 0
  BY <1>3, FS_EmptySet, Zenon
<1>5. line.value \in Nat
  BY LineIs
<1>6. LineOf(t, i + 1) = t[i].value + Cardinality(NewBetween(t, i, i + 1))
  BY <1>2 DEF LineOf
<1> QED
  BY <1>1, <1>4, <1>5, <1>6 DEF t

-----------------------------------------------------------------------------
(* The walk over a diff. *)

(* Before the first line nothing is carried and nothing is labelled. *)
LEMMA InitDiffInv == DiffInit => DiffInv
<1> SUFFICES ASSUME DiffInit PROVE DiffInv
  OBVIOUS
<1>1. diff = <<>> /\ Len(diff) = 0 /\ DOMAIN diff = {} /\ labels = <<>>
      /\ place = [file |-> NoLabel, number |-> NoLabel]
  BY DEF DiffInit
<1>2. DiffTyped /\ Headed(diff) /\ Labelled
  BY <1>1, EmptySeq DEF DiffTyped, Headed, Labelled
<1>3. FileStart(diff, 1) = 0
  BY LastIs DEF FileStart, IsLast
<1>4. Carried
  BY <1>1, <1>3 DEF Carried, IsRead
<1> QED
  BY <1>2, <1>4 DEF DiffInv

(* What one line does to what is carried. *)
LEMMA WalkMoves ==
    ASSUME DiffTyped, NEW line \in DiffLine, Walk(line)
    PROVE  /\ place' \in [file : Files \cup {NoLabel}, number : Nat \cup {NoLabel}]
           /\ line.reads = "file" => place'.file = ReadAs[line.value]
           /\ line.reads # "file" => place'.file = place.file
           /\ line.reads = "hunk" => place'.number = line.value
           /\ InHunk => /\ place.number \in Nat
                        /\ line.reads \in {"added", "text"} => place'.number = place.number + 1
                        /\ line.reads \in {"removed", "marker"} => place'.number = place.number
           /\ \E label \in Label : /\ labels' = Append(labels, label)
                                   /\ InHunk /\ line.reads = "added" =>
                                         label = <<place.file, place.number>>
<1>1. /\ place \in [file : Files \cup {NoLabel}, number : Nat \cup {NoLabel}]
      /\ InHunk => place.file \in Files /\ place.number \in Nat
  BY DEF DiffTyped, InHunk
<1>2. NoLabel \in Label /\ (InHunk => <<place.file, place.number>> \in Label)
  BY <1>1 DEF Label
<1>3. CASE FileHeader(line)
  BY <1>1, <1>2, <1>3, LineIs DEF FileHeader, Unlabelled
<1>4. CASE HunkHeader(line)
  BY <1>1, <1>2, <1>4, LineIs DEF HunkHeader, Unlabelled
<1>5. CASE Metadata(line)
  BY <1>1, <1>2, <1>5 DEF Metadata, Unlabelled
<1>6. CASE AddedLine(line)
  BY <1>1, <1>2, <1>6 DEF AddedLine
<1>7. CASE OtherLine(line)
  BY <1>1, <1>2, <1>7 DEF OtherLine, Unlabelled, Uncounted
<1> QED
  BY <1>3, <1>4, <1>5, <1>6, <1>7 DEF Walk

(* One line, if it may come where it comes. *)
LEMMA LineStep ==
    ASSUME DiffInv, NEW line \in DiffLine, Walk(line),
           NEW i \in Nat, i = Len(diff) + 1,
           i = 1 => line.kind = "file",
           line.kind = "added" => FileStart(diff, i) < HunkStart(diff, i),
           line.kind = "binary" => ~(FileStart(diff, i) < HunkStart(diff, i))
    PROVE  DiffInv'
<1>1. /\ diff \in Seq(DiffLine) /\ labels \in Seq(Label) /\ Len(labels) = Len(diff)
      /\ Headed(diff) /\ diff' = Append(diff, line) /\ i \in 1 .. Len(diff) + 1
  BY DEF DiffInv, DiffTyped, Walk
<1>2. /\ diff' \in Seq(DiffLine) /\ Len(diff) \in Nat /\ Len(diff') = i
      /\ \A k \in 1 .. Len(diff) : diff'[k] = diff[k]
      /\ diff'[i] = line
      /\ DOMAIN diff = 1 .. Len(diff) /\ DOMAIN diff' = 1 .. i
  BY <1>1, NextLine
<1>3. PICK label \in Label : /\ labels' = Append(labels, label)
                             /\ InHunk /\ line.reads = "added" => label = <<place.file, place.number>>
  BY WalkMoves DEF DiffInv
<1>4. /\ labels' \in Seq(Label) /\ Len(labels') = Len(labels) + 1
      /\ \A k \in 1 .. Len(labels) : labels'[k] = labels[k]
      /\ labels'[i] = label
  BY <1>1, <1>3, AppendProperties
<1>5. /\ place' \in [file : Files \cup {NoLabel}, number : Nat \cup {NoLabel}]
      /\ line.reads = "file" => place'.file = ReadAs[line.value]
      /\ line.reads # "file" => place'.file = place.file
      /\ line.reads = "hunk" => place'.number = line.value
      /\ InHunk => /\ place.number \in Nat
                   /\ line.reads \in {"added", "text"} => place'.number = place.number + 1
                   /\ line.reads \in {"removed", "marker"} => place'.number = place.number
  BY WalkMoves DEF DiffInv
<1>6. DiffTyped' /\ Headed(diff')
  BY <1>1, <1>2, <1>4, <1>5 DEF DiffTyped, DiffInv, Headed
<1>7. /\ FileStart(diff, i) \in 0 .. i - 1 /\ HunkStart(diff, i) \in 0 .. i - 1
      /\ FileStart(diff, i) # 0 => FileOf(diff, i) \in Files
      /\ HunkStart(diff, i) # 0 => diff[HunkStart(diff, i)].value \in Nat
      /\ i > 1 => FileStart(diff, i) # 0
  BY <1>1, Starts
<1>8. /\ FileStart(diff, i) > 0 /\ FileIsRead(diff, i) => place.file = FileOf(diff, i)
      /\ IsRead(diff, i) => place.number = LineOf(diff, i)
  BY DEF DiffInv, Carried
<1>9. IsRead(diff, i) => InHunk /\ place.file = FileOf(diff, i)
                                /\ place.number = LineOf(diff, i)
  <2> SUFFICES ASSUME IsRead(diff, i)
               PROVE  InHunk /\ place.file = FileOf(diff, i) /\ place.number = LineOf(diff, i)
    OBVIOUS
  <2>1. place.file = FileOf(diff, i) /\ place.number = LineOf(diff, i)
        /\ HunkStart(diff, i) # 0 /\ FileOf(diff, i) \in Files
    BY <1>7, <1>8 DEF IsRead
  <2>2. LineOf(diff, i) \in Nat
    <3>1. diff[HunkStart(diff, i)].value \in Nat /\ HunkStart(diff, i) \in Nat
      BY <1>7, <2>1
    <3> QED
      BY <3>1, FewBetween DEF LineOf
  <2> QED
    BY <2>1, <2>2, DiffAssumption DEF InHunk
<1>10. /\ FileStart(diff', i + 1) > 0 /\ FileIsRead(diff', i + 1) =>
              place'.file = FileOf(diff', i + 1)
  <2> SUFFICES ASSUME FileIsRead(diff', i + 1)
               PROVE  place'.file = FileOf(diff', i + 1)
    OBVIOUS
  <2>1. CASE line.kind = "file"
    <3>1. FileStart(diff', i + 1) = i
      BY <1>1, <2>1, LastNext DEF FileStart
    <3>2. FileOf(diff', i + 1) = line.value
      BY <1>2, <3>1 DEF FileOf
    <3>3. ReadAs[line.value] = line.value
      BY <3>2 DEF FileIsRead
    <3>4. line.reads = "file"
      BY <2>1, <3>3, LineIs, DiffAssumption
    <3> QED
      BY <1>5, <3>2, <3>3, <3>4
  <2>2. CASE line.kind # "file"
    <3>1. FileStart(diff, i) \in 1 .. Len(diff)
      BY <1>1, <1>2, <1>7, <2>2
    <3>2. /\ FileOf(diff', i + 1) = FileOf(diff, i)
          /\ FileIsRead(diff, i) /\ line.reads # "file"
      BY <1>1, <2>2, <3>1, FileNext
    <3> QED
      BY <1>5, <1>8, <3>1, <3>2
  <2> QED
    BY <2>1, <2>2
<1>11. IsRead(diff', i + 1) => place'.number = LineOf(diff', i + 1)
  <2> SUFFICES ASSUME IsRead(diff', i + 1)
               PROVE  place'.number = LineOf(diff', i + 1)
    OBVIOUS
  <2>1. line.kind # "file"
    <3> SUFFICES ASSUME line.kind = "file" PROVE FALSE
      OBVIOUS
    <3>1. FileStart(diff', i + 1) = i /\ HunkStart(diff', i + 1) = HunkStart(diff, i)
      BY <1>1, LastNext DEF FileStart, HunkStart
    <3> QED
      BY <1>7, <3>1 DEF IsRead
  <2>2. CASE line.kind = "hunk"
    <3>1. LineOf(diff', i + 1) = line.value
      BY <1>1, <2>2, NumberStarts
    <3> QED
      BY <1>5, <2>2, <3>1, LineIs
  <2>3. CASE line.kind # "hunk"
    <3>1. FileStart(diff, i) \in 1 .. Len(diff)
      BY <1>1, <1>2, <1>7, <2>1
    <3>2. /\ FileStart(diff', i + 1) = FileStart(diff, i)
          /\ FileIsRead(diff, i) /\ line.reads # "file"
      BY <1>1, <2>1, <3>1, FileNext DEF IsRead
    <3>3. HunkStart(diff', i + 1) = HunkStart(diff, i)
      BY <1>1, <2>3, LastNext DEF HunkStart
    <3>4. /\ HunkStart(diff, i) \in 1 .. Len(diff)
          /\ diff[HunkStart(diff, i)].value \in Nat
      BY <1>1, <1>2, <1>7, <3>1, <3>2, <3>3 DEF IsRead
    <3>5. /\ LineOf(diff', i + 1) = IF line.kind \in {"added", "kept"} THEN LineOf(diff, i) + 1
                                                               ELSE LineOf(diff, i)
          /\ LinesAreRead(diff, i) /\ line.kind # "rest"
          /\ ~(line.kind = "removed" /\ line.reads = "text")
      BY <1>1, <2>3, <3>4, NumberNext DEF IsRead
    <3>6. IsRead(diff, i)
      BY <3>2, <3>3, <3>5 DEF IsRead
    <3>7. line.kind # "binary"
      BY <3>6 DEF IsRead
    <3>8. \/ line.kind \in {"added", "kept"} /\ line.reads \in {"added", "text"}
          \/ line.kind \in {"removed", "marker"} /\ line.reads \in {"removed", "marker"}
      BY <2>1, <2>3, <3>5, <3>7, LineIs
    <3> QED
      BY <1>5, <1>9, <3>5, <3>6, <3>8
  <2> QED
    BY <2>2, <2>3
<1>12. Carried'
  BY <1>2, <1>10, <1>11 DEF Carried
<1>13. ASSUME NEW k \in 1 .. i, diff'[k].kind = "added"
       PROVE  /\ HunkStart(diff', k) # 0
              /\ diff'[k].reads = "added" /\ FileIsRead(diff', k) /\ LinesAreRead(diff', k) =>
                    labels'[k] = <<FileOf(diff', k), LineOf(diff', k)>>
  <2>1. k \in 2 .. Len(diff) + 1
    BY <1>1, <1>2, <1>6, <1>13 DEF Headed
  <2>2. /\ HunkStart(diff', k) = HunkStart(diff, k)
        /\ FileOf(diff', k) = FileOf(diff, k)
        /\ FileIsRead(diff', k) <=> FileIsRead(diff, k)
        /\ LinesAreRead(diff', k) <=> LinesAreRead(diff, k)
        /\ HunkStart(diff, k) # 0 => LineOf(diff', k) = LineOf(diff, k)
    BY <1>1, <2>1, PlacesStay
  <2>3. CASE k < i
    <3>1. k \in DOMAIN diff /\ diff'[k] = diff[k] /\ labels'[k] = labels[k]
      BY <1>1, <1>2, <1>4, <2>1, <2>3
    <3> QED
      BY <1>13, <2>2, <3>1 DEF DiffInv, Labelled
  <2>4. CASE k = i
    <3>1. line.kind = "added" /\ FileStart(diff, i) < HunkStart(diff, i)
          /\ FileStart(diff, i) > 0 /\ HunkStart(diff, i) # 0
      BY <1>2, <1>7, <1>13, <2>1, <2>4
    <3>2. ASSUME line.reads = "added", FileIsRead(diff, i), LinesAreRead(diff, i)
          PROVE  label = <<FileOf(diff, i), LineOf(diff, i)>>
      BY <1>3, <1>9, <3>1, <3>2 DEF IsRead
    <3> QED
      BY <1>2, <1>4, <2>2, <2>4, <3>1, <3>2
  <2> QED
    BY <2>1, <2>3, <2>4
<1>14. Labelled'
  BY <1>2, <1>13 DEF Labelled
<1> QED
  BY <1>6, <1>12, <1>14 DEF DiffInv

(* The lines come in the order that fetch_pr_diff gives them. *)
LEMMA DiffStep == DiffInv /\ DiffNext => DiffInv'
<1> SUFFICES ASSUME DiffInv, DiffNext PROVE DiffInv'
  OBVIOUS
<1>1. diff \in Seq(DiffLine) /\ Headed(diff)
  BY DEF DiffInv, DiffTyped
<1>2. PICK i \in Nat : i = Len(diff) + 1 /\ i # 0 /\ i \in 1 .. Len(diff) + 1
  BY <1>1, LenProperties
<1> DEFINE start == LastOf(diff, i, {"file", "hunk", "binary"})
<1>3. Section = IF start = 0 THEN "none" ELSE diff[start].kind
  BY <1>2 DEF Section
<1>4. /\ IsLast(start, diff, i, {"file", "hunk", "binary"})
      /\ IsLast(FileStart(diff, i), diff, i, {"file"})
      /\ IsLast(HunkStart(diff, i), diff, i, {"hunk"})
  BY <1>2, LastIs DEF FileStart, HunkStart
<1> HIDE DEF start
<1>5. i = 1 => Section = "none"
  BY <1>3, <1>4 DEF IsLast
<1>6. Section = "hunk" => FileStart(diff, i) < HunkStart(diff, i)
  <2> SUFFICES ASSUME Section = "hunk" PROVE FileStart(diff, i) < HunkStart(diff, i)
    OBVIOUS
  <2>1. start # 0 /\ diff[start].kind = "hunk" /\ start \in 0 .. i - 1
    BY <1>3, <1>4 DEF IsLast
  <2>2. ~(HunkStart(diff, i) < start)
    BY <1>2, <1>4, <2>1 DEF IsLast
  <2>3. FileStart(diff, i) # start /\ ~(FileStart(diff, i) > start)
    BY <1>2, <1>4, <2>1 DEF IsLast
  <2> QED
    BY <1>2, <1>4, <2>1, <2>2, <2>3 DEF IsLast
<1>7. Section = "file" => ~(FileStart(diff, i) < HunkStart(diff, i))
  <2> SUFFICES ASSUME Section = "file" PROVE ~(FileStart(diff, i) < HunkStart(diff, i))
    OBVIOUS
  <2>1. start # 0 /\ diff[start].kind = "file" /\ start \in 0 .. i - 1
    BY <1>3, <1>4 DEF IsLast
  <2>2. ~(FileStart(diff, i) < start)
    BY <1>2, <1>4, <2>1 DEF IsLast
  <2>3. HunkStart(diff, i) # start /\ ~(HunkStart(diff, i) > start)
    BY <1>2, <1>4, <2>1 DEF IsLast
  <2> QED
    BY <1>2, <1>4, <2>1, <2>2, <2>3 DEF IsLast
<1>8. ASSUME Section # "file", NEW line \in Headers, Walk(line)
      PROVE  DiffInv'
  <2>1. line \in DiffLine /\ line.kind = "file"
    BY <1>8 DEF DiffLine, Headers, Line
  <2> QED
    BY <1>2, <1>8, <2>1, LineStep
<1>9. ASSUME Section \in {"file", "hunk"}, NEW line \in Hunks, Walk(line)
      PROVE  DiffInv'
  <2>1. line \in DiffLine /\ line.kind = "hunk"
    BY <1>9 DEF DiffLine, Hunks, Line
  <2> QED
    BY <1>2, <1>5, <1>9, <2>1, LineStep
<1>10. ASSUME Section = "file", Walk(NoPatch)
       PROVE  DiffInv'
  <2>1. NoPatch \in DiffLine /\ NoPatch.kind = "binary"
    BY DEF DiffLine, NoPatch, Line
  <2> QED
    BY <1>2, <1>5, <1>7, <1>10, <2>1, LineStep
<1>11. ASSUME Section = "hunk", NEW line \in Contents, Walk(line)
       PROVE  DiffInv'
  <2>1. line \in DiffLine /\ line.kind # "binary"
    BY <1>11 DEF DiffLine, Contents, Line
  <2> QED
    BY <1>2, <1>5, <1>6, <1>11, <2>1, LineStep
<1>12. ASSUME Section # "none", NEW line \in Rests, Walk(line)
       PROVE  DiffInv'
  <2>1. line \in DiffLine /\ line.kind = "rest"
    BY <1>12 DEF DiffLine, Rests, Line
  <2> QED
    BY <1>2, <1>5, <1>12, <2>1, LineStep
<1> QED
  BY <1>8, <1>9, <1>10, <1>11, <1>12 DEF DiffNext

LEMMA LabelsHold == DiffInv => LabelsAreReal
BY DEF DiffInv, Labelled, LabelsAreReal

-----------------------------------------------------------------------------
(* What the demo's filters and caps keep. *)

LEMMA KeepShrinks ==
    ASSUME NEW E, NEW seq \in Seq(E), NEW kept
    PROVE  /\ Keep(seq, kept) \in Seq(E)
           /\ Len(Keep(seq, kept)) <= Len(seq) /\ Len(Keep(seq, kept)) \in Nat
           /\ PartOf(Keep(seq, kept), Len(seq), seq, kept)
<1> DEFINE b == [n \in 0 .. Len(seq) |-> n]
<1>1. b \in [0 .. Len(seq) -> Nat] /\ b[Len(seq)] = Len(seq)
  OBVIOUS
<1>2. \A n \in 1 .. Len(seq) : b[n] >= IF seq[n] \in kept THEN b[n - 1] + 1 ELSE b[n - 1]
  OBVIOUS
<1> HIDE DEF b
<1>3. /\ Keep(seq, kept) \in Seq(E)
      /\ PartOf(Keep(seq, kept), Len(seq), seq, kept)
      /\ Len(Keep(seq, kept)) <= b[Len(seq)]
  BY <1>1, <1>2, KeepPart
<1> QED
  BY <1>1, <1>3

(* What is filtered out makes it shorter; so do the first m. *)
LEMMA KeepLeavesOut ==
    ASSUME NEW E, NEW seq \in Seq(E), NEW kept, NEW j \in 1 .. Len(seq), seq[j] \notin kept
    PROVE  Len(Keep(seq, kept)) <= Len(seq) - 1
<1> DEFINE b == [n \in 0 .. Len(seq) |-> IF n < j THEN n ELSE n - 1]
<1>1. b \in [0 .. Len(seq) -> Nat] /\ b[Len(seq)] = Len(seq) - 1
  OBVIOUS
<1>2. ASSUME NEW n \in 1 .. Len(seq)
      PROVE  b[n] >= IF seq[n] \in kept THEN b[n - 1] + 1 ELSE b[n - 1]
  <2>1. n \in 0 .. Len(seq) /\ n - 1 \in 0 .. Len(seq)
    OBVIOUS
  <2> QED
    BY <2>1
<1> HIDE DEF b
<1>3. Len(Keep(seq, kept)) <= b[Len(seq)]
  BY <1>1, <1>2, KeepPart
<1> QED
  BY <1>1, <1>3

LEMMA KeepDropsFirst ==
    ASSUME NEW E, NEW seq \in Seq(E), NEW kept, NEW m \in 0 .. Len(seq),
           \A i \in 1 .. m : seq[i] \notin kept
    PROVE  Len(Keep(seq, kept)) <= Len(seq) - m
<1> DEFINE b == [n \in 0 .. Len(seq) |-> IF n <= m THEN 0 ELSE n - m]
<1>1. b \in [0 .. Len(seq) -> Nat] /\ b[Len(seq)] = Len(seq) - m
  OBVIOUS
<1>2. ASSUME NEW n \in 1 .. Len(seq)
      PROVE  b[n] >= IF seq[n] \in kept THEN b[n - 1] + 1 ELSE b[n - 1]
  <2>1. n \in 0 .. Len(seq) /\ n - 1 \in 0 .. Len(seq)
    OBVIOUS
  <2> QED
    BY <2>1
<1> HIDE DEF b
<1>3. Len(Keep(seq, kept)) <= b[Len(seq)]
  BY <1>1, <1>2, KeepPart
<1> QED
  BY <1>1, <1>3

(* The element at a place of what is kept. *)
LEMMA Kept ==
    ASSUME NEW E, NEW seq \in Seq(E), NEW kept, NEW i \in 1 .. Len(Keep(seq, kept))
    PROVE  Keep(seq, kept)[i] \in kept /\ \E j \in 1 .. Len(seq) : Keep(seq, kept)[i] = seq[j]
<1>1. PartOf(Keep(seq, kept), Len(seq), seq, kept)
  BY KeepShrinks
<1> QED
  BY <1>1 DEF PartOf

(* The cap keeps the last n. *)
LEMMA NewestKeeps ==
    ASSUME NEW E, NEW seq \in Seq(E), NEW n \in Nat \ {0}
    PROVE  /\ Newest(seq, n) \in Seq(E)
           /\ Len(Newest(seq, n)) <= n /\ Len(Newest(seq, n)) <= Len(seq)
           /\ Len(seq) <= n => Newest(seq, n) = seq
           /\ Len(seq) > n => /\ Len(Newest(seq, n)) = n
                              /\ \A i \in 1 .. n : Newest(seq, n)[i] = seq[Len(seq) - n + i]
<1>1. CASE Len(seq) <= n
  BY <1>1 DEF Newest
<1>2. CASE Len(seq) > n
  <2> DEFINE m == Len(seq) - n + 1
  <2>1. Newest(seq, n) = SubSeq(seq, m, Len(seq))
    BY <1>2 DEF Newest
  <2>2. m \in Int /\ Len(seq) \in Int /\ m <= Len(seq) /\ Len(seq) - m + 1 = n
    BY <1>2
  <2>3. \A i \in m .. Len(seq) : seq[i] \in E
    BY <1>2, ElementOfSeq
  <2>4. \A i \in 1 .. n : m + i - 1 = Len(seq) - n + i
    BY <2>2
  <2> HIDE DEF m
  <2>5. /\ SubSeq(seq, m, Len(seq)) \in Seq(E)
        /\ Len(SubSeq(seq, m, Len(seq))) = n
        /\ \A i \in 1 .. n : SubSeq(seq, m, Len(seq))[i] = seq[m + i - 1]
    BY <2>2, <2>3, SubSeqProperties
  <2>6. \A i \in 1 .. n : Newest(seq, n)[i] = seq[Len(seq) - n + i]
    BY <2>1, <2>4, <2>5
  <2>7. /\ Newest(seq, n) \in Seq(E) /\ Len(Newest(seq, n)) = n
    BY <2>1, <2>5
  <2> QED
    BY <1>2, <2>6, <2>7
<1> QED
  BY <1>1, <1>2

-----------------------------------------------------------------------------
(* The tickets and the side table. *)

(* A status is written: the tickets are still the same ones. *)
LEMMA StatusWritten ==
    ASSUME tickets \in Seq(DemoTicket), NEW i \in DOMAIN tickets,
           NEW status \in {"pending", "running", "done"},
           tickets' = [tickets EXCEPT ![i].status = status]
    PROVE  /\ tickets' \in Seq(DemoTicket) /\ Len(tickets') = Len(tickets)
           /\ DOMAIN tickets' = DOMAIN tickets
           /\ \A j \in DOMAIN tickets : tickets'[j].id = tickets[j].id
           /\ Ids(tickets') = Ids(tickets)
<1>1. tickets[i] \in DemoTicket /\ DOMAIN tickets = 1 .. Len(tickets) /\ Len(tickets) \in Nat
  BY ElementOfSeq
<1>2. [tickets[i] EXCEPT !.status = status] \in DemoTicket
  BY <1>1 DEF DemoTicket
<1>3. tickets' = [tickets EXCEPT ![i] = [tickets[i] EXCEPT !.status = status]]
  OBVIOUS
<1>4. tickets' \in Seq(DemoTicket) /\ Len(tickets') = Len(tickets)
  BY <1>1, <1>2, <1>3, ExceptSeq
<1>5. DOMAIN tickets' = DOMAIN tickets
  BY <1>3
<1>6. ASSUME NEW j \in DOMAIN tickets
      PROVE  tickets'[j].id = tickets[j].id
  <2>1. CASE j = i
    BY <1>1, <1>3, <2>1 DEF DemoTicket
  <2>2. CASE j # i
    BY <1>3, <2>2
  <2> QED
    BY <2>1, <2>2
<1>7. Ids(tickets') = Ids(tickets)
  BY <1>5, <1>6 DEF Ids
<1> QED
  BY <1>4, <1>5, <1>6, <1>7

(* Tickets that are dropped leave the others distinct. *)
LEMMA TicketsDropped ==
    ASSUME tickets \in Seq(DemoTicket), Distinct(tickets), NEW ids,
           tickets' = Keep(tickets, {t \in ToSet(tickets) : t.id \notin ids})
    PROVE  /\ tickets' \in Seq(DemoTicket) /\ Len(tickets') <= Len(tickets)
           /\ Len(tickets') \in Nat /\ Distinct(tickets') /\ Ids(tickets') \subseteq Ids(tickets)
<1> DEFINE kept == {t \in ToSet(tickets) : t.id \notin ids}
<1>1. /\ tickets' \in Seq(DemoTicket) /\ Len(tickets') <= Len(tickets) /\ Len(tickets') \in Nat
      /\ PartOf(tickets', Len(tickets), tickets, kept)
  BY KeepShrinks
<1>2. PICK m \in [1 .. Len(tickets') -> 1 .. Len(tickets)] :
          /\ \A i \in 1 .. Len(tickets') : tickets'[i] = tickets[m[i]]
          /\ \A i, j \in 1 .. Len(tickets') : i < j => m[i] < m[j]
  BY <1>1 DEF PartOf
<1>3. DOMAIN tickets' = 1 .. Len(tickets') /\ DOMAIN tickets = 1 .. Len(tickets)
      /\ Len(tickets) \in Nat
  BY <1>1
<1>4. Distinct(tickets')
  <2> SUFFICES ASSUME NEW i \in 1 .. Len(tickets'), NEW j \in 1 .. Len(tickets'),
                      tickets'[i].id = tickets'[j].id
               PROVE  i = j
    BY <1>3 DEF Distinct
  <2>1. m[i] = m[j]
    BY <1>2, <1>3 DEF Distinct
  <2>2. m[i] \in Nat /\ m[j] \in Nat
    BY <1>2
  <2>3. ~(i < j) /\ ~(j < i)
    BY <1>2, <2>1, <2>2
  <2> QED
    BY <1>1, <2>3
<1>5. Ids(tickets') \subseteq Ids(tickets)
  <2> SUFFICES ASSUME NEW i \in DOMAIN tickets' PROVE tickets'[i].id \in Ids(tickets)
    BY DEF Ids
  <2>1. tickets'[i] = tickets[m[i]] /\ m[i] \in DOMAIN tickets
    BY <1>2, <1>3
  <2> QED
    BY <2>1 DEF Ids
<1> QED
  BY <1>1, <1>4, <1>5

(* Without those that _trim drops they are no more than the cap. *)
LEMMA CrowdedDropped ==
    ASSUME tickets \in Seq(DemoTicket), Distinct(tickets),
           tickets' = Keep(tickets, {t \in ToSet(tickets) : t.id \notin Crowded})
    PROVE  Len(tickets') <= MaxTickets
<1> DEFINE kept == {t \in ToSet(tickets) : t.id \notin Crowded}
           n == Len(tickets)
<1>1. MaxTickets \in Nat \ {0} /\ n \in Nat /\ DOMAIN tickets = 1 .. n
  BY DemoAssumption
<1>2. Len(tickets') <= n
  BY TicketsDropped
<1>3. CASE n <= MaxTickets
  <2>1. Len(tickets') \in Nat
    BY TicketsDropped
  <2> QED
    BY <1>1, <1>2, <1>3, <2>1
<1>4. CASE n > MaxTickets
  <2>1. /\ Len(Newest(tickets, MaxTickets)) = MaxTickets
        /\ DOMAIN Newest(tickets, MaxTickets) = 1 .. MaxTickets
        /\ \A i \in 1 .. MaxTickets : Newest(tickets, MaxTickets)[i] = tickets[n - MaxTickets + i]
    <3>1. /\ Newest(tickets, MaxTickets) \in Seq(DemoTicket)
          /\ Len(Newest(tickets, MaxTickets)) = MaxTickets
          /\ \A i \in 1 .. MaxTickets : Newest(tickets, MaxTickets)[i] = tickets[n - MaxTickets + i]
      BY <1>1, <1>4, NewestKeeps
    <3>2. DOMAIN Newest(tickets, MaxTickets) = 1 .. MaxTickets
      BY <3>1, LenProperties
    <3> QED
      BY <3>1, <3>2
  <2>2. ASSUME NEW i \in 1 .. n - MaxTickets
        PROVE  tickets[i] \notin kept
    <3>1. i \in 1 .. n
      BY <1>1, <1>4
    <3>2. tickets[i].id \notin Ids(Newest(tickets, MaxTickets))
      <4> SUFFICES ASSUME NEW k \in 1 .. MaxTickets,
                          tickets[i].id = tickets[n - MaxTickets + k].id
                   PROVE  FALSE
        BY <2>1 DEF Ids
      <4>1. n - MaxTickets + k \in 1 .. n /\ i # n - MaxTickets + k
        BY <1>1, <1>4
      <4> QED
        BY <1>1, <3>1, <4>1 DEF Distinct
    <3>3. tickets[i].id \in Ids(tickets)
      BY <1>1, <3>1 DEF Ids
    <3> QED
      BY <3>2, <3>3 DEF Crowded
  <2>3. n - MaxTickets \in 0 .. n
    BY <1>1, <1>4
  <2> HIDE DEF kept
  <2>4. Len(Keep(tickets, kept)) <= n - (n - MaxTickets)
    BY <2>2, <2>3, KeepDropsFirst
  <2> QED
    BY <1>1, <2>4 DEF kept
<1> QED
  BY <1>1, <1>3, <1>4

(* Requests are finitely many, and so are those that have not trimmed. *)
LEMMA FewToTrim ==
    /\ IsFiniteSet(ToTrim) /\ Cardinality(ToTrim) \in Nat
    /\ \A r : r \notin ToTrim => Cardinality(ToTrim \cup {r}) = Cardinality(ToTrim) + 1
<1>1. IsFiniteSet(Requests)
  BY FS_Interval, DemoAssumption DEF Requests
<1>2. IsFiniteSet(ToTrim)
  BY <1>1, FS_Subset DEF ToTrim
<1> QED
  BY <1>2, FS_CardinalityType, FS_AddElement

-----------------------------------------------------------------------------
(* The requests. *)

(* Between its steps a request is one that asks. *)
LEMMA AskingIs ==
    ASSUME DemoTyped, NEW r \in Requests, request[r].at # "idle"
    PROVE  /\ request[r] \in Asking /\ request[r] # NotAsking
           /\ r \in 1 .. MaxVisits /\ <<request[r].session, request[r].choice>> \in Visits
BY DEF DemoTyped, Asking, NotAsking, Requests

LEMMA BootstrapStep ==
    ASSUME DemoInv, deployment = "demo", UNCHANGED deployment,
           NEW v \in Visits, Bootstrap(v[1], v[2])
    PROVE  DemoInv'
<1> DEFINE s == v[1]
           n == visits + 1
           asked == [at |-> "enqueue", session |-> s, choice |-> v[2], id |-> n, new |-> TRUE]
<1>1. s \in Sessions /\ v[2] \in Selections /\ v = <<s, v[2]>>
  BY DemoAssumption
<1>2. /\ visits \in Nat /\ visits < MaxVisits /\ MaxVisits \in Nat /\ visits' = n /\ n \in Requests
      /\ known' = known \cup {s}
      /\ UNCHANGED <<tickets, context, processing, active, rows, turn, waiting, late, attempt>>
  BY DemoAssumption DEF DemoInv, DemoTyped, Bootstrap, Touch, Requests
<1>3. \/ /\ Contains(delivered, s) /\ request' = request
         /\ delivered' = Append(Keep(delivered, Sessions \ {s}), s)
      \/ request' = [request EXCEPT ![n] = asked] /\ delivered' = delivered
  BY <1>2 DEF Bootstrap, Asks
<1>4. asked \in Asking
  BY <1>1, <1>2 DEF Asking
<1>5. /\ delivered \in Seq(Sessions) /\ request \in [Requests -> Asking \cup {NotAsking}]
      /\ request[n] = NotAsking
  BY <1>2 DEF DemoInv, DemoTyped, Numbered
<1>6. delivered' \in Seq(Sessions) /\ Len(delivered') <= Len(delivered)
  <2>1. CASE Contains(delivered, s) /\ delivered' = Append(Keep(delivered, Sessions \ {s}), s)
    <3>1. PICK j \in 1 .. Len(delivered) : delivered[j] = s
      BY <2>1 DEF Contains
    <3>2. /\ Keep(delivered, Sessions \ {s}) \in Seq(Sessions)
          /\ Len(Keep(delivered, Sessions \ {s})) \in Nat
      BY <1>5, KeepShrinks
    <3>3. Len(Keep(delivered, Sessions \ {s})) <= Len(delivered) - 1
      BY <1>5, <3>1, KeepLeavesOut
    <3>4. delivered' \in Seq(Sessions)
          /\ Len(delivered') = Len(Keep(delivered, Sessions \ {s})) + 1
      BY <1>1, <2>1, <3>2, AppendProperties
    <3> QED
      BY <1>5, <3>2, <3>3, <3>4
  <2>2. CASE delivered' = delivered
    BY <1>5, <2>2
  <2> QED
    BY <1>3, <2>1, <2>2
<1>7. /\ request' \in [Requests -> Asking \cup {NotAsking}]
      /\ \A r \in Requests : request'[r] = request[r] \/ (r = n /\ request'[r] = asked)
  BY <1>2, <1>3, <1>4, <1>5
<1>8. DemoTyped'
  <2>1. visits' \in 0 .. MaxVisits
    BY <1>2
  <2> QED
    BY <1>2, <1>6, <1>7, <2>1 DEF DemoInv, DemoTyped, Requests
<1>9. Numbered'
  <2>1. Distinct(tickets') /\ Ids(tickets') = Ids(tickets) /\ Ids(tickets) \subseteq 1 .. visits
    BY <1>2 DEF DemoInv, Numbered
  <2>2. Ids(tickets') \subseteq 1 .. visits'
    BY <1>2, <2>1
  <2>3. ASSUME NEW r \in Requests, r > visits'
        PROVE  request'[r] = NotAsking
    BY <1>2, <1>7, <2>3 DEF DemoInv, Numbered, Requests
  <2>4. ASSUME NEW r \in Requests, request'[r].at = "enqueue"
        PROVE  request'[r].id = r /\ request'[r].new /\ r \notin Ids(tickets')
    <3>1. CASE request'[r] = request[r]
      BY <2>1, <2>4, <3>1 DEF DemoInv, Numbered
    <3>2. CASE r = n /\ request'[r] = asked
      BY <1>2, <2>1, <3>2
    <3> QED
      BY <1>7, <3>1, <3>2
  <2> QED
    BY <2>1, <2>2, <2>3, <2>4 DEF Numbered
<1>10. Trimmed'
  <2>1. ToTrim' = ToTrim
    BY <1>5, <1>7 DEF ToTrim, NotAsking
  <2>2. Len(delivered') <= DedupCapacity
    <3>1. Len(delivered) \in Nat /\ Len(delivered') \in Nat /\ DedupCapacity \in Nat
      BY <1>5, <1>6, DemoAssumption
    <3> QED
      BY <1>6, <3>1 DEF DemoInv, Trimmed
  <2> QED
    BY <1>2, <2>1, <2>2 DEF DemoInv, Trimmed
<1>11. Owned'
  <2>1. ASSUME NEW r \in Requests, request'[r] # NotAsking
        PROVE  request'[r].session \in known'
    BY <1>2, <1>7, <2>1 DEF DemoInv, Owned
  <2>2. Reviewing' = Reviewing
    BY <1>2 DEF Reviewing
  <2> QED
    BY <1>2, <2>1, <2>2 DEF DemoInv, Owned
<1>12. AsChosen'
  BY <1>2 DEF DemoInv, AsChosen, PipelineTypeOK
<1> QED
  BY <1>8, <1>9, <1>10, <1>11, <1>12 DEF DemoInv

(* First the ticket. *)
LEMMA EnqueueTicketStep ==
    ASSUME DemoInv, deployment = "demo", UNCHANGED deployment,
           NEW r \in Requests, EnqueueTicket(r)
    PROVE  DemoInv'
<1> DEFINE q == request[r]
           number == PRNumber[q.session]
           new == [id |-> q.id, pr |-> number, status |-> "pending"]
           found == {i \in DOMAIN tickets : tickets[i].pr = number}
           asks(id, isNew) == [q EXCEPT !.at = "context", !.id = id, !.new = isNew]
<1>1. /\ q \in Asking /\ q.at = "enqueue" /\ q # NotAsking
      /\ q.id = r /\ q.new /\ r \notin Ids(tickets) /\ r \in 1 .. visits
  <2>1. q.at = "enqueue"
    BY DEF EnqueueTicket
  <2>2. q \in Asking /\ q # NotAsking
    BY <2>1, AskingIs DEF DemoInv
  <2>3. r \in 1 .. visits
    BY <2>2 DEF DemoInv, DemoTyped, Numbered, Requests
  <2> QED
    BY <2>1, <2>2, <2>3 DEF DemoInv, Numbered
<1>2. UNCHANGED <<known, processing, active, rows, turn, visits, late, attempt, delivered,
                  context, waiting>>
  BY DEF EnqueueTicket, InRequest
<1>3. /\ tickets \in Seq(DemoTicket) /\ DOMAIN tickets = 1 .. Len(tickets) /\ Len(tickets) \in Nat
      /\ request \in [Requests -> Asking \cup {NotAsking}]
      /\ Distinct(tickets) /\ Ids(tickets) \subseteq 1 .. visits
  BY LenProperties DEF DemoInv, DemoTyped, Numbered
<1>4. \E id \in Requests, isNew \in BOOLEAN :
        /\ request' = [request EXCEPT ![r] = asks(id, isNew)]
        /\ tickets' \in Seq(DemoTicket) /\ Len(tickets') \in Nat
        /\ Distinct(tickets') /\ Ids(tickets') \subseteq Ids(tickets) \cup {r}
        /\ Len(tickets') = IF isNew THEN Len(tickets) + 1 ELSE Len(tickets)
  <2>1. CASE found # {}
    <3>1. PICK i \in found :
            /\ tickets' = [tickets EXCEPT ![i].status = "pending"]
            /\ request' = [request EXCEPT ![r] = asks(tickets[i].id, FALSE)]
      BY <2>1 DEF EnqueueTicket, Asks
    <3>2. /\ tickets' \in Seq(DemoTicket) /\ Len(tickets') = Len(tickets)
          /\ DOMAIN tickets' = DOMAIN tickets /\ Ids(tickets') = Ids(tickets)
          /\ \A j \in DOMAIN tickets : tickets'[j].id = tickets[j].id
      BY <1>3, <3>1, StatusWritten
    <3>3. Distinct(tickets')
      BY <1>3, <3>2 DEF Distinct
    <3>4. tickets[i].id \in Requests
      <4>1. tickets[i] \in DemoTicket
        BY <1>3, <3>1, ElementOfSeq
      <4> QED
        BY <4>1 DEF DemoTicket
    <3> QED
      BY <1>3, <3>1, <3>2, <3>3, <3>4
  <2>2. CASE found = {}
    <3>1. /\ tickets' = Append(tickets, new)
          /\ request' = [request EXCEPT ![r] = [q EXCEPT !.at = "context"]]
      BY <2>2 DEF EnqueueTicket, Asks
    <3>2. [q EXCEPT !.at = "context"] = asks(r, TRUE)
      BY <1>1 DEF Asking
    <3>3. new \in DemoTicket
      BY <1>1 DEF DemoTicket, Asking
    <3> HIDE DEF new
    <3>4. /\ tickets' \in Seq(DemoTicket) /\ Len(tickets') = Len(tickets) + 1
          /\ \A i \in 1 .. Len(tickets) : tickets'[i] = tickets[i]
          /\ tickets'[Len(tickets) + 1] = new
          /\ DOMAIN tickets' = 1 .. Len(tickets) + 1
      BY <1>3, <3>1, <3>3, AppendProperties, LenProperties
    <3>5. \A i \in 1 .. Len(tickets) : tickets'[i].id \in Ids(tickets)
      BY <1>3, <3>4 DEF Ids
    <3>6. tickets'[Len(tickets) + 1].id = r
      BY <1>1, <3>4 DEF new
    <3>7. \A i \in DOMAIN tickets' : i \in 1 .. Len(tickets) \/ i = Len(tickets) + 1
      BY <1>3, <3>4
    <3>8. Distinct(tickets')
      <4> SUFFICES ASSUME NEW i \in DOMAIN tickets', NEW j \in DOMAIN tickets',
                          tickets'[i].id = tickets'[j].id
                   PROVE  i = j
        BY DEF Distinct
      <4>1. CASE i \in 1 .. Len(tickets) /\ j \in 1 .. Len(tickets)
        BY <1>3, <3>4, <4>1 DEF Distinct
      <4>2. CASE i = Len(tickets) + 1 \/ j = Len(tickets) + 1
        BY <1>1, <3>5, <3>6, <3>7, <4>2
      <4> QED
        BY <3>7, <4>1, <4>2
    <3>9. Ids(tickets') \subseteq Ids(tickets) \cup {r}
      BY <3>5, <3>6, <3>7 DEF Ids
    <3> QED
      <4>1. request' = [request EXCEPT ![r] = asks(r, TRUE)]
        BY <3>1, <3>2
      <4>2. Len(tickets') \in Nat /\ Len(tickets') = IF TRUE THEN Len(tickets) + 1 ELSE Len(tickets)
        BY <1>3, <3>4
      <4> HIDE DEF asks
      <4> QED
        BY <3>4, <3>8, <3>9, <4>1, <4>2
  <2> QED
    BY <2>1, <2>2
<1>5. PICK id \in Requests, isNew \in BOOLEAN :
        /\ request' = [request EXCEPT ![r] = asks(id, isNew)]
        /\ tickets' \in Seq(DemoTicket) /\ Len(tickets') \in Nat
        /\ Distinct(tickets') /\ Ids(tickets') \subseteq Ids(tickets) \cup {r}
        /\ Len(tickets') = IF isNew THEN Len(tickets) + 1 ELSE Len(tickets)
  BY <1>4
<1>6. /\ asks(id, isNew) \in Asking /\ asks(id, isNew).at = "context"
      /\ asks(id, isNew).session = q.session /\ asks(id, isNew).new = isNew
  BY <1>1 DEF Asking
<1> HIDE DEF asks
<1>7. /\ request' \in [Requests -> Asking \cup {NotAsking}]
      /\ request'[r] = asks(id, isNew)
      /\ \A p \in Requests : p # r => request'[p] = request[p]
  BY <1>3, <1>5, <1>6
<1>8. DemoTyped'
  BY <1>2, <1>5, <1>7 DEF DemoInv, DemoTyped, Requests
<1>9. Numbered'
  <2>1. Ids(tickets') \subseteq 1 .. visits'
    BY <1>1, <1>2, <1>3, <1>5
  <2>2. ASSUME NEW p \in Requests, p > visits'
        PROVE  request'[p] = NotAsking
    BY <1>1, <1>2, <1>7, <2>2 DEF DemoInv, DemoTyped, Numbered
  <2>3. ASSUME NEW p \in Requests, request'[p].at = "enqueue"
        PROVE  request'[p].id = p /\ request'[p].new /\ p \notin Ids(tickets')
    BY <1>5, <1>6, <1>7, <2>3 DEF DemoInv, Numbered
  <2> QED
    BY <1>5, <2>1, <2>2, <2>3 DEF Numbered
<1>10. Trimmed'
  <2>1. r \notin ToTrim
    BY <1>1 DEF ToTrim
  <2>2. ToTrim' = IF isNew THEN ToTrim \cup {r} ELSE ToTrim
    BY <1>6, <1>7, <2>1 DEF ToTrim, Requests
  <2>3. Cardinality(ToTrim \cup {r}) = Cardinality(ToTrim) + 1 /\ Cardinality(ToTrim) \in Nat
    BY <2>1, FewToTrim
  <2>4. PICK few : few = ToTrim'
    OBVIOUS
  <2>5. Cardinality(few) = IF isNew THEN Cardinality(ToTrim) + 1 ELSE Cardinality(ToTrim)
    BY <2>2, <2>3, <2>4
  <2>6. Len(tickets') <= MaxTickets + Cardinality(few)
    <3>1. MaxTickets \in Nat /\ Len(tickets) <= MaxTickets + Cardinality(ToTrim)
      BY DemoAssumption DEF DemoInv, Trimmed
    <3> QED
      BY <1>3, <1>5, <2>3, <2>5, <3>1
  <2> QED
    BY <1>2, <2>4, <2>6 DEF DemoInv, Trimmed
<1>11. Owned'
  <2>1. ASSUME NEW p \in Requests, request'[p] # NotAsking
        PROVE  request'[p].session \in known'
    BY <1>1, <1>2, <1>6, <1>7, <2>1 DEF DemoInv, Owned
  <2>2. Reviewing' = Reviewing
    BY <1>2 DEF Reviewing
  <2> QED
    BY <1>2, <2>1, <2>2 DEF DemoInv, Owned
<1>12. AsChosen'
  BY <1>2 DEF DemoInv, AsChosen, PipelineTypeOK
<1> QED
  BY <1>8, <1>9, <1>10, <1>11, <1>12 DEF DemoInv

(* A handler that ends leaves nothing of its request. *)
LEMMA RequestEnds ==
    ASSUME DemoInv, deployment = "demo", UNCHANGED deployment,
           NEW r \in Requests, request[r].at \in {"enqueue", "mark"}, Asks(r, NotAsking),
           UNCHANGED <<known, processing, active, rows, turn, visits, late, attempt, tickets,
                       context>>,
           delivered' \in Seq(Sessions), Len(delivered') <= DedupCapacity
    PROVE  DemoInv'
<1>1. /\ request \in [Requests -> Asking \cup {NotAsking}]
      /\ request' = [request EXCEPT ![r] = NotAsking]
  BY DEF DemoInv, DemoTyped, Asks
<1>2. /\ request' \in [Requests -> Asking \cup {NotAsking}]
      /\ \A p \in Requests : request'[p] = request[p] \/ request'[p] = NotAsking
      /\ \A p \in Requests : p # r => request'[p] = request[p]
      /\ request'[r] = NotAsking
  BY <1>1
<1>3. DemoTyped'
  BY <1>2 DEF DemoInv, DemoTyped, Requests
<1>4. Numbered'
  <2>1. \A p \in Requests : p > visits' => request'[p] = NotAsking
    BY <1>2 DEF DemoInv, Numbered
  <2>2. \A p \in Requests : request'[p].at = "enqueue" =>
           request'[p].id = p /\ request'[p].new /\ p \notin Ids(tickets')
    BY <1>2 DEF DemoInv, Numbered, NotAsking
  <2> QED
    BY <2>1, <2>2 DEF DemoInv, Numbered, Requests
<1>5. Trimmed'
  <2>1. ToTrim' = ToTrim
    BY <1>2 DEF ToTrim, NotAsking, Requests
  <2> QED
    BY <2>1 DEF DemoInv, Trimmed
<1>6. Owned'
  <2>1. \A p \in Requests : request'[p] # NotAsking => request'[p].session \in known'
    BY <1>2 DEF DemoInv, Owned
  <2>2. Reviewing' = Reviewing
    BY DEF Reviewing
  <2> QED
    BY <2>1, <2>2 DEF DemoInv, Owned, Requests
<1>7. AsChosen'
  BY DEF DemoInv, AsChosen, PipelineTypeOK
<1> QED
  BY <1>3, <1>4, <1>5, <1>6, <1>7 DEF DemoInv

LEMMA EnqueueRaisesStep ==
    ASSUME DemoInv, deployment = "demo", UNCHANGED deployment,
           NEW r \in Requests, EnqueueRaises(r)
    PROVE  DemoInv'
<1>1. delivered' \in Seq(Sessions) /\ Len(delivered') <= DedupCapacity
  BY DEF DemoInv, DemoTyped, Trimmed, EnqueueRaises
<1> QED
  BY <1>1, RequestEnds DEF EnqueueRaises, InRequest

LEMMA MarkDeliveryStep ==
    ASSUME DemoInv, deployment = "demo", UNCHANGED deployment,
           NEW r \in Requests, MarkDelivery(r)
    PROVE  DemoInv'
<1> DEFINE s == request[r].session
           others == Keep(delivered, Sessions \ {s})
<1>1. s \in Sessions /\ delivered \in Seq(Sessions)
  <2>1. request[r].at # "idle"
    BY DEF MarkDelivery
  <2> QED
    BY <2>1, AskingIs DEF DemoInv, DemoTyped, Asking
<1>2. others \in Seq(Sessions)
  BY <1>1, KeepShrinks
<1>3. DedupCapacity \in Nat \ {0}
  BY DemoAssumption
<1>4. delivered' = Newest(Append(others, s), DedupCapacity)
  BY DEF MarkDelivery
<1> HIDE DEF s, others
<1>5. Append(others, s) \in Seq(Sessions)
  BY <1>1, <1>2, AppendProperties
<1>6. delivered' \in Seq(Sessions) /\ Len(delivered') <= DedupCapacity
  BY <1>3, <1>4, <1>5, NewestKeeps
<1> QED
  BY <1>6, RequestEnds DEF MarkDelivery, InRequest

(* The side table, and the trim. *)
LEMMA StoreContextStep ==
    ASSUME DemoInv, deployment = "demo", UNCHANGED deployment,
           NEW r \in Requests, StoreContext(r)
    PROVE  DemoInv'
<1> DEFINE q == request[r]
           who == [session |-> q.session, choice |-> q.choice]
           written == [d \in DOMAIN context \cup {q.id} |-> IF d = q.id THEN who ELSE context[d]]
           dropped == IF q.new THEN Crowded ELSE {}
<1>1. /\ q \in Asking /\ q.at = "context" /\ q # NotAsking
      /\ q.id \in Requests /\ q.new \in BOOLEAN /\ who \in Visit
      /\ who.session = q.session /\ q.session \in known
  <2>1. q.at = "context"
    BY DEF StoreContext
  <2>2. q \in Asking /\ q # NotAsking /\ <<q.session, q.choice>> \in Visits
    BY <2>1, AskingIs DEF DemoInv
  <2>3. who \in Visit
    BY <2>2 DEF Visit
  <2> QED
    BY <2>1, <2>2, <2>3 DEF Asking, DemoInv, Owned
<1>2. /\ UNCHANGED <<known, processing, active, rows, turn, visits, late, attempt, delivered>>
      /\ request' = [request EXCEPT ![r] = [q EXCEPT !.at = "mark"]]
      /\ tickets' = Keep(tickets, {t \in ToSet(tickets) : t.id \notin dropped})
      /\ context' = [d \in DOMAIN written \ dropped |-> written[d]]
  BY DEF StoreContext, InRequest, Asks, Drop
<1>3. /\ request \in [Requests -> Asking \cup {NotAsking}]
      /\ tickets \in Seq(DemoTicket) /\ Distinct(tickets) /\ Len(tickets) \in Nat
      /\ DOMAIN context \subseteq Requests
      /\ \A d \in DOMAIN context : context[d] \in Visit /\ context[d].session \in known
  BY LenProperties DEF DemoInv, DemoTyped, Numbered, Owned
<1>4. /\ DOMAIN written \subseteq Requests
      /\ \A d \in DOMAIN written : written[d] \in Visit /\ written[d].session \in known
  <2>1. DOMAIN written = {q.id} \cup DOMAIN context
    OBVIOUS
  <2>2. ASSUME NEW d \in DOMAIN written
        PROVE  written[d] = IF d = q.id THEN who ELSE context[d]
    OBVIOUS
  <2> HIDE DEF who
  <2> QED
    BY <1>1, <1>3, <2>1, <2>2
<1>5. /\ DOMAIN context' \subseteq Requests
      /\ \A d \in DOMAIN context' : context'[d] \in Visit /\ context'[d].session \in known
  <2> HIDE DEF written, dropped
  <2> QED
    BY <1>2, <1>4
<1>6. /\ tickets' \in Seq(DemoTicket) /\ Len(tickets') <= Len(tickets)
      /\ Len(tickets') \in Nat /\ Distinct(tickets') /\ Ids(tickets') \subseteq Ids(tickets)
  <2> HIDE DEF dropped
  <2> QED
    BY <1>2, <1>3, TicketsDropped
<1>7. [q EXCEPT !.at = "mark"] \in Asking /\ [q EXCEPT !.at = "mark"].at = "mark"
      /\ [q EXCEPT !.at = "mark"].session = q.session
  BY <1>1 DEF Asking
<1>8. /\ request' \in [Requests -> Asking \cup {NotAsking}]
      /\ request'[r].at = "mark" /\ request'[r].session = q.session
      /\ \A p \in Requests : p # r => request'[p] = request[p]
  BY <1>2, <1>3, <1>7
<1>9. DemoTyped'
  BY <1>2, <1>5, <1>6, <1>8 DEF DemoInv, DemoTyped, Requests
<1>10. Numbered'
  <2>1. \A p \in Requests : p > visits' => request'[p] = NotAsking
    BY <1>1, <1>2, <1>8 DEF DemoInv, Numbered
  <2>2. \A p \in Requests : request'[p].at = "enqueue" =>
           request'[p].id = p /\ request'[p].new /\ p \notin Ids(tickets')
    BY <1>6, <1>8 DEF DemoInv, Numbered
  <2>3. Ids(tickets') \subseteq 1 .. visits'
    BY <1>2, <1>6 DEF DemoInv, Numbered
  <2> QED
    BY <1>6, <2>1, <2>2, <2>3 DEF Numbered, Requests
<1>11. Trimmed'
  <2>1. PICK few : few = ToTrim'
    OBVIOUS
  <2>2. few = ToTrim \ {r}
    BY <1>8, <2>1 DEF ToTrim, Requests
  <2>3. MaxTickets \in Nat /\ Len(tickets) <= MaxTickets + Cardinality(ToTrim)
    BY DemoAssumption DEF DemoInv, Trimmed
  <2>4. Cardinality(few) \in Nat
    BY <2>2, FewToTrim, FS_Subset, FS_CardinalityType
  <2>5. Len(tickets') <= MaxTickets + Cardinality(few)
    <3>1. CASE q.new
      <4>1. Len(tickets') <= MaxTickets
        BY <1>2, <1>3, <3>1, CrowdedDropped
      <4> QED
        BY <1>6, <2>3, <2>4, <4>1
    <3>2. CASE ~q.new
      <4>1. few = ToTrim
        BY <2>2, <3>2 DEF ToTrim
      <4>2. Cardinality(few) = Cardinality(ToTrim)
        BY <4>1
      <4> QED
        BY <1>3, <1>6, <2>3, <2>4, <4>2
    <3> QED
      BY <3>1, <3>2
  <2> QED
    BY <1>2, <2>1, <2>5 DEF DemoInv, Trimmed
<1>12. Owned'
  <2>1. \A p \in Requests : request'[p] # NotAsking => request'[p].session \in known'
    BY <1>1, <1>2, <1>8 DEF DemoInv, Owned
  <2>2. Reviewing' = Reviewing
    BY <1>2 DEF Reviewing
  <2> QED
    BY <1>2, <1>5, <2>1, <2>2 DEF DemoInv, Owned, Requests
<1>13. AsChosen'
  BY <1>2 DEF DemoInv, AsChosen, PipelineTypeOK
<1> QED
  BY <1>9, <1>10, <1>11, <1>12, <1>13 DEF DemoInv

-----------------------------------------------------------------------------
(* The dispatcher. *)

(* Where a turn is tells its shape. *)
LEMMA TurnIs ==
    ASSUME DemoTyped
    PROVE  /\ turn.at = "idle" <=> turn = Resting
           /\ turn # Resting => turn.id \in Requests
           /\ turn.at = "review" => turn.models \in [DemoProviders -> Selections]
<1>1. turn \in Turns
  BY DEF DemoTyped
<1>2. CASE turn = Resting
  BY <1>2 DEF Resting
<1>3. CASE turn \in [at : {"refresh", "finalize"}, id : Requests]
  BY <1>3 DEF Resting
<1>4. CASE turn \in [at : {"review"}, id : Requests, models : [DemoProviders -> Selections]]
  BY <1>4 DEF Resting
<1> QED
  BY <1>1, <1>2, <1>3, <1>4 DEF Turns

(* The visitor whose ticket is processed. *)
LEMMA ProcessingIs ==
    ASSUME DemoTyped, processing # Nobody
    PROVE  /\ processing.session \in Sessions /\ processing.choice \in Selections
           /\ <<processing.session, processing.choice>> \in Visits
           /\ ProviderOf[processing.choice] \in DemoProviders
<1>1. PICK v \in Visits : processing = [session |-> v[1], choice |-> v[2]]
  BY DEF DemoTyped, Visit
<1>2. v \in Sessions \X Selections /\ v = <<v[1], v[2]>>
  BY DemoAssumption
<1> QED
  BY <1>1, <1>2, DemoAssumption

LEMMA ClaimNextDueStep ==
    ASSUME DemoInv, deployment = "demo", UNCHANGED deployment, ClaimNextDue
    PROVE  DemoInv'
<1> DEFINE due == {i \in DOMAIN tickets : tickets[i].status = "pending"}
           first == CHOOSE i \in due : \A j \in due : i <= j
<1>1. /\ turn = Resting
      /\ UNCHANGED <<known, delivered, request, active, visits, late, context, rows, waiting,
                     attempt>>
      /\ \/ /\ due # {}
            /\ tickets' = [tickets EXCEPT ![first].status = "running"]
            /\ turn' = [at |-> "refresh", id |-> tickets[first].id]
            /\ processing' = IF tickets[first].id \in DOMAIN context
                             THEN context[tickets[first].id] ELSE Nobody
         \/ processing' = Nobody /\ UNCHANGED <<tickets, turn>>
  BY DEF ClaimNextDue, InTurn
<1>2. /\ tickets \in Seq(DemoTicket) /\ DOMAIN tickets = 1 .. Len(tickets) /\ Len(tickets) \in Nat
      /\ \A d \in DOMAIN context : context[d] \in Visit /\ context[d].session \in known
  BY LenProperties DEF DemoInv, DemoTyped, Owned
<1>3. ASSUME due # {}
      PROVE  first \in DOMAIN tickets
  <2>1. due \in SUBSET Nat
    BY <1>2
  <2> HIDE DEF due
  <2>2. first \in due
    BY <1>3, <2>1, Least
  <2> QED
    BY <2>2 DEF due
<1> HIDE DEF first
<1>4. /\ tickets' \in Seq(DemoTicket) /\ Len(tickets') = Len(tickets)
      /\ Distinct(tickets') /\ Ids(tickets') = Ids(tickets)
  <2>1. CASE due # {} /\ tickets' = [tickets EXCEPT ![first].status = "running"]
    <3>1. /\ tickets' \in Seq(DemoTicket) /\ Len(tickets') = Len(tickets)
          /\ DOMAIN tickets' = DOMAIN tickets /\ Ids(tickets') = Ids(tickets)
          /\ \A j \in DOMAIN tickets : tickets'[j].id = tickets[j].id
      BY <1>2, <1>3, <2>1, StatusWritten
    <3> QED
      BY <3>1 DEF DemoInv, Numbered, Distinct
  <2>2. CASE UNCHANGED tickets
    BY <1>2, <2>2 DEF DemoInv, Numbered
  <2> QED
    BY <1>1, <2>1, <2>2
<1>5. /\ turn' \in Turns /\ turn'.at # "review"
      /\ processing' = Nobody \/ (processing' \in Visit /\ processing'.session \in known)
  <2>1. CASE /\ due # {}
             /\ turn' = [at |-> "refresh", id |-> tickets[first].id]
             /\ processing' = IF tickets[first].id \in DOMAIN context
                              THEN context[tickets[first].id] ELSE Nobody
    <3>1. tickets[first] \in DemoTicket
      BY <1>2, <1>3, <2>1, ElementOfSeq
    <3>2. tickets[first].id \in Requests
      BY <3>1 DEF DemoTicket
    <3> QED
      BY <1>2, <2>1, <3>2 DEF Turns
  <2>2. CASE processing' = Nobody /\ UNCHANGED turn
    BY <1>1, <2>2 DEF Turns, Resting
  <2> QED
    BY <1>1, <2>1, <2>2
<1>6. DemoTyped'
  BY <1>1, <1>4, <1>5 DEF DemoInv, DemoTyped, Requests
<1>7. Numbered'
  BY <1>1, <1>4 DEF DemoInv, Numbered, Requests
<1>8. Trimmed'
  <2>1. ToTrim' = ToTrim
    BY <1>1 DEF ToTrim, Requests
  <2> QED
    BY <1>1, <1>4, <2>1 DEF DemoInv, Trimmed
<1>9. Owned'
  <2>1. Reviewing' \subseteq known' \cup late'
    BY <1>1, <1>5 DEF Reviewing
  <2> QED
    BY <1>1, <2>1 DEF DemoInv, Owned, Requests
<1>10. AsChosen'
  <2>1. attempt.at # "gather" /\ PipelineTypeOK
    BY <1>1 DEF DemoInv, AsChosen, Resting
  <2> QED
    BY <1>1, <1>5, <2>1 DEF AsChosen, PipelineTypeOK
<1> QED
  BY <1>6, <1>7, <1>8, <1>9, <1>10 DEF DemoInv

(* What the dispatcher reads of the choice is the visitor's. *)
LEMMA ModelsAre ==
    ASSUME DemoTyped
    PROVE  /\ Models \in [DemoProviders -> Selections] /\ ProviderInForce \in DemoProviders
           /\ processing # Nobody => Models[ProviderInForce] = processing.choice
<1>1. Priced \in [DemoProviders -> Selections] /\ active \in DemoProviders
  BY DemoAssumption DEF DemoTyped
<1>2. CASE processing = Nobody
  BY <1>1, <1>2 DEF Models, ProviderInForce
<1>3. CASE processing # Nobody
  <2>1. processing.choice \in Selections /\ ProviderOf[processing.choice] \in DemoProviders
    BY <1>3, ProcessingIs
  <2>2. ProviderInForce = ProviderOf[processing.choice]
    BY <1>3 DEF ProviderInForce
  <2>3. Models = [Priced EXCEPT ![ProviderOf[processing.choice]] = processing.choice]
    BY <1>3 DEF Models
  <2> QED
    BY <1>1, <2>1, <2>2, <2>3
<1> QED
  BY <1>2, <1>3

(* Steps of the dispatcher that only touch its turn and the attempt. *)
LEMMA AttemptStep ==
    ASSUME DemoInv, AsChosen', turn' \in Turns, turn # Resting, turn' # Resting,
           UNCHANGED <<deployment, known, delivered, request, active, visits, late, tickets, context,
                       processing, rows, waiting>>
    PROVE  DemoInv'
<1>1. DemoTyped'
  BY DEF DemoInv, DemoTyped, Requests
<1>2. Numbered'
  BY DEF DemoInv, Numbered, Requests
<1>3. Trimmed'
  <2>1. ToTrim' = ToTrim
    BY DEF ToTrim, Requests
  <2> QED
    BY <2>1 DEF DemoInv, Trimmed
<1>4. Owned'
  <2>1. Reviewing' = Reviewing
    BY DEF Reviewing
  <2> QED
    BY <2>1 DEF DemoInv, Owned, Requests
<1> QED
  BY <1>1, <1>2, <1>3, <1>4 DEF DemoInv

LEMMA RefreshStep ==
    ASSUME DemoInv, deployment = "demo", UNCHANGED deployment, RefreshFromStore
    PROVE  DemoInv'
<1>1. /\ turn.at = "refresh" /\ turn' = [at |-> "review", id |-> turn.id, models |-> Models]
      /\ attempt' = [at |-> "gather", cached |-> Models[ProviderInForce],
                     work |-> [s \in Specialists |-> NotStarted]]
      /\ UNCHANGED <<known, delivered, request, active, visits, late, tickets, context,
                     processing, rows, waiting>>
  BY DEF RefreshFromStore, StartAttempt, InTurn
<1>2. /\ Models \in [DemoProviders -> Selections] /\ ProviderInForce \in DemoProviders
      /\ processing # Nobody => Models[ProviderInForce] = processing.choice
  BY ModelsAre DEF DemoInv
<1>3. turn # Resting /\ turn' # Resting /\ turn' \in Turns
  <2>1. turn.id \in Requests /\ turn # Resting
    BY <1>1, TurnIs DEF DemoInv, Resting
  <2> QED
    BY <1>1, <1>2, <2>1 DEF Turns, Resting
<1>4. Models[ProviderInForce] \in Selections
  BY <1>2
<1>5. NotStarted \in Work /\ NotStarted.at = "new"
  BY DEF NotStarted, Work
<1>6. PipelineTypeOK'
  BY <1>1, <1>4, <1>5 DEF PipelineTypeOK, Stages
<1>7. /\ turn'.at = "review" /\ turn'.models = Models
      /\ attempt'.cached = Models[ProviderInForce]
      /\ \A s \in Specialists : attempt'.work[s] = NotStarted
  BY <1>1
<1>8. processing # Nobody =>
          Models = [Priced EXCEPT ![ProviderOf[processing.choice]] = processing.choice]
  BY DEF Models
<1>9. AsChosen'
  <2>1. \A s \in Specialists : attempt'.work[s].at = "new"
    BY <1>5, <1>7
  <2> HIDE DEF Models
  <2> QED
    BY <1>1, <1>2, <1>4, <1>6, <1>7, <1>8, <2>1 DEF AsChosen
<1> QED
  BY <1>1, <1>3, <1>9, AttemptStep

LEMMA SpecialistRunsStep ==
    ASSUME DemoInv, deployment = "demo", UNCHANGED deployment,
           NEW s \in Specialists, SpecialistRuns(s)
    PROVE  DemoInv'
<1> DEFINE choice == turn.models[ProviderInForce]
<1>1. PICK n \in Amounts :
        /\ attempt.at = "gather" /\ attempt.work[s].at = "new"
        /\ attempt' = [attempt EXCEPT !.work[s] = Answered([NotStarted EXCEPT !.used = choice], n)]
  BY DEF SpecialistRuns, GetProviderAnswers, Doing, Does, DemoProvider
<1>2. UNCHANGED <<known, delivered, request, active, visits, late, tickets, context,
                  processing, rows, turn, waiting>>
  BY DEF SpecialistRuns, InAttempt, InTurn
<1>3. turn.at = "review" /\ PipelineTypeOK /\ turn \in Turns /\ turn # Resting
  BY <1>1 DEF DemoInv, AsChosen, DemoTyped, Resting
<1>4. choice \in Selections /\ (processing # Nobody => choice = processing.choice)
  <2>1. turn.models \in [DemoProviders -> Selections]
    BY <1>3, TurnIs DEF DemoInv
  <2>2. /\ ProviderInForce \in DemoProviders
        /\ processing # Nobody => Models[ProviderInForce] = processing.choice
    BY ModelsAre DEF DemoInv
  <2>3. processing # Nobody => turn.models = Models
    BY <1>3 DEF DemoInv, AsChosen, Models
  <2> QED
    BY <2>1, <2>2, <2>3
<1> HIDE DEF choice
<1> DEFINE done == Answered([NotStarted EXCEPT !.used = choice], n)
<1>5. done \in Work /\ done.at = "ok" /\ done.used = choice
  <2>1. n \in Nat
    BY PipelineAssumption
  <2>2. done = [at |-> "ok", used |-> choice, spent |-> 0 + n, tokens |-> 0 + n]
    <3> DEFINE work == [NotStarted EXCEPT !.used = choice]
    <3>1. work = [at |-> "new", used |-> choice, spent |-> 0, tokens |-> 0]
      BY DEF NotStarted
    <3>2. done = [work EXCEPT !.at = "ok", !.spent = work.spent + n, !.tokens = work.spent + n]
      BY DEF done, Answered
    <3> HIDE DEF work, done
    <3> QED
      BY <2>1, <3>1, <3>2
  <2> QED
    BY <1>4, <2>1, <2>2 DEF Work, Settled
<1> HIDE DEF done
<1>6. /\ attempt'.at = attempt.at /\ attempt'.cached = attempt.cached
      /\ attempt'.work = [attempt.work EXCEPT ![s] = done]
      /\ attempt' \in [at : Stages, cached : Selections \cup {NoSelection},
                       work : [Specialists -> Work]]
  <2>1. attempt' = [attempt EXCEPT !.work[s] = done]
    BY <1>1 DEF done
  <2> QED
    BY <1>3, <1>5, <2>1 DEF PipelineTypeOK
<1>7. \A p \in Specialists : attempt'.work[p] = IF p = s THEN done ELSE attempt.work[p]
  BY <1>3, <1>6 DEF PipelineTypeOK
<1>8. AsChosen'
  BY <1>2, <1>3, <1>4, <1>5, <1>6, <1>7 DEF DemoInv, AsChosen, PipelineTypeOK
<1> QED
  BY <1>2, <1>3, <1>8, AttemptStep

(* The review that is recorded, and _trim. *)
LEMMA RecordReviewStep ==
    ASSUME DemoInv, deployment = "demo", UNCHANGED deployment, RecordReview
    PROVE  DemoInv'
<1> DEFINE row == [session |-> Tag, reported |-> Reported, used |-> Used]
<1>1. /\ IsReviewed /\ attempt' = NoAttempt
      /\ rows' = Newest(Append(rows, row), MaxRows)
      /\ tickets' = Keep(tickets, {t \in ToSet(tickets) : t.id \notin Crowded})
      /\ context' = [d \in DOMAIN context \ Crowded |-> context[d]]
      /\ turn' = [at |-> "finalize", id |-> turn.id]
      /\ UNCHANGED <<known, delivered, request, active, visits, late, processing>>
  BY DEF RecordReview, EndAttempt, Drop, InTurn
<1>2. /\ turn.at = "review" /\ turn # Resting /\ turn.id \in Requests /\ PipelineTypeOK
      /\ \A s \in Specialists : attempt.work[s].at = "ok"
  <2>1. attempt.at = "gather" /\ \A s \in Specialists : attempt.work[s].at \in Settled
    BY <1>1 DEF IsReviewed, Gathered, Ended
  <2>2. turn.at = "review" /\ PipelineTypeOK
    BY <2>1 DEF DemoInv, AsChosen
  <2>3. turn # Resting /\ turn.id \in Requests
    BY <2>2, TurnIs DEF DemoInv, Resting
  <2>4. \A s \in Specialists : attempt.work[s].at = "ok"
    BY <2>1, <2>2 DEF DemoInv, AsChosen, Settled
  <2> QED
    BY <2>2, <2>3, <2>4
<1>3. row \in AsAsked /\ row.session \in {NoSession} \cup known \cup late
  <2>1. Reported \in Selections /\ (processing # Nobody => Reported = processing.choice)
    BY <1>2 DEF DemoInv, AsChosen, Reported
  <2>2. ASSUME NEW s \in Specialists
        PROVE  /\ attempt.work[s].used \in Selections
               /\ processing # Nobody => attempt.work[s].used = processing.choice
    BY <1>2 DEF DemoInv, AsChosen
  <2>3. Used = {attempt.work[s].used : s \in Specialists} /\ Used \subseteq Selections
    BY <2>2, PipelineAssumption DEF Used
  <2>4. CASE processing = Nobody
    <3>1. row = [session |-> NoSession, reported |-> Reported, used |-> Used]
      BY <2>4 DEF Tag
    <3> QED
      BY <2>1, <2>3, <3>1 DEF AsAsked
  <2>5. CASE processing # Nobody
    <3>1. "security" \in Specialists
      BY DEF Specialists
    <3>2. Used = {processing.choice}
      BY <2>2, <2>3, <2>5, <3>1
    <3>3. row = [session |-> processing.session, reported |-> processing.choice,
                 used |-> {processing.choice}]
      BY <2>1, <2>5, <3>2 DEF Tag
    <3>4. /\ processing.session \in Sessions /\ processing.choice \in Selections
          /\ <<processing.session, processing.choice>> \in Visits
      BY <2>5, ProcessingIs DEF DemoInv
    <3>5. processing.session \in known \cup late
      BY <1>2, <2>5 DEF DemoInv, Owned, Reviewing
    <3> QED
      BY <3>3, <3>4, <3>5 DEF AsAsked
  <2> QED
    BY <2>4, <2>5
<1> HIDE DEF row
<1>4. /\ rows' \in Seq(AsAsked) /\ Len(rows') <= MaxRows
      /\ \A i \in DOMAIN rows' : rows'[i].session \in {NoSession} \cup known \cup late
  <2> DEFINE Mine == {x \in AsAsked : x.session \in {NoSession} \cup known \cup late}
  <2>1. rows \in Seq(Mine)
    <3>1. rows \in Seq(AsAsked) /\ \A i \in 1 .. Len(rows) : rows[i] \in Mine
      BY ElementOfSeq, LenProperties DEF DemoInv, DemoTyped, Owned
    <3> QED
      BY <3>1
  <2>2. row \in Mine /\ MaxRows \in Nat \ {0}
    BY <1>3, DemoAssumption
  <2> HIDE DEF Mine
  <2>3. Append(rows, row) \in Seq(Mine)
    BY <2>1, <2>2, AppendProperties
  <2>4. rows' \in Seq(Mine) /\ Len(rows') <= MaxRows
    BY <1>1, <2>2, <2>3, NewestKeeps
  <2>5. \A i \in DOMAIN rows' : rows'[i] \in Mine
    BY <2>4, ElementOfSeq, LenProperties
  <2>6. rows' \in Seq(AsAsked)
    BY <2>4, SeqMonotonic DEF Mine
  <2> QED
    BY <2>4, <2>5, <2>6 DEF Mine
<1>5. /\ tickets' \in Seq(DemoTicket) /\ Len(tickets') <= Len(tickets)
      /\ Len(tickets') \in Nat /\ Distinct(tickets') /\ Ids(tickets') \subseteq Ids(tickets)
      /\ Len(tickets) \in Nat
  BY <1>1, TicketsDropped, LenProperties DEF DemoInv, DemoTyped, Numbered
<1>6. /\ DOMAIN context' \subseteq DOMAIN context
      /\ \A d \in DOMAIN context' : context'[d] = context[d]
  BY <1>1
<1>7. turn' \in Turns /\ turn' # Resting /\ turn'.at = "finalize"
  BY <1>1, <1>2 DEF Turns, Resting
<1>8. DemoTyped'
  BY <1>1, <1>4, <1>5, <1>6, <1>7 DEF DemoInv, DemoTyped, Requests
<1>9. Numbered'
  BY <1>1, <1>5 DEF DemoInv, Numbered, Requests
<1>10. Trimmed'
  <2>1. PICK few : few = ToTrim'
    OBVIOUS
  <2>2. few = ToTrim
    BY <1>1, <2>1 DEF ToTrim, Requests
  <2>3. /\ MaxTickets \in Nat /\ Cardinality(few) \in Nat
        /\ Len(tickets) <= MaxTickets + Cardinality(few)
    BY <2>2, FewToTrim, DemoAssumption DEF DemoInv, Trimmed
  <2>4. Len(tickets') <= MaxTickets + Cardinality(few)
    BY <1>5, <2>3
  <2> QED
    BY <1>1, <1>4, <2>1, <2>4 DEF DemoInv, Trimmed
<1>11. Owned'
  <2>1. Reviewing' \subseteq known' \cup late'
    BY <1>1, <1>2 DEF DemoInv, Owned, Reviewing
  <2> QED
    BY <1>1, <1>4, <1>6, <2>1 DEF DemoInv, Owned, Requests
<1>12. AsChosen'
  <2>1. PipelineTypeOK' /\ attempt'.at = "idle"
    BY <1>1 DEF PipelineTypeOK, NoAttempt, NotStarted, Work, Stages
  <2> QED
    BY <1>1, <1>7, <2>1 DEF AsChosen
<1> QED
  BY <1>8, <1>9, <1>10, <1>11, <1>12 DEF DemoInv

LEMMA FinalizeReviewStep ==
    ASSUME DemoInv, deployment = "demo", UNCHANGED deployment, FinalizeReview
    PROVE  DemoInv'
<1>1. /\ turn.at = "finalize" /\ turn' = Resting
      /\ tickets' = IF turn.id \in Ids(tickets)
                    THEN [tickets EXCEPT ![At(turn.id)].status = "done"] ELSE tickets
      /\ UNCHANGED <<known, delivered, request, active, visits, late, context, processing, rows,
                     waiting, attempt>>
  BY DEF FinalizeReview, InTurn
<1>2. /\ tickets' \in Seq(DemoTicket) /\ Len(tickets') = Len(tickets)
      /\ Distinct(tickets') /\ Ids(tickets') = Ids(tickets)
  <2>1. CASE turn.id \in Ids(tickets)
    <3>1. At(turn.id) \in DOMAIN tickets
      BY <2>1 DEF At, Ids
    <3>2. tickets' = [tickets EXCEPT ![At(turn.id)].status = "done"]
      BY <1>1, <2>1
    <3>3. /\ tickets' \in Seq(DemoTicket) /\ Len(tickets') = Len(tickets)
          /\ DOMAIN tickets' = DOMAIN tickets /\ Ids(tickets') = Ids(tickets)
          /\ \A j \in DOMAIN tickets : tickets'[j].id = tickets[j].id
      BY <3>1, <3>2, StatusWritten DEF DemoInv, DemoTyped
    <3> QED
      BY <3>3 DEF DemoInv, Numbered, Distinct
  <2>2. CASE turn.id \notin Ids(tickets)
    BY <1>1, <2>2 DEF DemoInv, DemoTyped, Numbered
  <2> QED
    BY <2>1, <2>2
<1>3. DemoTyped'
  BY <1>1, <1>2 DEF DemoInv, DemoTyped, Requests, Turns
<1>4. Numbered'
  BY <1>1, <1>2 DEF DemoInv, Numbered, Requests
<1>5. Trimmed'
  <2>1. ToTrim' = ToTrim
    BY <1>1 DEF ToTrim, Requests
  <2> QED
    BY <1>1, <1>2, <2>1 DEF DemoInv, Trimmed
<1>6. Owned'
  <2>1. Reviewing' = {}
    BY <1>1 DEF Reviewing
  <2> QED
    BY <1>1, <2>1 DEF DemoInv, Owned, Requests
<1>7. AsChosen'
  <2>1. attempt.at # "gather" /\ PipelineTypeOK
    BY <1>1 DEF DemoInv, AsChosen
  <2> QED
    BY <1>1, <2>1 DEF AsChosen, PipelineTypeOK, Resting
<1> QED
  BY <1>3, <1>4, <1>5, <1>6, <1>7 DEF DemoInv

-----------------------------------------------------------------------------
(* The sweep, the visitors' selection, and the whole. *)

LEMMA SweepOnceStep ==
    ASSUME DemoInv, deployment = "demo", UNCHANGED deployment, SweepOnce
    PROVE  DemoInv'
<1>1. PICK stale \in SUBSET {s \in known : MayBeStale(s)} :
        /\ known' = known \ stale
        /\ tickets' = Keep(tickets, {t \in ToSet(tickets) : t.id \notin Evicted(stale)})
        /\ context' = [d \in DOMAIN context \ Evicted(stale) |-> context[d]]
        /\ rows' = Keep(rows, {row \in ToSet(rows) : row.session \notin stale})
        /\ late' = (late \ stale) \cup (Reviewing \cap stale)
        /\ UNCHANGED <<delivered, request, processing, active, turn, visits, attempt>>
  BY DEF SweepOnce, EvictSessions, Drop
<1>2. /\ tickets' \in Seq(DemoTicket) /\ Len(tickets') <= Len(tickets)
      /\ Len(tickets') \in Nat /\ Distinct(tickets') /\ Ids(tickets') \subseteq Ids(tickets)
      /\ Len(tickets) \in Nat
  BY <1>1, TicketsDropped, LenProperties DEF DemoInv, DemoTyped, Numbered
<1>3. /\ DOMAIN context' \subseteq DOMAIN context
      /\ \A d \in DOMAIN context' : context'[d] = context[d] /\ context[d].session \notin stale
  BY <1>1 DEF Evicted
<1>4. /\ rows' \in Seq(AsAsked) /\ Len(rows') <= Len(rows) /\ Len(rows) \in Nat
      /\ Len(rows') \in Nat
      /\ \A i \in DOMAIN rows' : rows'[i].session \notin stale
                                  /\ \E j \in DOMAIN rows : rows'[i] = rows[j]
  <2> DEFINE kept == {row \in ToSet(rows) : row.session \notin stale}
  <2>1. rows \in Seq(AsAsked) /\ DOMAIN rows = 1 .. Len(rows) /\ Len(rows) \in Nat
    BY LenProperties DEF DemoInv, DemoTyped
  <2>2. rows' = Keep(rows, kept) /\ rows' \in Seq(AsAsked) /\ Len(rows') <= Len(rows)
        /\ Len(rows') \in Nat
    BY <1>1, <2>1, KeepShrinks
  <2>3. DOMAIN rows' = 1 .. Len(rows')
    BY <2>2, LenProperties
  <2> HIDE DEF kept
  <2>4. \A i \in 1 .. Len(rows') : rows'[i] \in kept /\ \E j \in 1 .. Len(rows) : rows'[i] = rows[j]
    BY <2>1, <2>2, Kept
  <2> QED
    BY <2>1, <2>2, <2>3, <2>4 DEF kept
<1>5. DemoTyped'
  BY <1>1, <1>2, <1>3, <1>4 DEF DemoInv, DemoTyped, Requests
<1>6. Numbered'
  BY <1>1, <1>2 DEF DemoInv, Numbered, Requests
<1>7. Trimmed'
  <2>1. PICK few : few = ToTrim'
    OBVIOUS
  <2>2. few = ToTrim
    BY <1>1, <2>1 DEF ToTrim, Requests
  <2>3. /\ MaxTickets \in Nat /\ Cardinality(few) \in Nat /\ MaxRows \in Nat
        /\ Len(tickets) <= MaxTickets + Cardinality(few) /\ Len(rows) <= MaxRows
    BY <2>2, FewToTrim, DemoAssumption DEF DemoInv, Trimmed
  <2>4. Len(tickets') <= MaxTickets + Cardinality(few) /\ Len(rows') <= MaxRows
    BY <1>2, <1>4, <2>3
  <2> QED
    BY <1>1, <2>1, <2>4 DEF DemoInv, Trimmed
<1>8. Owned'
  <2>1. \A r \in Requests : request'[r] # NotAsking => request'[r].session \in known'
    BY <1>1 DEF DemoInv, Owned, MayBeStale
  <2>2. \A d \in DOMAIN context' : context'[d].session \in known'
    BY <1>1, <1>3 DEF DemoInv, Owned
  <2>3. Reviewing' = Reviewing /\ Reviewing \subseteq known \cup late
    BY <1>1 DEF DemoInv, Owned, Reviewing
  <2>4. Reviewing' \subseteq known' \cup late'
    BY <1>1, <2>3
  <2>5. ASSUME NEW i \in DOMAIN rows'
        PROVE  rows'[i].session \in {NoSession} \cup known' \cup late'
    <3>1. rows'[i].session \in {NoSession} \cup known \cup late /\ rows'[i].session \notin stale
      BY <1>4 DEF DemoInv, Owned
    <3> QED
      BY <1>1, <3>1
  <2> QED
    BY <2>1, <2>2, <2>4, <2>5 DEF Owned, Requests
<1>9. AsChosen'
  BY <1>1 DEF DemoInv, AsChosen, PipelineTypeOK
<1> QED
  BY <1>5, <1>6, <1>7, <1>8, <1>9 DEF DemoInv

(* A step that leaves the demo alone. *)
LEMMA Elsewhere ==
    ASSUME DemoInv, UNCHANGED <<demoVars, deployment>>,
           deployment = "demo" => UNCHANGED attempt
    PROVE  DemoInv'
<1> USE DEF demoVars
<1>1. DemoTyped'
  BY DEF DemoInv, DemoTyped, Requests
<1>2. Numbered'
  BY DEF DemoInv, Numbered, Requests
<1>3. Trimmed'
  <2>1. ToTrim' = ToTrim
    BY DEF ToTrim, Requests
  <2> QED
    BY <2>1 DEF DemoInv, Trimmed
<1>4. Owned'
  <2>1. Reviewing' = Reviewing
    BY DEF Reviewing
  <2> QED
    BY <2>1 DEF DemoInv, Owned, Requests
<1>5. AsChosen'
  <2>1. CASE deployment = "demo"
    BY <2>1 DEF DemoInv, AsChosen, PipelineTypeOK
  <2>2. CASE deployment # "demo"
    BY <2>2 DEF DemoInv, AsChosen, Resting
  <2> QED
    BY <2>1, <2>2
<1> QED
  BY <1>1, <1>2, <1>3, <1>4, <1>5 DEF DemoInv

LEMMA SetActiveProviderStep ==
    ASSUME DemoInv, deployment = "demo", UNCHANGED deployment,
           NEW p \in DemoProviders, SetActiveProvider(p)
    PROVE  DemoInv'
<1>1. /\ active' = p
      /\ UNCHANGED <<known, delivered, request, tickets, context, processing, rows,
                     turn, visits, waiting, late, attempt>>
  BY DEF SetActiveProvider
<1>2. DemoTyped'
  BY <1>1 DEF DemoInv, DemoTyped, Requests
<1>3. Numbered'
  BY <1>1 DEF DemoInv, Numbered, Requests
<1>4. Trimmed'
  <2>1. ToTrim' = ToTrim
    BY <1>1 DEF ToTrim, Requests
  <2> QED
    BY <1>1, <2>1 DEF DemoInv, Trimmed
<1>5. Owned'
  <2>1. Reviewing' = Reviewing
    BY <1>1 DEF Reviewing
  <2> QED
    BY <1>1, <2>1 DEF DemoInv, Owned, Requests
<1>6. AsChosen'
  BY <1>1 DEF DemoInv, AsChosen, PipelineTypeOK
<1> QED
  BY <1>2, <1>3, <1>4, <1>5, <1>6 DEF DemoInv

LEMMA DemoStep ==
    ASSUME DemoInv, DemoNext, deployment = "demo", UNCHANGED deployment
    PROVE  DemoInv'
<1>1. ASSUME NEW v \in Visits, Bootstrap(v[1], v[2])
      PROVE  DemoInv'
  BY <1>1, BootstrapStep
<1>2. ASSUME NEW r \in Requests, RequestStep(r)
      PROVE  DemoInv'
  BY <1>2, EnqueueTicketStep, EnqueueRaisesStep, StoreContextStep, MarkDeliveryStep
     DEF RequestStep
<1>3. ASSUME DispatcherTurn
      PROVE  DemoInv'
  BY <1>3, ClaimNextDueStep, RefreshStep, SpecialistRunsStep, RecordReviewStep,
     FinalizeReviewStep DEF DispatcherTurn
<1>4. ASSUME NEW p \in DemoProviders, SetActiveProvider(p)
      PROVE  DemoInv'
  BY <1>4, SetActiveProviderStep
<1> QED
  BY <1>1, <1>2, <1>3, <1>4, SweepOnceStep DEF DemoNext

(* The demo starts without visitors, and the other deployments stay there. *)
LEMMA InitDemoInv == DeploymentsInit => DemoInv
<1> SUFFICES ASSUME DeploymentsInit PROVE DemoInv
  OBVIOUS
<1>1. /\ known = {} /\ delivered = <<>>
      /\ request = [r \in Requests |-> NotAsking]
      /\ tickets = <<>> /\ context = <<>> /\ processing = Nobody
      /\ active = DefaultProvider
      /\ rows = <<>> /\ turn = Resting /\ visits = 0 /\ attempt = NoAttempt
  BY DEF DeploymentsInit, DemoInit, PipelineInit
<1>2. DOMAIN <<>> = {} /\ Len(<<>>) = 0
  OBVIOUS
<1>3. /\ delivered \in Seq(Sessions) /\ tickets \in Seq(DemoTicket) /\ rows \in Seq(AsAsked)
  BY <1>1, EmptySeq
<1>4. DemoTyped
  BY <1>1, <1>2, <1>3, DemoAssumption DEF DemoTyped, Turns
<1>5. Numbered
  BY <1>1, <1>2 DEF Numbered, Distinct, Ids, NotAsking
<1>6. Trimmed
  <2>1. /\ Cardinality(ToTrim) \in Nat /\ MaxTickets \in Nat /\ MaxRows \in Nat
        /\ DedupCapacity \in Nat
    BY FewToTrim, DemoAssumption
  <2> QED
    BY <1>1, <1>2, <2>1 DEF Trimmed
<1>7. Owned
  BY <1>1, <1>2 DEF Owned, Reviewing
<1>8. AsChosen
  <2>1. PipelineTypeOK /\ attempt.at = "idle"
    BY <1>1 DEF PipelineTypeOK, NoAttempt, NotStarted, Work, Stages
  <2> QED
    BY <1>1, <2>1 DEF AsChosen, Resting
<1> QED
  BY <1>4, <1>5, <1>6, <1>7, <1>8 DEF DemoInv

LEMMA DeploymentsStep ==
    DemoInv /\ DiffInv /\ [DeploymentsNext]_deploymentVars => DemoInv' /\ DiffInv'
<1> SUFFICES ASSUME DemoInv, DiffInv, [DeploymentsNext]_deploymentVars
             PROVE  DemoInv' /\ DiffInv'
  OBVIOUS
<1>1. ASSUME UNCHANGED diffVars
      PROVE  DiffInv'
  BY <1>1 DEF DiffInv, DiffTyped, Carried, Labelled, diffVars
<1>2. CASE Service
  BY <1>1, <1>2, Elsewhere DEF Service
<1>3. CASE DemoApp
  BY <1>1, <1>3, DemoStep DEF DemoApp
<1>4. CASE Annotation
  BY <1>4, DiffStep, Elsewhere DEF Annotation
<1>5. CASE UNCHANGED deploymentVars
  BY <1>1, <1>5, Elsewhere DEF deploymentVars
<1> QED
  BY <1>2, <1>3, <1>4, <1>5 DEF DeploymentsNext

LEMMA DeploymentsInvariant == DeploymentsSpec => [](DemoInv /\ DiffInv)
<1>1. DeploymentsInit => DemoInv /\ DiffInv
  BY InitDemoInv, InitDiffInv DEF DeploymentsInit
<1> QED
  BY <1>1, DeploymentsStep, PTL DEF DeploymentsSpec

-----------------------------------------------------------------------------
(* What the demo keeps is bounded (demo/store.py's caps and the webhook's
   dedup), however many visitors there are and however their requests meet:
   a trim may come late, but it comes for each ticket that was inserted. *)
THEOREM StoreStaysBounded == DeploymentsSpec => []StoreBounded
<1>1. DemoInv => StoreBounded
  <2> SUFFICES ASSUME DemoInv PROVE StoreBounded
    OBVIOUS
  <2> DEFINE asking == {r \in Requests : request[r].at = "context"}
  <2>1. ToTrim \subseteq asking /\ IsFiniteSet(asking)
    <3>1. IsFiniteSet(Requests)
      BY FS_Interval, DemoAssumption DEF Requests
    <3> QED
      BY <3>1, FS_Subset DEF ToTrim
  <2> HIDE DEF asking
  <2>2. /\ Cardinality(ToTrim) <= Cardinality(asking)
        /\ Cardinality(ToTrim) \in Nat /\ Cardinality(asking) \in Nat
    BY <2>1, FS_Subset, FS_CardinalityType
  <2>3. MaxTickets \in Nat /\ Len(tickets) \in Nat
    BY DemoAssumption, LenProperties DEF DemoInv, DemoTyped
  <2>4. Len(tickets) <= MaxTickets + Cardinality(asking)
    BY <2>2, <2>3 DEF DemoInv, Trimmed
  <2> QED
    BY <2>4 DEF StoreBounded, DemoInv, Trimmed, asking
<1> QED
  BY <1>1, DeploymentsInvariant, PTL

(* A visitor is shown reviews made as they asked (demo/store.py's context,
   demo/provider.py), whoever else comes, is swept or changes the provider. *)
THEOREM ReviewsRunAsAsked == DeploymentsSpec => []RunsAsAsked
<1>1. DemoInv => RunsAsAsked
  <2> SUFFICES ASSUME DemoInv, NEW s \in Sessions, NEW i \in DOMAIN rows,
                      rows[i].session \in {s, NoSession}, rows[i].session # NoSession
               PROVE  <<s, rows[i].reported>> \in Visits /\ rows[i].used = {rows[i].reported}
    BY DEF RunsAsAsked, Shown
  <2>1. rows[i] \in AsAsked
    BY ElementOfSeq, LenProperties DEF DemoInv, DemoTyped
  <2> QED
    BY <2>1 DEF AsAsked
<1> QED
  BY <1>1, DeploymentsInvariant, PTL

(* The sweep leaves nothing of a visitor who is gone (session.sweep and
   evict_sessions), but the review that was running. *)
THEOREM SweptSessionsGo == DeploymentsSpec => []SweptIsGone
<1>1. DemoInv => SweptIsGone
  <2> SUFFICES ASSUME DemoInv, NEW s \in Sessions \ (known \cup late)
               PROVE  /\ \A i \in DOMAIN rows : rows[i].session # s
                      /\ \A d \in DOMAIN context : context[d].session # s
    BY DEF SweptIsGone
  <2>1. s # NoSession
    BY DemoAssumption
  <2> QED
    BY <2>1 DEF DemoInv, Owned
<1> QED
  BY <1>1, DeploymentsInvariant, PTL

(* An added line is labelled with its place in the new version of its file
   (diff_utils._annotate), whenever the walk could read the name of the file and
   the lines of the hunk before it, however it misreads other files and hunks. *)
THEOREM LabelsStayReal == DeploymentsSpec => []LabelsAreReal
BY LabelsHold, DeploymentsInvariant, PTL
=============================================================================
