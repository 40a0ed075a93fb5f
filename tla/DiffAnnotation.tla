--------------------------- MODULE DiffAnnotation ---------------------------
(***************************************************************************)
(* diff_utils._annotate: each added line of a unified diff is prefixed     *)
(* with the file and the line it has in the new version of that file, for  *)
(* a model to echo back in its findings.  A line has a kind, which is what *)
(* it is in the diff that fetch_pr_diff put together, and it reads as      *)
(* something, which is what its first characters say: the walk only knows  *)
(* the latter, and the reference below only uses the former.               *)
(***************************************************************************)
EXTENDS Naturals, Sequences, FiniteSets

CONSTANTS
    Files,            \* the files of a pull request
    ReadAs,           \* the name _FILE_HEADER_RE finds in a file's header, if any
    FirstLines,       \* the lines a hunk may start at
    NoLabel,          \* a line that is passed through
    MaxDiff           \* bound: the lines of a diff

(* The expression stops at white space: of a name with a space it finds nothing,
   or, in "x b/y", another name. *)
ASSUME DiffAssumption ==
    /\ FirstLines \subseteq Nat /\ MaxDiff \in Nat
    /\ NoLabel \notin Files /\ NoLabel \notin Nat
    /\ ReadAs \in [Files -> Files \cup {NoLabel}]

VARIABLES
    diff,             \* the lines walked over so far
    place,            \* current_file and new_lineno
    labels            \* what each line was prefixed with

diffVars == <<diff, place, labels>>

DiffInit ==
    /\ diff = <<>> /\ labels = <<>>
    /\ place = [file |-> NoLabel, number |-> NoLabel]

-----------------------------------------------------------------------------
(* The lines. *)

Line(kind, reads, value) == [kind |-> kind, reads |-> reads, value |-> value]

Headers == {Line("file", IF ReadAs[f] = NoLabel THEN "text" ELSE "file", f) : f \in Files}
Hunks == {Line("hunk", "hunk", n) : n \in FirstLines}
(* GitHub has no patch for a binary file. *)
NoPatch == Line("binary", "text", NoLabel)
(* An added line may read +++x and a removed one ---x, such as a comment in SQL:
   the walk takes both for text.  The marker tells of a missing newline. *)
Contents == {Line("added", reads, NoLabel) : reads \in {"added", "text"}}
    \cup {Line("removed", reads, NoLabel) : reads \in {"removed", "text"}}
    \cup {Line("kept", "text", NoLabel), Line("marker", "marker", NoLabel)}
(* splitlines breaks at form feeds and the like, too.  What follows a break is
   taken for a line, and may read as anything. *)
Rests == {Line("rest", reads, NoLabel) : reads \in {"added", "removed", "marker", "text"}}
    \cup {Line("rest", "hunk", n) : n \in FirstLines}
    \cup {Line("rest", "file", f) : f \in {g \in Files : ReadAs[g] # NoLabel}}

-----------------------------------------------------------------------------
(* The walk over one line. *)

Unlabelled == labels' = Append(labels, NoLabel)

(* _FILE_HEADER_RE, _HUNK_HEADER_RE *)
FileHeader(line) ==
    /\ line.reads = "file" /\ Unlabelled
    /\ place' = [file |-> ReadAs[line.value], number |-> NoLabel]

HunkHeader(line) ==
    /\ line.reads = "hunk" /\ Unlabelled
    /\ place' = [place EXCEPT !.number = line.value]

InHunk == place.file # NoLabel /\ place.number # NoLabel

Metadata(line) ==
    /\ line.reads \notin {"file", "hunk"} /\ ~InHunk
    /\ Unlabelled /\ UNCHANGED place

AddedLine(line) ==
    /\ line.reads = "added" /\ InHunk
    /\ labels' = Append(labels, <<place.file, place.number>>)
    /\ place' = [place EXCEPT !.number = @ + 1]

(* Mutant: the marker of a missing newline is taken for a line. *)
OnlyRemoved == {"removed"}
(* The lines that do not consume a number. *)
Uncounted == {"removed", "marker"}

OtherLine(line) ==
    /\ line.reads \in {"removed", "marker", "text"} /\ InHunk /\ Unlabelled
    /\ place' = IF line.reads \in Uncounted THEN place ELSE [place EXCEPT !.number = @ + 1]

Walk(line) ==
    /\ diff' = Append(diff, line)
    /\ \/ FileHeader(line) \/ HunkHeader(line)
       \/ Metadata(line) \/ AddedLine(line) \/ OtherLine(line)

-----------------------------------------------------------------------------
(* Where line i of a diff lies. *)

(* The last line before it of some kinds, or 0. *)
LastOf(lines, i, kinds) ==
    CHOOSE j \in 0 .. i - 1 :
        /\ j = 0 \/ lines[j].kind \in kinds
        /\ \A k \in j + 1 .. i - 1 : lines[k].kind \notin kinds

FileStart(lines, i) == LastOf(lines, i, {"file"})
HunkStart(lines, i) == LastOf(lines, i, {"hunk"})
FileOf(lines, i) == lines[FileStart(lines, i)].value
NewBetween(lines, h, i) == {j \in h + 1 .. i - 1 : lines[j].kind \in {"added", "kept"}}
LineOf(lines, i) ==
    LET h == HunkStart(lines, i)
    IN  lines[h].value + Cardinality(NewBetween(lines, h, i))

(* What fetch_pr_diff puts together: of each file its header, and hunks with
   content or a text in their place; broken anywhere. *)
Section ==
    LET start == LastOf(diff, Len(diff) + 1, {"file", "hunk", "binary"})
    IN  IF start = 0 THEN "none" ELSE diff[start].kind

DiffNext ==
    /\ Len(diff) < MaxDiff
    /\ \/ Section # "file" /\ \E line \in Headers : Walk(line)
       \/ Section \in {"file", "hunk"} /\ \E line \in Hunks : Walk(line)
       \/ Section = "file" /\ Walk(NoPatch)
       \/ Section = "hunk" /\ \E line \in Contents : Walk(line)
       \/ Section # "none" /\ \E line \in Rests : Walk(line)

-----------------------------------------------------------------------------
(* The name of its file is found, and no broken line since reads as another. *)
FileIsRead(lines, i) ==
    /\ ReadAs[FileOf(lines, i)] = FileOf(lines, i)
    /\ \A k \in FileStart(lines, i) + 1 .. i - 1 :
          ~(lines[k].kind = "rest" /\ lines[k].reads = "file")

(* No line of its hunk before it is broken, or removed and counted. *)
LinesAreRead(lines, i) ==
    \A k \in HunkStart(lines, i) + 1 .. i - 1 :
        lines[k].kind # "rest" /\ ~(lines[k].kind = "removed" /\ lines[k].reads = "text")

(* An added line is labelled with its place in the new version of its file, if
   the walk could read the name of the file and the lines of the hunk so far:
   whatever was misread in another hunk or file does it no harm.  (A line that
   reads +++x gets no label.) *)
LabelsAreReal ==
    \A i \in DOMAIN diff :
        diff[i].kind = "added" /\ diff[i].reads = "added"
            /\ FileIsRead(diff, i) /\ LinesAreRead(diff, i) =>
        labels[i] = <<FileOf(diff, i), LineOf(diff, i)>>
=============================================================================
