------------------------------ MODULE DiffMap ------------------------------
(***************************************************************************)
(* The lines a finding may stand on (diffmap/diffmap.go), read from the     *)
(* hunks of a patch. A hunk is [old, new, lines]: where it starts in the    *)
(* old and in the new file, and its body. A line is [kind, bytes]; its kind *)
(* is the first byte of its text, "\\" that of "\ No newline at end of      *)
(* file", "?" any other, which is taken for context, or none.               *)
(***************************************************************************)
EXTENDS Integers, FiniteSets, SequencesExt

Kind == {" ", "-", "+", "\\", "?"}

Old(line) == line.kind \in {" ", "-", "?"}
New(line) == line.kind \in {" ", "+", "?"}
OldCount(lines) == Cardinality({i \in DOMAIN lines : Old(lines[i])})
NewCount(lines) == Cardinality({i \in DOMAIN lines : New(lines[i])})

(* Git writes 0 for the start of an empty side. *)
HunkStart(n) == IF n = 0 THEN 1 ELSE n

(* The anchors of one hunk, each with the line that stands there. *)
Anchored(h) ==
    LET Before(i) == SubSeq(h.lines, 1, i - 1)
        olds == {i \in DOMAIN h.lines : Old(h.lines[i])}
        news == {i \in DOMAIN h.lines : New(h.lines[i])}
    IN {<<"old", HunkStart(h.old) + OldCount(Before(i)), h.lines[i]>> : i \in olds}
       \cup {<<"new", HunkStart(h.new) + NewCount(Before(i)), h.lines[i]>> : i \in news}

ParseGitDiff(hunks) == UNION {Anchored(h) : h \in Range(hunks)}

(* MergePatch: the anchors of several patches of one file. *)
MergePatch(patches) == UNION {ParseGitDiff(p) : p \in patches}
=============================================================================
