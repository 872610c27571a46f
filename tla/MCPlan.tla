------------------------------- MODULE MCPlan -------------------------------
(* Small selections for SourcePlan.                                         *)
EXTENDS SourcePlan

File(dir, name, stem, ext) ==
    [dir |-> dir, name |-> name, ext |-> ext, stem |-> stem, header |-> stem, impl |-> stem,
     test |-> FALSE, locale |-> <<>>, lock |-> "", lines |-> 1]
TestFile(dir, name, mark, stem, ext) ==
    [File(dir, name, stem, ext) EXCEPT !.test = TRUE, !.header = mark]

(* A Go module with two others in it, one unreadable; tests beside and      *)
(* apart from their implementation, a header away from its source, two      *)
(* translations, two files of one package manager, two without a name.      *)
MCFiles == <<
    File(<<"a">>, "one.go", "one", ".go"),
    File(<<"a", "sub">>, "x.c", "x", ".c"),
    File(<<"a">>, "two.go", "two", ".go"),
    [TestFile(<<"b">>, "one_test.go", "one_test", "one", ".go") EXCEPT !.lines = 2],
    [File(<<"b">>, "tool_linux.go", "tool_linux", ".go") EXCEPT !.stem = "tool"],
    File(<<"c">>, "x.h", "x", ".h"),
    [File(<<"de">>, "app.json", "app", ".json") EXCEPT !.locale = <<"localedir", "*", "app.json">>],
    [File(<<"en">>, "app.json", "app", ".json") EXCEPT !.locale = <<"localedir", "*", "app.json">>,
                                                       !.lines = 3],
    [File(<<>>, "package.json", "package", ".json") EXCEPT !.locale = <<"locale", "package", ".json">>,
                                                           !.lock = "node"],
    TestFile(<<"tests">>, "one_test.go", "one_test", "one", ".go"),
    [File(<<"v">>, "v.go", "v", ".go") EXCEPT !.lines = 0],
    [File(<<>>, "yarn.lock", "yarn", ".lock") EXCEPT !.lock = "node"],
    File(<<"z">>, ".c", "", ".c"),
    File(<<"z", "sub">>, ".h", "", ".h") >>
MCModules == (<<>> :> "m") @@ (<<"b">> :> "n") @@ (<<"v">> :> "")
MCHeaderExts == (".c" :> "c") @@ (".h" :> "c")

A == <<"m", "a">>
B == <<"n">>
V == <<"m", "v">>
None == [p \in DOMAIN MCFiles |-> {}]
Imports == {None, [None EXCEPT ![1] = {B}, ![10] = {B, V}],
            [None EXCEPT ![3] = {B}, ![4] = {A}],
            [None EXCEPT ![1] = {B}, ![5] = {A, B}, ![10] = {A, B}]}

Line(kind) == [kind |-> kind, bytes |-> CASE kind = " " -> 4 [] kind = "+" -> 3 [] OTHER -> 2]
Hunk(old, new, kinds) ==
    LET lines == [i \in DOMAIN kinds |-> Line(kinds[i])]
    IN [old |-> IF OldCount(lines) = 0 THEN old - 1 ELSE old, oldCount |-> OldCount(lines),
        new |-> IF NewCount(lines) = 0 THEN new - 1 ELSE new, newCount |-> NewCount(lines),
        suffix |-> 1, lines |-> lines]

(* Bodies of a hunk as diff writes them: a "\ No newline" after the last    *)
(* line of a side only.                                                     *)
Body(n) == UNION {[1 .. m -> {" ", "-", "+"}] : m \in 1 .. n}
Ended == {k \o <<"\\">> : k \in Body(3)} \cup {k \o <<"-", "\\", "+", "\\">> : k \in Body(2)}

Section(file, meta, hunks) == [file |-> file, meta |-> meta, hunks |-> hunks]
Selection(sections) ==
    [sections |-> sections, unread |-> {}, imports |-> None, base |-> 0, parts |-> <<>>,
     listing |-> Sorted({s.file : s \in Range(sections)})]

(* One file, its first hunk any body, its second after it.                  *)
Second == Hunk(9, 9, <<" ", "-", "+">>)
Splits ==
    {Selection(<<Section(1, 12, <<Hunk(1, 1, k), Second>>)>>) :
         k \in Body(4) \cup Ended}

(* Changed files with a small section each, listed in path order or with    *)
(* the untracked ones last.                                                 *)
Small(p) ==
    Section(p, IF p \in {1, 5} THEN 14 ELSE 2,
            <<Hunk(1, 1, IF p = 5 THEN <<"-", "-", "+", "-", "+">> ELSE <<"+", "+">>)>>)
Changes ==
    LET Of(S) == [i \in 1 .. Cardinality(S) |-> Small(Sorted(S)[i])]
        Listed(S, U) == Sorted(S \ U) \o Sorted(U)
    IN UNION {{[Selection(Of(S)) EXCEPT !.imports = i, !.listing = Listed(S, U)] :
                   i \in Imports, U \in {{}, {Min(S)}}} :
              S \in {T \in SUBSET (1 .. 12) : Cardinality(T) \in 1 .. 3}
                     \cup {{1, 3, 4, 5, 10}, {2, 6, 7, 8, 9, 12}, {6, 13, 14}, DOMAIN MCFiles}}

(* Hunks that git does not write: a header that cannot be read, of a part   *)
(* or of a section that is not split; lines that start with anything, or    *)
(* too late to be seen before the first part is cut.                        *)
Odd ==
    {[Selection(<<Section(1, 12, <<Second, Second>>)>>) EXCEPT !.unread = {<<1, j>>}] : j \in 1 .. 2}
    \cup {[Selection(<<Section(2, 2, <<Second>>)>>) EXCEPT !.unread = {<<1, 1>>}]}
    \cup {Selection(<<Section(1, 12, <<Hunk(1, 1, k), Second>>)>>) :
             k \in {<<" ", "?", "+">>, <<"\\", "+">>, <<"+", "\\", "\\">>, <<" ", " ", " ", " ", "?">>}}

(* What does not fit, a file with two sections, and context for the tasks.  *)
Long == [kind |-> "+", bytes |-> 14]
Parts == <<[file |-> 1, sizes |-> <<2, 2>>], [file |-> 2, sizes |-> <<4, 3>>],
           [file |-> 1, sizes |-> <<1>>]>>
Edges ==
    LET one == Section(1, 12, <<Hunk(1, 1, <<" ", "-", "+", " ">>)>>)
    IN {[Selection(<<one>>) EXCEPT !.base = 27],
        Selection(<<Section(1, 40, <<>>)>>),
        Selection(<<Section(1, 29, <<Hunk(1, 1, <<"+">>)>>)>>),
        Selection(<<Section(1, 12, <<[Hunk(1, 1, <<"+">>) EXCEPT !.lines = <<Long>>]>>)>>),
        Selection(<<Section(1, 12, <<[Hunk(1, 1, <<"?">>) EXCEPT !.lines = <<[Long EXCEPT !.kind = "?"]>>]>>)>>),
        Selection(<<Section(1, 12, <<Hunk(1, 1, <<"-", "-">>)>>),
                    Section(1, 5, <<Hunk(1, 1, <<"+", "+">>)>>)>>),
        [Selection(<<one, Section(2, 2, <<Hunk(3, 3, <<"-">>)>>)>>) EXCEPT !.parts = Parts, !.base = 4],
        [Selection(<<Section(2, 2, <<Hunk(3, 3, <<"-">>)>>)>>) EXCEPT !.parts = Parts]}

MCInputs == Splits \cup Changes \cup Edges \cup Odd
=============================================================================
