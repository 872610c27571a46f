----------------------------- MODULE SourcePlan -----------------------------
(***************************************************************************)
(* The source plan (review/plan.go): the diff is split into fragments that  *)
(* fit a prompt, the fragments are packed group by group into local tasks   *)
(* that own their bytes, and boundary tasks look across them.               *)
(*                                                                         *)
(* A section of the diff is [file, meta, hunks]: its metadata of so many    *)
(* bytes, and hunks [old, oldCount, new, newCount, suffix, lines]. A prompt *)
(* is its size in bytes: what it says is left out.                          *)
(***************************************************************************)
EXTENDS Grouping, DiffMap

CONSTANTS
    Inputs,          \* selections: [sections, unread, listing, imports, base, parts]
    PromptBudget,    \* planPromptBudget
    Framing,         \* headroom the executor has above it: 1024
    ContextRoom,     \* what the base must leave: 2048
    Frame,           \* the fixed text of a prompt
    PathBytes, SpanBytes, TaskBytes,   \* one path, span and task in a prompt
    Header,          \* a hunk header without its suffix
    Reserve,         \* kept for the frame when a section is split: 1024
    HeaderReserve,   \* kept for a rebuilt hunk header: 128
    ManifestRoom,    \* what the manifest must leave: 1024
    ExcerptRoom,     \* kept for the heads of two excerpts: 512
    MinExcerpt, MaxExcerpt,            \* 128 and 16000
    Marker,          \* the line that stands for the middle of an excerpt
    ContextHeader, ContextTotal,       \* contextHeader, contextTotalBytes
    MinContext       \* least room for a cut context: 64

(* What git writes: every section has metadata, every line has bytes. An    *)
(* empty diff is refused before anything else. Some hunks have a header     *)
(* that cannot be read: <<k, j>> is in unread for hunk j of section k.      *)
Hunks ==
    [old : Nat, oldCount : Nat, new : Nat, newCount : Nat, suffix : Nat,
     lines : Seq([kind : Kind, bytes : Nat \ {0}])]
Selections ==
    [sections : (Seq([file : DOMAIN Files, meta : Nat \ {0}, hunks : Seq(Hunks)])) \ {<<>>},
     unread : SUBSET (Nat \X Nat),
     listing : Seq(DOMAIN Files), imports : [DOMAIN Files -> SUBSET Seq(STRING)],
     base : Nat, parts : Seq([file : DOMAIN Files, sizes : Seq(Nat)])]
ASSUME InputsAssumption == Inputs \subseteq Selections

ASSUME PlanAssumption ==
    /\ {PromptBudget, Framing, ContextRoom, Frame, PathBytes, SpanBytes, TaskBytes, Header,
        Reserve, HeaderReserve, ManifestRoom, ExcerptRoom, MinExcerpt, MaxExcerpt, Marker,
        ContextHeader, ContextTotal, MinContext} \subseteq Nat
    /\ Frame + SpanBytes <= Reserve /\ Header <= HeaderReserve
    /\ 2 * TaskBytes <= ExcerptRoom /\ Marker < MinExcerpt

VARIABLES
    input,           \* the selection
    phase,           \* "split", "pack", "border", "planned" or "refused"
    reason,          \* why it was refused
    at,              \* loop variables of planSplitSection
    fragments,       \* all fragments, in the order of the diff
    edges, groups,   \* imports and groups of the changed files
    packed,          \* groups packed so far
    pending, locals, \* the fragments not in a local task yet, and those of each
    boundaries       \* boundary tasks

vars == <<input, phase, reason, at, fragments, edges, groups, packed, pending, locals, boundaries>>

-----------------------------------------------------------------------------
(* Bytes of the diff.                                                       *)

Total(sizes) == FoldLeft(+, 0, sizes)
Bytes(lines) == Total([i \in DOMAIN lines |-> lines[i].bytes])
HunkBytes(h) == Header + h.suffix + Bytes(h.lines)
SectionBytes(s) == s.meta + Total([j \in DOMAIN s.hunks |-> HunkBytes(s.hunks[j])])

Sections == input.sections
Start(k) == Total([j \in 1 .. k - 1 |-> SectionBytes(Sections[j])])
DiffBytes == Start(Len(Sections) + 1)

(* Where hunk j of section k starts, and where its line i does. *)
HunkAt(k, j) ==
    Start(k) + Sections[k].meta + Total([i \in 1 .. j - 1 |-> HunkBytes(Sections[k].hunks[i])])
LineAt(k, j, i) ==
    LET h == Sections[k].hunks[j]
    IN HunkAt(k, j) + Header + h.suffix + Bytes(SubSeq(h.lines, 1, i - 1))

ChangedFiles == {s.file : s \in Range(Sections)}

-----------------------------------------------------------------------------
(* Prompts. A fragment is [file, start, end, hunks, sizes]: the span it     *)
(* owns, the hunks of its patch, and the bytes of the lines of the patch.   *)

Paths(frags) == {f.file : f \in Range(frags)}
Sizes(frags) == FlattenSeq([i \in DOMAIN frags |-> frags[i].sizes])
LocalPrompt(frags) ==
    input.base + Frame + PathBytes * Cardinality(Paths(frags)) + SpanBytes * Len(frags)
      + Total(Sizes(frags))
Fits(frags) == LocalPrompt(frags) <= PromptBudget

LineSizes(h) == <<Header + h.suffix>> \o [i \in DOMAIN h.lines |-> h.lines[i].bytes]
Whole(k) ==
    [file |-> Sections[k].file, start |-> Start(k), end |-> Start(k + 1),
     hunks |-> Sections[k].hunks,
     sizes |-> <<Sections[k].meta>>
                 \o FlattenSeq([j \in DOMAIN Sections[k].hunks |-> LineSizes(Sections[k].hunks[j])])]

(* The first lines that fit in room. *)
Cut(sizes, room) ==
    SubSeq(sizes, 1, Max({n \in 0 .. Len(sizes) : Total(SubSeq(sizes, 1, n)) <= room}))

(* renderParts: the parts about these paths, as long as they fit. *)
RenderParts(parts, paths) ==
    LET Add(sizes, part) ==
            IF part.file \in paths /\ Total(sizes) + Total(part.sizes) <= ContextTotal
            THEN sizes \o part.sizes ELSE sizes
        extra == FoldLeft(Add, <<ContextHeader>>, parts)
    IN IF extra = <<ContextHeader>> THEN <<>> ELSE extra

(* appendDiscoveryContext: the size with the context, or with those of its  *)
(* lines that fit. A line break goes before it; its last one is its own.    *)
AppendContext(prompt, extra) ==
    LET room == PromptBudget - prompt - 2
        cut == IF Total(extra) - 1 <= room THEN extra
               ELSE IF room < MinContext THEN <<>> ELSE Cut(extra, room)
    IN IF cut = <<>> THEN prompt ELSE prompt + Total(cut) + 1

LocalTask(frags) ==
    [kind |-> "local", paths |-> Paths(frags),
     spans |-> [i \in DOMAIN frags |-> [start |-> frags[i].start, end |-> frags[i].end]],
     about |-> frags,
     prompt |-> AppendContext(LocalPrompt(frags), RenderParts(input.parts, Paths(frags)))]

(* planExcerpt: whole lines of the head and the tail. *)
Excerpt(sizes, room) ==
    IF Total(sizes) <= room THEN Total(sizes)
    ELSE LET available == room - Marker
             head == Total(Cut(sizes, available \div 2))
             tail == Total(Cut(Reverse(sizes), available - head - 1))
         IN head + Marker + tail

(* The manifest of all locals that every boundary prompt starts with. *)
Manifest ==
    LET Entry(frags) == TaskBytes + PathBytes * Cardinality(Paths(frags)) + SpanBytes * Len(frags)
    IN input.base + Frame + PathBytes * Cardinality(ChangedFiles)
         + Total([i \in DOMAIN locals |-> Entry(locals[i])])

(* planAddBoundaries, add: a is the primary scope, b the other one; edge is *)
(* the import that is the reason, <<>> for the conservative pass.           *)
BoundaryHead(edge) == Manifest + TaskBytes + Frame + PathBytes * Len(edge)
Scopes(a, b) == IF a = b THEN <<a>> ELSE <<a, b>>
WholeBudget(a, b, edge) ==
    Min({MaxExcerpt, PromptBudget - BoundaryHead(edge) - ExcerptRoom})
ExcerptBudget(a, b, edge) ==
    Min({MaxExcerpt, (PromptBudget - BoundaryHead(edge) - ExcerptRoom) \div Len(Scopes(a, b))})
BoundaryTask(a, b, edge) ==
    LET Quoted(i) == TaskBytes + Excerpt(Sizes(locals[i]), ExcerptBudget(a, b, edge))
        scopes == Scopes(a, b)
    IN [kind |-> "boundary", paths |-> Paths(locals[a]) \cup Paths(locals[b]),
        spans |-> <<>>, about |-> <<a, b, edge>>,
        prompt |-> BoundaryHead(edge) + Total([n \in DOMAIN scopes |-> Quoted(scopes[n])])]

-----------------------------------------------------------------------------
(* ValidatePlan.                                                            *)

Tasks == [i \in DOMAIN locals |-> LocalTask(locals[i])] \o boundaries
ByStart(spans) ==
    LET Before(m) == {n \in DOMAIN spans :
                         \/ spans[n].start < spans[m].start
                         \/ spans[n].start = spans[m].start /\ n < m}
    IN [i \in DOMAIN spans |-> spans[CHOOSE m \in DOMAIN spans : Cardinality(Before(m)) = i - 1]]
Contiguous ==
    LET owned == FlattenSeq([i \in DOMAIN Tasks |-> Tasks[i].spans])
        After(n, span) == IF span.start = n /\ span.end > n THEN span.end ELSE -1
    IN FoldLeft(After, 0, ByStart(owned)) = DiffBytes
ValidPlan ==
    /\ DiffBytes > 0 /\ Len(locals) > 0 /\ Len(boundaries) >= Len(locals)
    /\ IsInjective(Tasks)
    /\ \A t \in Range(Tasks) :
          /\ t.prompt <= PromptBudget + Framing /\ t.paths # {}
          /\ (t.kind = "local") <=> (t.spans # <<>>)
    /\ Contiguous

-----------------------------------------------------------------------------
(* Splitting.                                                               *)

AtSection(k) == [section |-> k, hunk |-> 0, line |-> 1, old |-> 0, new |-> 0]
(* A cursor is at the next line of its side: an empty side is said to start *)
(* at the line before.                                                      *)
Cursor(start, count) == IF count = 0 THEN start + 1 ELSE start
AtHunk(k, j) ==
    LET h == Sections[k].hunks[j]
    IN [section |-> k, hunk |-> j, line |-> 1,
        old |-> Cursor(h.old, h.oldCount), new |-> Cursor(h.new, h.newCount)]
AfterHunk(k, j) ==
    IF j < Len(Sections[k].hunks) THEN AtHunk(k, j + 1) ELSE AtSection(k + 1)

Init ==
    /\ input \in Inputs
    /\ phase = "split" /\ reason = ""
    /\ at = AtSection(1)
    /\ fragments = <<>> /\ edges = <<>> /\ groups = <<>> /\ packed = 0
    /\ pending = <<>> /\ locals = <<>> /\ boundaries = <<>>

Refuse(why) ==
    /\ phase' = "refused" /\ reason' = why
    /\ UNCHANGED <<input, at, fragments, edges, groups, packed, pending, locals, boundaries>>

(* The context is cancelled, or git cannot be read. *)
Interrupted ==
    /\ phase \in {"split", "border"}
    /\ Refuse("interrupted")

SplitRest == <<input, reason, edges, groups, packed, pending, locals, boundaries>>

(* PR and source context are never cut. *)
NoRoomForContext ==
    /\ phase = "split" /\ at = AtSection(1)
    /\ input.base + ContextRoom >= PromptBudget
    /\ Refuse("context")

(* planSplitSection: a section that fits is one fragment. *)
UnreservedLimit == PromptBudget - input.base
PayloadLimit == PromptBudget - input.base - PathBytes - Reserve
BeginSection ==
    /\ phase = "split" /\ at.hunk = 0 /\ at.section <= Len(Sections)
    /\ input.base + ContextRoom < PromptBudget
    /\ LET k == at.section
           s == Sections[k]
       IN \/ /\ Fits(<<Whole(k)>>)
             /\ fragments' = Append(fragments, Whole(k))
             /\ at' = AtSection(k + 1)
             /\ UNCHANGED <<phase, SplitRest>>
          \/ /\ ~Fits(<<Whole(k)>>)
             /\ s.hunks = <<>> \/ s.meta >= PayloadLimit
             /\ Refuse(IF s.hunks = <<>> THEN "binary" ELSE "metadata")
          \/ /\ ~Fits(<<Whole(k)>>)
             /\ s.hunks # <<>> /\ s.meta < PayloadLimit
             /\ at' = AtHunk(k, 1)
             /\ UNCHANGED <<phase, fragments, SplitRest>>

(* The ends a chunk from line i can have: whole lines, each together with   *)
(* the one "\ No newline" that follows it.                                  *)
ChunkEnds(h, i) ==
    {e \in i .. Len(h.lines) :
        e = Len(h.lines) \/ h.lines[e].kind = "\\" \/ h.lines[e + 1].kind # "\\"}

(* The header of a rebuilt hunk keeps the original coordinates. *)
FromFirst(cursor, count) == cursor
Rebuilt(cursor, count) == IF count = 0 THEN cursor - 1 ELSE cursor

LinesStart(k, j, i) ==
    IF i > 1 THEN LineAt(k, j, i) ELSE HunkAt(k, j)
OwnedStart(k, j, i) ==
    IF i > 1 THEN LineAt(k, j, i) ELSE IF j > 1 THEN HunkAt(k, j) ELSE Start(k)
Chunk(k, j, i, e) ==
    LET h == Sections[k].hunks[j]
        lines == SubSeq(h.lines, i, e)
        hunk == [old |-> Rebuilt(at.old, OldCount(lines)), oldCount |-> OldCount(lines),
                 new |-> Rebuilt(at.new, NewCount(lines)), newCount |-> NewCount(lines),
                 suffix |-> h.suffix, lines |-> lines]
    IN [file |-> Sections[k].file, start |-> OwnedStart(k, j, i), end |-> LineAt(k, j, e + 1),
        hunks |-> <<hunk>>, sizes |-> <<Sections[k].meta>> \o LineSizes(hunk)]

(* The lines a hunk has must be those its header counts. *)
CountsMatch(h) == OldCount(h.lines) = h.oldCount /\ NewCount(h.lines) = h.newCount

(* planParseHunk, and the checks of a chunk from line i whose ends fit, in   *)
(* their order: "" when there is none to object to. A line is looked at     *)
(* when all before it in the chunk fit.                                     *)
Objection(k, j, i, ends) ==
    LET h == Sections[k].hunks[j]
        seen == ({i} \cup {e + 1 : e \in ends}) \cap DOMAIN h.lines
    IN IF <<k, j>> \in input.unread THEN "header"
       ELSE IF \E n \in seen : h.lines[n].kind \notin {" ", "-", "+"} THEN "body"
       ELSE IF ends = {} /\ h.lines # <<>> THEN "line"
       ELSE IF h.lines = <<>> \/ (Len(h.lines) \in ends /\ ~CountsMatch(h)) THEN "hunk"
       ELSE ""

SplitChunk ==
    /\ phase = "split" /\ at.hunk > 0
    /\ LET k == at.section  j == at.hunk  i == at.line
           h == Sections[k].hunks[j]
           limit == PayloadLimit - Sections[k].meta - h.suffix - HeaderReserve
           ends == {e \in ChunkEnds(h, i) : Bytes(SubSeq(h.lines, i, e)) <= limit}
           lines == SubSeq(h.lines, i, Max(ends))
           objection == Objection(k, j, i, ends)
       IN \/ objection # "" /\ Refuse(objection)
          \/ /\ objection = ""
             /\ fragments' = Append(fragments, Chunk(k, j, i, Max(ends)))
             /\ at' = IF Max(ends) = Len(h.lines) THEN AfterHunk(k, j)
                      ELSE [at EXCEPT !.line = Max(ends) + 1,
                                      !.old = @ + OldCount(lines),
                                      !.new = @ + NewCount(lines)]
             /\ UNCHANGED <<phase, SplitRest>>

(* The imports and the groups of the files that have a section, sorted. *)
Group ==
    /\ phase = "split" /\ at = AtSection(Len(Sections) + 1)
    /\ input.base + ContextRoom < PromptBudget
    /\ edges' = GoImportEdges(Sorted(ChangedFiles), input.imports)
    /\ groups' = ClusterFilesEdges(ChangedFiles, edges')
    /\ phase' = "pack"
    /\ UNCHANGED <<input, reason, at, fragments, packed, pending, locals, boundaries>>

-----------------------------------------------------------------------------
(* Packing.                                                                 *)

(* byPath, for the files of a group in order. *)
FragmentsOf(group) ==
    LET Of(p) == Sorted({n \in DOMAIN fragments : fragments[n].file = p})
        files == Sorted(group)
        order == FlattenSeq([i \in DOMAIN files |-> Of(files[i])])
    IN [n \in DOMAIN order |-> fragments[order[n]]]

Flush(acc) ==
    IF acc.pending = <<>> THEN acc
    ELSE [pending |-> <<>>, locals |-> Append(acc.locals, acc.pending)]
Place(acc, frags) ==
    IF Fits(acc.pending \o frags) THEN [acc EXCEPT !.pending = @ \o frags]
    ELSE [Flush(acc) EXCEPT !.pending = frags]
PackedGroup(acc, frags) ==
    IF Fits(frags) THEN Place(acc, frags)
    ELSE Flush(FoldLeft(LAMBDA a, f : Place(a, <<f>>), Flush(acc), frags))

Pack ==
    /\ phase = "pack" /\ packed < Len(groups)
    /\ LET frags == FragmentsOf(groups[packed + 1])
           acc == PackedGroup([pending |-> pending, locals |-> locals], frags)
       IN IF \E f \in Range(frags) : ~Fits(<<f>>)
          THEN Refuse("fragment")
          ELSE /\ packed' = packed + 1
               /\ pending' = acc.pending /\ locals' = acc.locals
               /\ UNCHANGED <<input, phase, reason, at, fragments, edges, groups, boundaries>>

PackLast ==
    /\ phase = "pack" /\ packed = Len(groups)
    /\ LET acc == Flush([pending |-> pending, locals |-> locals])
       IN pending' = acc.pending /\ locals' = acc.locals
    /\ phase' = "border"
    /\ UNCHANGED <<input, reason, at, fragments, edges, groups, packed, boundaries>>

-----------------------------------------------------------------------------
(* Boundaries.                                                              *)

Add(a, b, edge) ==
    IF ExcerptBudget(a, b, edge) < MinExcerpt THEN Refuse("excerpt")
    ELSE /\ boundaries' = Append(boundaries, BoundaryTask(a, b, edge))
         /\ UNCHANGED <<input, phase, reason, at, fragments, edges, groups, packed, pending, locals>>

NoRoomForManifest ==
    /\ phase = "border" /\ boundaries = <<>>
    /\ Manifest + ManifestRoom >= PromptBudget
    /\ Refuse("manifest")

(* Every local gets a pass that shows it with the next one. *)
Neighbor(a) == (a % Len(locals)) + 1
AddNeighbor ==
    /\ phase = "border" /\ Len(boundaries) < Len(locals)
    /\ Manifest + ManifestRoom < PromptBudget
    /\ LET a == Len(boundaries) + 1 IN Add(a, Neighbor(a), <<>>)

(* Then every pair of locals an import joins and no boundary covers yet, in *)
(* the order of the edges and of the locals that own their files.           *)
LastOwner(p) == {Max({i \in DOMAIN locals : p \in Paths(locals[i])})}
Owners(p) == {i \in DOMAIN locals : p \in Paths(locals[i])}
Covered == {{t.about[1], t.about[2]} : t \in Range(boundaries)}
Uncovered ==
    LET Pairs(e) == {ab \in Owners(e.from) \X Owners(e.to) :
                        ab[1] # ab[2] /\ {ab[1], ab[2]} \notin Covered}
    IN UNION {{<<i, ab[1], ab[2]>> : ab \in Pairs(edges[i])} : i \in DOMAIN edges}
First(triples) ==
    CHOOSE x \in triples : \A y \in triples :
        \/ x[1] < y[1]
        \/ x[1] = y[1] /\ x[2] < y[2]
        \/ x[1] = y[1] /\ x[2] = y[2] /\ x[3] <= y[3]

AddEdge ==
    /\ phase = "border" /\ Len(boundaries) >= Len(locals)
    /\ Uncovered # {}
    /\ LET x == First(Uncovered)
       IN Add(x[2], x[3], <<edges[x[1]].from, edges[x[1]].to>>)

Validate ==
    /\ phase = "border" /\ Len(boundaries) >= Len(locals)
    /\ Uncovered = {}
    /\ phase' = IF ValidPlan THEN "planned" ELSE "refused"
    /\ reason' = IF ValidPlan THEN "" ELSE "invalid"
    /\ UNCHANGED <<input, at, fragments, edges, groups, packed, pending, locals, boundaries>>

Answered == phase \in {"planned", "refused"} /\ UNCHANGED vars

Next ==
    \/ Interrupted \/ NoRoomForContext \/ BeginSection \/ SplitChunk \/ Group
    \/ Pack \/ PackLast
    \/ NoRoomForManifest \/ AddNeighbor \/ AddEdge \/ Validate
    \/ Answered

Spec == Init /\ [][Next]_vars

-----------------------------------------------------------------------------
(* Properties.                                                              *)

(* However the diff is split and packed, by the time the tasks are packed   *)
(* every one of its bytes is owned by one local task, once: nothing goes    *)
(* unreviewed, file metadata and hunk headers included.                     *)
OwnedExactly ==
    phase = "border" /\ boundaries = <<>> =>
        \A byte \in 0 .. DiffBytes - 1 :
            Quantify(UNION {{<<t, i>> : i \in DOMAIN locals[t]} : t \in DOMAIN locals},
                     LAMBDA ti : LET f == locals[ti[1]][ti[2]]
                                 IN f.start <= byte /\ byte < f.end) = 1

(* The patches a file was split into have every line at the place in the    *)
(* old and in the new file where its whole patch has it, and anchor the     *)
(* same lines: a finding reported from a part of a hunk stands on the line  *)
(* it is about.                                                             *)
Placed(hunks) ==
    UNION {LET Before(i) == SubSeq(h.lines, 1, i - 1)
           IN {<<Cursor(h.old, h.oldCount) + OldCount(Before(i)),
                 Cursor(h.new, h.newCount) + NewCount(Before(i)), h.lines[i]>> :
                   i \in DOMAIN h.lines} :
           h \in Range(hunks)}
CoordinatesPreserved ==
    phase = "pack" => \A p \in ChangedFiles :
        LET split == {f.hunks : f \in {g \in Range(fragments) : g.file = p}}
            whole == {s.hunks : s \in {t \in Range(Sections) : t.file = p}}
        IN /\ MergePatch(split) = MergePatch(whole)
           /\ UNION {Placed(h) : h \in split} = UNION {Placed(h) : h \in whole}

(* A refusal is about the change and its budget: what is split always fits  *)
(* when it is packed, hunks add up, a plan that is built is valid, and      *)
(* wherever a hunk is cut, only one that git does not write has a body that *)
(* is not standard.                                                         *)
Standard(h) ==
    \A n \in DOMAIN h.lines :
        /\ h.lines[n].kind # "?"
        /\ h.lines[n].kind = "\\" => n > 1 /\ h.lines[n - 1].kind # "\\"
AllStandard == \A s \in Range(Sections) : \A h \in Range(s.hunks) : Standard(h)
HonestRefusals ==
    /\ reason \notin {"hunk", "fragment", "invalid"}
    /\ AllStandard => reason # "body"

(* Every prompt, with its context or excerpts, leaves the executor the      *)
(* framing room it counts on.                                               *)
PromptsFit ==
    phase = "planned" => \A t \in Range(Tasks) : t.prompt <= PromptBudget

(* In a plan every local task is looked at from the outside, and for every  *)
(* import between changed files every two tasks that own a part of the one  *)
(* and of the other are looked at together.                                 *)
EdgesReviewed ==
    phase = "planned" =>
        /\ \A i \in DOMAIN locals : \E t \in Range(boundaries) : t.about[1] = i
        /\ \A e \in Range(edges) : \A i, j \in DOMAIN locals :
              (i # j /\ e.from \in Paths(locals[i]) /\ e.to \in Paths(locals[j]))
                 => {i, j} \in Covered

(* The groups are a partition of the changed files, and the pathspecs of    *)
(* each select its files and no other changed file: a review of every group *)
(* is a review of the whole, with nothing reviewed twice.                   *)
SpecsSelectGroup ==
    phase = "pack" =>
        /\ UNION Range(groups) = ChangedFiles
        /\ \A i \in DOMAIN groups :
              UNION {Under(spec, ChangedFiles) : spec \in GroupPathspecs(groups[i], ChangedFiles)}
                = groups[i]
        /\ \A i, j \in DOMAIN groups : i # j => groups[i] \cap groups[j] = {}

(* The groups command lists untracked files after tracked ones, the plan    *)
(* sorts them: both form the same groups, unless imports run in a circle.   *)
Circular ==
    LET Follows(p) == {e.to : e \in {d \in Range(edges) : d.from = p}}
        parents == {e.to : e \in Range(edges)}
    IN \E S \in SUBSET parents : S # {} /\ \A p \in S : Follows(p) # {} /\ Follows(p) \subseteq S
OrderIrrelevant ==
    phase = "pack" => Circular \/ Groups(input.listing, input.imports) = groups
=============================================================================
