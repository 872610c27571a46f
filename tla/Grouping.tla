------------------------------ MODULE Grouping ------------------------------
(***************************************************************************)
(* How changed files become groups (review/group.go, group_import.go). A    *)
(* file is its place in the order of paths; what the code reads off a path  *)
(* is a field of Files[p]:                                                  *)
(*   dir, name     the directories down to it, and its base name            *)
(*   ext           its extension                                            *)
(*   stem          normalizedStem: the name without extension, test mark    *)
(*                 and platform, in lower case                              *)
(*   header        the name without extension, in lower case                *)
(*   test, impl    splitTestName: whether the name has a test mark, and the *)
(*                 name without extension and test mark                     *)
(*   locale        the path with its locale replaced, or <<>>               *)
(*   lock          its package manager, or ""                               *)
(*   lines         added plus deleted, 0 for a binary file                  *)
(***************************************************************************)
EXTENDS Integers, FiniteSetsExt, SequencesExt

CONSTANTS
    Files,           \* the paths of the repository, in order
    Modules,         \* Modules[dir]: the module its go.mod names, "" if unreadable
    HeaderExts,      \* HeaderExts[ext]: the language whose headers it pairs with
    TestDirs,        \* directory names that hold tests
    MaxHeaders,      \* limit of a header family
    MaxGroupFiles, MaxGroupLines

ASSUME GroupingAssumption ==
    /\ DOMAIN Files \subseteq Nat /\ IsFiniteSet(DOMAIN Files)
    /\ \A p \in DOMAIN Files : Files[p].dir \in Seq(STRING) /\ Files[p].name \in STRING
    /\ {MaxHeaders, MaxGroupFiles, MaxGroupLines} \subseteq Nat \ {0}

Path(p) == Files[p].dir \o <<Files[p].name>>
Sorted(S) ==
    [i \in 1 .. Cardinality(S) |-> CHOOSE p \in S : Cardinality({q \in S : q < p}) = i - 1]
Lines(S) == FoldSet(LAMBDA p, n : Files[p].lines + n, 0, S)

-----------------------------------------------------------------------------
(* Imports. A package is named by the sequence of its module and the        *)
(* directories under it.                                                    *)

(* nearestModule: the directory of the closest go.mod at or above; an       *)
(* unreadable one hides those above it.                                     *)
NearestModule(p) ==
    LET above == {d \in DOMAIN Modules : IsPrefix(d, Files[p].dir)}
    IN {d \in above : (\A e \in above : Len(e) <= Len(d)) /\ Modules[d] # ""}

(* fileImportPath. *)
FileImportPath(p, d) ==
    <<Modules[d]>> \o SubSeq(Files[p].dir, Len(d) + 1, Len(Files[p].dir))

(* The packages a Go file is in: one, or none outside every module. *)
PackageOf(p) ==
    IF Files[p].ext = ".go" THEN {FileImportPath(p, d) : d \in NearestModule(p)} ELSE {}

(* The file that stands for a package: the first in path order. *)
FirstSeen(listing, pkg) ==
    LET in == SelectSeq(listing, LAMBDA p : pkg \in PackageOf(p))
    IN IF in = <<>> THEN {} ELSE {Head(in)}
Representative(listing, pkg) ==
    LET in == {p \in Range(listing) : pkg \in PackageOf(p)}
    IN IF in = {} THEN {} ELSE {Min(in)}

(* uniqueImportedPackage: the changed packages of other directories among   *)
(* the imports, when there is just one.                                     *)
UniqueImported(listing, p, imports) ==
    LET hits == {q \in UNION {Representative(listing, pkg) : pkg \in imports} :
                     Files[q].dir # Files[p].dir}
    IN IF Cardinality(hits) = 1 THEN hits ELSE {}

(* goImportEdges: in the order the files are listed. *)
GoImportEdges(listing, imports) ==
    LET Hit(p) == IF PackageOf(p) = {} THEN {} ELSE UniqueImported(listing, p, imports[p])
        EdgeOf(p) == IF Hit(p) = {} THEN <<>>
                     ELSE <<[from |-> p, to |-> CHOOSE q \in Hit(p) : TRUE]>>
    IN FlattenSeq([i \in DOMAIN listing |-> EdgeOf(listing[i])])

-----------------------------------------------------------------------------
(* Keys: files of one key are one group.                                    *)

DirKey(p) == IF Files[p].dir = <<>> THEN <<"file", Files[p].name>>
                                    ELSE <<"dir">> \o Files[p].dir

(* The families of each file, <<>> for a file that is in none. *)
LocaleFamily == [p \in DOMAIN Files |-> Files[p].locale]
HeaderFamily == [p \in DOMAIN Files |->
    IF Files[p].ext \in DOMAIN HeaderExts /\ Files[p].header # ""
    THEN <<"header", HeaderExts[Files[p].ext], Files[p].header>> ELSE <<>>]
StemFamily == [p \in DOMAIN Files |->
    IF Files[p].stem = "" THEN <<>> ELSE <<"stem">> \o Files[p].dir \o <<Files[p].stem>>]
LockFamily == [p \in DOMAIN Files |->
    IF Files[p].lock = "" THEN <<>> ELSE <<"lock">> \o Files[p].dir \o <<Files[p].lock>>]

(* mergeFamilies: a file is in one family at most, the first that takes it. *)
MergeFamilies(key, family, limit) ==
    LET Members(p) == {q \in DOMAIN key : family[q] = family[p]}
        Taken(p) == {q \in Members(p) : key[q][1] # "family"}
        Joins(p) == /\ family[p] # <<>> /\ p \in Taken(p)
                    /\ Cardinality(Members(p)) <= limit
                    /\ Cardinality(Taken(p)) >= 2
    IN [p \in DOMAIN key |-> IF Joins(p) THEN <<"family">> \o family[p] ELSE key[p]]

(* applyImportEdges: an importer takes the key its root had. *)
Root(parent, i) ==
    LET find[j \in DOMAIN parent] == IF parent[j] = j THEN j ELSE find[parent[j]]
    IN find[i]
Joined(parent, edge) ==
    [parent EXCEPT ![Root(parent, edge.from)] = Root(parent, edge.to)]
ApplyImportEdges(key, edges) ==
    LET parent == FoldLeft(Joined, [p \in DOMAIN key |-> p], edges)
        sources == {e.from : e \in Range(edges)}
    IN [p \in DOMAIN key |-> IF p \in sources THEN key[Root(parent, p)] ELSE key[p]]

(* attachTests: a test in a test directory takes the key of the only        *)
(* implementation of its name, when that is elsewhere. A file that is all   *)
(* test mark and extension has no name.                                     *)
InTestDir(p) == Range(Files[p].dir) \cap TestDirs # {}
AttachTests(key) ==
    LET Impl(p) == {q \in DOMAIN key : /\ ~Files[q].test /\ Files[q].impl # ""
                                       /\ Files[q].impl = Files[p].impl
                                       /\ Files[q].ext = Files[p].ext}
        Attached(p) == {q \in Impl(p) : /\ Files[p].test /\ InTestDir(p)
                                        /\ Cardinality(Impl(p)) = 1
                                        /\ Files[q].dir # Files[p].dir}
    IN [p \in DOMAIN key |-> IF Attached(p) = {} THEN key[p]
                             ELSE key[CHOOSE q \in Attached(p) : TRUE]]

Keys(S, edges) ==
    LET n == Cardinality(S) + 1
        located == MergeFamilies([p \in S |-> DirKey(p)], LocaleFamily, n)
        headers == MergeFamilies(located, HeaderFamily, MaxHeaders)
        stems == MergeFamilies(headers, StemFamily, n)
        locks == MergeFamilies(stems, LockFamily, n)
    IN AttachTests(ApplyImportEdges(locks, edges))

-----------------------------------------------------------------------------
(* Groups.                                                                  *)

(* packFiles: runs of the files in path order, none over a limit unless it  *)
(* is a single file.                                                        *)
PackFiles(S) ==
    LET Full(chunk, p) ==
            /\ chunk # {}
            /\ \/ Cardinality(chunk) >= MaxGroupFiles
               \/ Lines(chunk) + Files[p].lines > MaxGroupLines
        Put(acc, p) ==
            IF Full(acc.chunk, p) THEN [out |-> acc.out \cup {acc.chunk}, chunk |-> {p}]
                                  ELSE [acc EXCEPT !.chunk = @ \cup {p}]
        packed == FoldLeft(Put, [out |-> {}, chunk |-> {}], Sorted(S))
    IN packed.out \cup {packed.chunk}

(* splitOversized. Its middle case, a split by the next directory, is only  *)
(* reached by the files of one directory, and leaves those together.        *)
SplitOversized(S) ==
    IF Cardinality(S) <= MaxGroupFiles /\ Lines(S) <= MaxGroupLines
    THEN {S} ELSE PackFiles(S)

(* clusterFilesEdges, as sets of files ordered by the first of each. *)
ClusterFilesEdges(S, edges) ==
    LET key == Keys(S, edges)
        buckets == {{q \in S : key[q] = key[p]} : p \in S}
        split == UNION {SplitOversized(b) : b \in buckets}
        firsts == Sorted({Min(group) : group \in split})
    IN [i \in DOMAIN firsts |-> CHOOSE group \in split : Min(group) = firsts[i]]

(* groupPathspecs: the directory when it holds no other changed file, else  *)
(* the files.                                                               *)
Under(prefix, S) == {p \in S : IsPrefix(prefix, Path(p))}
NoSiblings(prefix, group, all) == {p \in all : Files[p].dir = prefix} = group
ExclusivePrefix(prefix, group, all) == Under(prefix, all) = group
GroupPathspecs(group, all) ==
    LET dirs == {Files[p].dir : p \in group}
        own == {d \in dirs : d # <<>> /\ ExclusivePrefix(d, group, all)}
    IN IF Cardinality(dirs) = 1 /\ own # {} THEN own ELSE {Path(p) : p \in group}

(* Groups: what the groups command answers for files in the order listed.   *)
Groups(listing, imports) ==
    ClusterFilesEdges(Range(listing), GoImportEdges(listing, imports))
=============================================================================
