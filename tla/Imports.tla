------------------------------ MODULE Imports ------------------------------
(***************************************************************************)
(* Import resolution (resolve.rs): a depth-first load of the files that a  *)
(* program imports, whose items are merged ahead of the program's own.     *)
(* The recursion of load_import is a stack of the files and directories    *)
(* being loaded; one step handles one import.                              *)
(*                                                                         *)
(* A path is <<directory, name>>.  An import is [kind, name]: "name" is    *)
(* the text of the path, relative to the importing file's directory;       *)
(* "at" is a path as it is (import @path), of a directory or of a file;    *)
(* "std" is bstd.*.  A directory is reached by one text.                   *)
(***************************************************************************)
EXTENDS Naturals, Sequences, FiniteSets, SequencesExt

CONSTANTS Trees,      \* .rt files: path -> sequence of the file's imports
          Dirs,       \* directories, those without .rt files included
          Faults,     \* sets of files and directories that cannot be read,
                      \* or not be parsed; a directory is <<dir, "">>
          Main,       \* path of the program
          Root,       \* directory the compiler runs in
          PkgRoot,    \* .raytask/packages
          Join(_, _), \* directory and import text -> path
          Exact(_), WithRt(_), \* text of an @-import -> path of the file, as it
                      \* is and with .rt appended
          Earlier(_, _), \* the order of file names
          StdlibEnabled

\* What a composition assumes of them: trees are finite and have the program,
\* and the names in a directory are ordered.
TreesAssumption ==
    /\ Dirs \subseteq STRING
    /\ \A t \in Trees :
        /\ Main \in DOMAIN t /\ IsFiniteSet(DOMAIN t) /\ DOMAIN t \subseteq Dirs \X STRING
        /\ \A p \in DOMAIN t : t[p] \in Seq([kind : {"name", "at", "std"}, name : STRING])
NamesIn(t) == {p[2] : p \in DOMAIN t}
EarlierAssumption ==
    \A t \in Trees : \A x, y \in NamesIn(t) :
        /\ x = y \/ Earlier(x, y) \/ Earlier(y, x)
        /\ Earlier(x, y) => /\ ~Earlier(y, x)
                            /\ \A z \in NamesIn(t) : Earlier(y, z) => Earlier(x, z)

VARIABLES tree,    \* the files
          broken,  \* those, and the directories, that cannot be loaded
          stack,   \* what is being loaded, innermost last
          loaded,  \* keys of the imports seen
          merged,  \* the merged program: the files whose items it consists of
          outcome  \* "loading", "done" or "failed"

imports == <<tree, broken, stack, loaded, merged, outcome>>

IsFile(p) == p \in DOMAIN tree
FilesIn(dir) == {p \in DOMAIN tree : p[1] = dir}

FirstFile(candidates) ==
    LET k == SelectInSeq(candidates, IsFile)
    IN IF k = 0 THEN [is |-> "error"] ELSE [is |-> "file", path |-> candidates[k]]

\* The file an import stands for, a directory, nothing (a built-in), or an
\* error: the first candidate that exists.
ResolvePath(imp, base) ==
    CASE imp.kind = "std" -> [is |-> IF StdlibEnabled THEN "nothing" ELSE "error"]
      [] imp.kind = "at" ->
            IF imp.name \in Dirs THEN [is |-> "dir", dir |-> imp.name]
            ELSE FirstFile(<<Exact(imp.name), WithRt(imp.name)>>)
      [] imp.kind = "name" ->
            FirstFile(<<Join(base, imp.name), Join(Root, imp.name), Join(PkgRoot, imp.name)>>)

\* What is resolved cannot be loaded: it is nothing, or cannot be read or parsed.
Fails(r) ==
    \/ r.is = "error"
    \/ r.is = "file" /\ r.path \in broken
    \/ r.is = "dir" /\ <<r.dir, "">> \in broken

\* Imports are remembered by their text, files of a directory by their path.
Key(imp) == <<imp.kind, imp.name>>
FileKey(p) == <<"path", p>>

FileFrame(p) == [is |-> "file", path |-> p, files |-> <<>>, at |-> 1]
\* The .rt files of a directory in the order of their names.
Entries(dir) ==
    CHOOSE s \in [1..Cardinality(FilesIn(dir)) -> FilesIn(dir)] :
        \A i, j \in DOMAIN s : i < j => Earlier(s[i][2], s[j][2])
DirFrame(dir) == [is |-> "dir", path |-> <<dir, "">>, files |-> Entries(dir), at |-> 1]

Top == stack[Len(stack)]
Advanced == [stack EXCEPT ![Len(stack)].at = @ + 1]

\* load_import for the next import of the file on top.
LoadImport ==
    /\ outcome = "loading" /\ Top.is = "file" /\ Top.at <= Len(tree[Top.path])
    /\ LET imp == tree[Top.path][Top.at]
           r   == ResolvePath(imp, Top.path[1])
       IN IF Key(imp) \in loaded
          THEN stack' = Advanced /\ UNCHANGED <<loaded, outcome>>
          ELSE /\ loaded' = loaded \cup {Key(imp)}
               /\ stack' = IF Fails(r) THEN Advanced
                           ELSE CASE r.is = "file" -> Append(Advanced, FileFrame(r.path))
                                  [] r.is = "dir"  -> Append(Advanced, DirFrame(r.dir))
                                  [] OTHER         -> Advanced
               /\ outcome' = IF Fails(r) THEN "failed" ELSE outcome
    /\ UNCHANGED <<tree, broken, merged>>

\* The next file of a directory.
LoadEntry ==
    /\ outcome = "loading" /\ Top.is = "dir" /\ Top.at <= Len(Top.files)
    /\ LET p == Top.files[Top.at]
       IN IF FileKey(p) \in loaded
          THEN stack' = Advanced /\ UNCHANGED <<loaded, outcome>>
          ELSE /\ loaded' = loaded \cup {FileKey(p)}
               /\ IF p \in broken
                  THEN stack' = Advanced /\ outcome' = "failed"
                  ELSE stack' = Append(Advanced, FileFrame(p)) /\ UNCHANGED outcome
    /\ UNCHANGED <<tree, broken, merged>>

MergeFirst ==                 \* (mutant) a file's items before those it imports
    /\ outcome = "loading"
    /\ Top.at > (IF Top.is = "file" THEN Len(tree[Top.path]) ELSE Len(Top.files))
    /\ merged' = IF Top.is = "file" THEN <<Top.path>> \o merged ELSE merged
    /\ stack' = SubSeq(stack, 1, Len(stack) - 1)
    /\ outcome' = IF Len(stack) = 1 THEN "done" ELSE outcome
    /\ UNCHANGED <<tree, broken, loaded>>
\* All imports of the top are loaded: its own items follow theirs.
Merge ==
    /\ outcome = "loading"
    /\ Top.at > (IF Top.is = "file" THEN Len(tree[Top.path]) ELSE Len(Top.files))
    /\ merged' = IF Top.is = "file" THEN Append(merged, Top.path) ELSE merged
    /\ stack' = SubSeq(stack, 1, Len(stack) - 1)
    /\ outcome' = IF Len(stack) = 1 THEN "done" ELSE outcome
    /\ UNCHANGED <<tree, broken, loaded>>

NothingLoaded ==
    stack = <<FileFrame(Main)>> /\ loaded = {} /\ merged = <<>> /\ outcome = "loading"
\* The program itself has been read; what cannot be loaded imports nothing.
SomeBroken ==
    broken \in Faults /\ Main \notin broken /\ \A p \in broken \cap DOMAIN tree : tree[p] = <<>>
ImportsInit == tree \in Trees /\ SomeBroken /\ NothingLoaded

ImportsNext == LoadImport \/ LoadEntry \/ Merge

ImportsSpec == ImportsInit /\ [][ImportsNext]_imports
-----------------------------------------------------------------------------
(* The files a program needs: those its imports stand for, each import     *)
(* taken from the directory of the file it is in.                          *)
Uses(p) ==
    UNION {LET r == ResolvePath(tree[p][i], p[1])
           IN CASE r.is = "file" -> {r.path}
                [] r.is = "dir"  -> FilesIn(r.dir)
                [] OTHER         -> {} : i \in DOMAIN tree[p]}
\* The files needed from some on: the least set with them that is closed.
Closed(S) == \A p \in S : Uses(p) \subseteq S
Closure(from) ==
    LET closed == {S \in SUBSET DOMAIN tree : Closed(S)}
    IN {q \in DOMAIN tree : \A S \in closed : from \subseteq S => q \in S}
Needed == Closure({Main})
\* What p needs, directly or not.
Below(p) == Closure(Uses(p))

Times(p) == Cardinality({i \in DOMAIN merged : merged[i] = p})
\* Their imports, by place.
Imports == UNION {{<<p, i>> : i \in DOMAIN tree[p]} : p \in Needed}
Import(x) == tree[x[1]][x[2]]
Target(x) == ResolvePath(Import(x), x[1][1])
\* One text, one file: imports with the same text mean the same file, and a
\* file is imported under one text only (and not by way of its directory too).
NamesAreFiles ==
    /\ \A x, y \in Imports : Target(x).is = "file" /\ Target(y).is = "file" =>
           (Key(Import(x)) = Key(Import(y)) <=> Target(x).path = Target(y).path)
    /\ \A x, y \in Imports : Target(x).is = "file" /\ Target(y).is = "dir" =>
           Target(x).path[1] # Target(y).dir

\* A load cannot get past what is resolved.
Unloadable(r) == Fails(r) \/ (r.is = "dir" /\ FilesIn(r.dir) \cap broken # {})

(* What is merged.  The program itself comes last, and only once if nothing *)
(* that it needs imports it.  If names are files, then every other file    *)
(* that is needed is merged exactly once, and after the files it needs     *)
(* unless it is on a cycle.  Nothing that is merged is broken, and a load  *)
(* fails only on an import of a file that is needed, one that stands for   *)
(* nothing or brings something broken.                                     *)
MergedOnceInOrder ==
    /\ outcome = "done" =>
          /\ merged[Len(merged)] = Main
          /\ ToSet(merged) \subseteq Needed \ broken
          /\ Main \notin Below(Main) => Times(Main) = 1
          /\ NamesAreFiles =>
                /\ \A p \in Needed \ {Main} : Times(p) = 1
                /\ \A p \in Needed : p \notin Below(p) =>
                      \A q \in Below(p) : \A i, j \in DOMAIN merged :
                          merged[i] = q /\ merged[j] = p => i < j
    /\ outcome = "failed" => \E x \in Imports : Unloadable(Target(x))
=============================================================================
