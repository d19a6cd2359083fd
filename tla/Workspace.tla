----------------------------- MODULE Workspace -----------------------------
(***************************************************************************)
(* crates/evo-exec-local/src/workspace.rs: where a file operation of a run *)
(* may land.  A path is the sequence of its names from the root of the     *)
(* file system; a file system gives a node to the paths that exist.        *)
(***************************************************************************)
EXTENDS Naturals, Sequences, SequencesExt

CONSTANTS
    Names,        \* the names of files and directories
    Base,         \* the directory of all workspaces
    DirNames,     \* the run ids that may name a directory
    Sensitive,    \* SENSITIVE_PREFIXES, as paths
    MaxSteps      \* bound: more than any walk takes that is not a loop of links

ASSUME WorkspaceAssumption ==
    /\ Base \in Seq(Names) /\ DirNames \subseteq Names
    /\ MaxSteps \in Nat

Up == ".."

(* A relative path, as a tool gives it: names, and Up. *)
ParamPaths == Seq(Names \cup {Up})

(* A file has another name or not (nlink); a link has an absolute target. *)
Dir == [kind |-> "dir"]
File == [kind |-> "file", nlink |-> 1]
HardLinked == [kind |-> "file", nlink |-> 2]
Link(target) == [kind |-> "link", target |-> target]
Nothing == [kind |-> "nothing"]

Node(fs, path) == IF path = <<>> THEN Dir ELSE IF path \in DOMAIN fs THEN fs[path] ELSE Nothing

Nodes == {Nothing, Dir, File, HardLinked} \cup [kind : {"link"}, target : Seq(Names)]

(* What is there is in a directory. *)
IsFileSystem(fs) ==
    \A path \in DOMAIN fs :
        /\ path \in Seq(Names) \ {<<>>} /\ fs[path] \in Nodes
        /\ fs[path] # Nothing => Node(fs, Front(path)) = Dir

-----------------------------------------------------------------------------
(* How the operating system walks a path, name by name, following links: to
   what is there, or to the first name that is missing.  A walk that is not
   over by MaxSteps is a loop of links, and finds nothing. *)

WalkStep(fs, w) ==
    LET next == Append(w.at, Head(w.rest))
        node == Node(fs, next)
        more == Tail(w.rest)
    IN  IF w.status # "walking" THEN w
        ELSE IF w.rest = <<>> THEN [w EXCEPT !.status = "found"]
        ELSE CASE node.kind = "nothing" -> [w EXCEPT !.status = "missing"]
               [] node.kind = "file" /\ more # <<>> -> [w EXCEPT !.status = "not_a_directory"]
               [] node.kind = "link" -> [w EXCEPT !.at = <<>>, !.rest = node.target \o more]
               [] OTHER -> [w EXCEPT !.at = next, !.rest = more]

Walk(fs, path) ==
    LET after[n \in 0 .. MaxSteps] ==
          IF n = 0 THEN [at |-> <<>>, rest |-> path, status |-> "walking"]
          ELSE WalkStep(fs, after[n - 1])
    IN  after[MaxSteps]

(* lstat: the last name is looked up where the path before it leads, and not
   followed. *)
Exists(fs, path) ==
    \/ path = <<>>
    \/ LET parent == Walk(fs, Front(path))
       IN  /\ parent.status = "found" /\ Node(fs, parent.at) = Dir
           /\ Node(fs, Append(parent.at, path[Len(path)])) # Nothing

(* stat, as Path::exists does *)
ExistsFollowing(fs, path) == Walk(fs, path).status = "found"

(* Where a write to `path` lands, or a read: on the file that is there, or in
   a new one (its missing directories are made first). *)
Landing(fs, path) ==
    LET w == Walk(fs, path) IN IF w.status = "missing" THEN w.at \o w.rest ELSE w.at

CanRead(fs, path) ==
    LET w == Walk(fs, path) IN w.status = "found" /\ Node(fs, w.at).kind = "file"

CanWrite(fs, path) == CanRead(fs, path) \/ Walk(fs, path).status = "missing"

-----------------------------------------------------------------------------
Refused == [ok |-> FALSE]
Accepted(path) == [ok |-> TRUE, path |-> path]

(* WorkspaceRoot::ensure, for a run id that may name a directory: the
   directory is made if it is not there, and it must be where it says. *)
EnsuredFs(fs, run) ==
    LET path == Append(Base, run)
    IN  IF Node(fs, path) = Nothing
          THEN [p \in DOMAIN fs \cup {path} |-> IF p = path THEN Dir ELSE fs[p]]
          ELSE fs

Ensure(fs, run) ==
    LET w == Walk(EnsuredFs(fs, run), Append(Base, run))
    IN  IF run \in DirNames /\ w.status = "found" /\ w.at = Append(Base, run)
             /\ Node(fs, w.at).kind # "file"
          THEN Accepted(w.at) ELSE Refused

(* `..` taken out by the names alone; a path that climbs out is refused. *)
LexicalStep(before, name) ==
    IF ~before.ok THEN Refused
    ELSE IF name # Up THEN Accepted(Append(before.path, name))
    ELSE IF before.path = <<>> THEN Refused
    ELSE Accepted(Front(before.path))

Lexical(rel) ==
    LET after[n \in 0 .. Len(rel)] ==
          IF n = 0 THEN Accepted(<<>>) ELSE LexicalStep(after[n - 1], rel[n])
    IN  after[Len(rel)]

IsSensitive(path) == \E p \in Sensitive : IsPrefix(p, path)

(* Faulty (see README, "Sensitivity"): a link to what is not there yet counts
   as not there. *)
LongestThereFollowing(fs, path) ==
    CHOOSE n \in 0 .. Len(path) :
        /\ ExistsFollowing(fs, SubSeq(path, 1, n))
        /\ \A m \in n + 1 .. Len(path) : ~ExistsFollowing(fs, SubSeq(path, 1, m))

(* resolve_through_symlinks: from the longest part that is there, links and
   all, on; the rest is to be made there. *)
LongestThere(fs, path) ==
    CHOOSE n \in 0 .. Len(path) :
        /\ Exists(fs, SubSeq(path, 1, n))
        /\ \A m \in n + 1 .. Len(path) : ~Exists(fs, SubSeq(path, 1, m))

ResolveThroughSymlinks(fs, ws, path) ==
    LET n == LongestThere(fs, path)
        real == Walk(fs, SubSeq(path, 1, n))
    IN  IF \/ real.status # "found"
           \/ ~IsPrefix(ws, real.at)
           \/ Node(fs, real.at) = HardLinked
          THEN Refused
          ELSE Accepted(real.at \o SubSeq(path, n + 1, Len(path)))

(* resolve_in_workspace, of a relative path (an absolute one is refused). *)
ResolveInWorkspace(fs, ws, rel) ==
    LET lexical == Lexical(rel)
    IN  IF ~lexical.ok THEN Refused
        ELSE IF IsSensitive(lexical.path) THEN Refused
        ELSE ResolveThroughSymlinks(fs, ws, ws \o lexical.path)

=============================================================================
