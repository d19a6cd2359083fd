----------------------------- MODULE BlobStore -----------------------------
(***************************************************************************)
(* The content files of the Run Log (crates/evo-runlog/src/blobstore.rs),  *)
(* and the order in which runtime.rs uses them: a content is put, then an  *)
(* event that names it is appended.  One process writes at a time          *)
(* (store.rs, RunLog); it may die between any two calls of the file        *)
(* system, or one of them may fail.                                        *)
(***************************************************************************)
CONSTANT Contents

VARIABLES
    file,     \* content |-> what is at the path of its hash
    tmp,      \* content |-> what is at that path with the extension "tmp"
    putting,  \* the put under way: where it is, and of which content
    named     \* observer: contents that an event of the Log names

blobs == <<file, tmp, putting, named>>

Extents == {"absent", "part", "whole"}

NoPut == [pc |-> "idle", content |-> CHOOSE c \in Contents : TRUE]

BlobInit ==
    /\ file = [c \in Contents |-> "absent"]
    /\ tmp = [c \in Contents |-> "absent"]
    /\ putting = NoPut
    /\ named = {}

At(pc) == putting.pc = pc
Proceed(pc) == putting' = [putting EXCEPT !.pc = pc]

(* `path.exists()`: what is there is taken for the content. *)
Put(c) ==
    /\ At("idle")
    /\ putting' = [pc |-> IF file[c] = "absent" THEN "create" ELSE "append", content |-> c]
    /\ UNCHANGED <<file, tmp, named>>

(* Faulty (see README, "Sensitivity"): the path is taken before there is
   anything to put there. *)
CreateTmpReserving ==
    /\ At("create")
    /\ tmp' = [tmp EXCEPT ![putting.content] = "part"]
    /\ file' = [file EXCEPT ![putting.content] = "part"]
    /\ Proceed("write")
    /\ UNCHANGED named

(* fs::write truncates what an earlier attempt left, then writes. *)
CreateTmp ==
    /\ At("create")
    /\ tmp' = [tmp EXCEPT ![putting.content] = "part"]
    /\ Proceed("write")
    /\ UNCHANGED <<file, named>>

WriteTmp ==
    /\ At("write")
    /\ tmp' = [tmp EXCEPT ![putting.content] = "whole"]
    /\ Proceed("rename")
    /\ UNCHANGED <<file, named>>

Rename ==
    /\ At("rename")
    /\ file' = [file EXCEPT ![putting.content] = tmp[putting.content]]
    /\ tmp' = [tmp EXCEPT ![putting.content] = "absent"]
    /\ Proceed("append")
    /\ UNCHANGED named

(* The caller appends the event. *)
AppendNaming ==
    /\ At("append")
    /\ named' = named \cup {putting.content}
    /\ putting' = NoPut
    /\ UNCHANGED <<file, tmp>>

(* The process dies, or a call fails (`?`). *)
PutLost ==
    /\ ~At("idle")
    /\ putting' = NoPut
    /\ UNCHANGED <<file, tmp, named>>

BlobNext ==
    \/ \E c \in Contents : Put(c)
    \/ CreateTmp \/ WriteTmp \/ Rename \/ AppendNaming \/ PutLost

BlobSpec == BlobInit /\ [][BlobNext]_blobs

(* What an event names is there, and whole, although an attempt may end
   halfway and a later one looks only whether a file exists
   (blobstore.rs:31-39). *)
BlobsAreThere == \A c \in named : file[c] = "whole"

=============================================================================
