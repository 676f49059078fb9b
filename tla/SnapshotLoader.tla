--------------------------- MODULE SnapshotLoader ---------------------------
(***************************************************************************)
(* load_snapshot: the directories of the path are opened one inside the    *)
(* other, following no link, then the file; what it is gets checked on the *)
(* descriptor, and it is read.  Meanwhile somebody else may replace any    *)
(* name on the path.  Any of the calls may fail.                           *)
(*                                                                         *)
(* A descriptor is named by the part of the path it was opened for, 0 being*)
(* the anchor ("/" or ".").  A close that fails gives the descriptor back  *)
(* all the same, as it does on Linux.                                      *)
(***************************************************************************)
EXTENDS Naturals

CONSTANTS
    MaxDepth,    \* bound on the parts of the path
    MaxChanges,  \* bound on the replacements of a name
    None

ASSUME BoundsAssumption == MaxDepth \in Nat /\ MaxChanges \in Nat
ASSUME NoneAssumption == None \notin Nat /\ None \notin {"regular", "snapshot"}

VARIABLES
    at,                    \* the call that is next
    depth,                 \* the number of parts of the path
    kind,                  \* what each part names now
    changes,               \* how often that has changed
    part,                  \* the parts already opened as directories
    directory_descriptor,
    next_descriptor,
    file,                  \* what has been opened as the file
    raised,                \* whether an exception is on its way
    open,                  \* the descriptors the process holds
    wild,                  \* whether one has been closed that was not open
    close_failed,          \* whether a close has failed
    result

walk == <<part, directory_descriptor, next_descriptor>>
descriptors == <<open, wild, close_failed>>
path == <<depth, kind, changes>>
vars == <<at, path, walk, file, raised, descriptors, result>>

Kinds == {"directory", "regular", "fifo", "link", "missing"}
Descriptors == 0 .. MaxDepth

TypeOK ==
    /\ at \in {"anchor", "walk", "close_parent", "close_directory", "fstat",
               "read", "close_file", "parse", "done"}
    /\ depth \in 0 .. MaxDepth
    /\ kind \in [1 .. MaxDepth -> Kinds]
    /\ changes \in 0 .. MaxChanges
    /\ part \in Descriptors
    /\ directory_descriptor \in Descriptors \cup {None}
    /\ next_descriptor \in Descriptors \cup {None}
    /\ file \in Kinds \cup {None}
    /\ raised \in BOOLEAN /\ wild \in BOOLEAN /\ close_failed \in BOOLEAN
    /\ open \subseteq Descriptors
    /\ result \in {"snapshot", "rejected", None}
    \* The walk never leaves the path.
    /\ at \in {"walk", "close_parent"} => part < depth

Init ==
    /\ at = "anchor"
    /\ depth \in 0 .. MaxDepth
    /\ kind \in [1 .. MaxDepth -> Kinds]
    /\ changes = 0
    /\ part = 0 /\ directory_descriptor = None /\ next_descriptor = None
    /\ file = None
    /\ raised = FALSE /\ wild = FALSE /\ close_failed = FALSE
    /\ open = {}
    /\ result = None

\* os.close: afterwards the descriptor is not the process's, even on failure.
Close(fd) ==
    /\ open' = open \ {fd}
    /\ wild' = (wild \/ fd \notin open)

CloseReturns == close_failed' = close_failed /\ raised' = raised
CloseRaises == close_failed' = TRUE /\ raised' = TRUE
-----------------------------------------------------------------------------
(* _open_snapshot_descriptor *)

\* The platform has no secure opening, or the anchor cannot be opened.
AnchorFails ==
    /\ at = "anchor" /\ at' = "parse"
    /\ raised' = TRUE
    /\ UNCHANGED <<path, walk, file, descriptors, result>>

\* A path without parts is no regular file.
OpenAnchor ==
    /\ at = "anchor"
    /\ open' = open \cup {0}
    /\ directory_descriptor' = 0
    /\ \/ depth = 0 /\ at' = "close_directory" /\ raised' = TRUE
       \/ depth > 0 /\ at' = "walk" /\ UNCHANGED raised
    /\ UNCHANGED <<path, part, next_descriptor, file, wild, close_failed, result>>

MoreParts == part + 1 < depth

OpenDirectory ==
    /\ at = "walk" /\ at' = "close_parent"
    /\ MoreParts
    /\ kind[part + 1] = "directory"
    /\ next_descriptor' = part + 1
    /\ open' = open \cup {part + 1}
    /\ UNCHANGED <<path, part, directory_descriptor, file, raised, wild, close_failed, result>>

CloseParent ==
    /\ at = "close_parent" /\ at' = "walk"
    /\ Close(directory_descriptor) /\ CloseReturns
    /\ directory_descriptor' = next_descriptor
    /\ part' = part + 1
    /\ UNCHANGED <<path, next_descriptor, file, result>>

\* The descriptor of the child is forgotten, and the parent's closed again.
CloseParentFails ==
    /\ at = "close_parent" /\ at' = "close_directory"
    /\ Close(directory_descriptor) /\ CloseRaises
    /\ UNCHANGED <<path, walk, file, result>>

\* Mutant: without O_NONBLOCK, opening a fifo waits for its writer.
OpenFileBlocking ==
    /\ at = "walk" /\ at' = "close_directory"
    /\ ~MoreParts
    /\ kind[depth] \in {"directory", "regular"}
    /\ file' = kind[depth]
    /\ open' = open \cup {depth}
    /\ UNCHANGED <<path, walk, raised, wild, close_failed, result>>

\* The file is opened for reading whatever it is, links excepted, and without
\* waiting for the writer of a fifo.
OpenFile ==
    /\ at = "walk" /\ at' = "close_directory"
    /\ ~MoreParts
    /\ kind[depth] \notin {"link", "missing"}
    /\ file' = kind[depth]
    /\ open' = open \cup {depth}
    /\ UNCHANGED <<path, walk, raised, wild, close_failed, result>>

\* The part is not what it has to be.
Refused(k) == IF MoreParts THEN k # "directory" ELSE k \in {"link", "missing"}

OpenFails ==
    /\ at = "walk" /\ at' = "close_directory"
    /\ raised' = TRUE
    /\ UNCHANGED <<path, walk, file, descriptors, result>>

OpenRefused == Refused(kind[part + 1]) /\ OpenFails

\* Anything else: too many open files, no permission, an I/O error.
OpenBreaks == ~Refused(kind[part + 1]) /\ OpenFails

\* Its finally clause, and what it returns or raises.
LeaveDirectory ==
    /\ at = "close_directory"
    /\ Close(directory_descriptor)
    /\ UNCHANGED <<path, walk, file, result>>

\* Mutant: the directory is closed only when the file has been opened.
CloseDirectoryOnSuccess ==
    /\ at = "close_directory"
    /\ IF raised THEN UNCHANGED <<open, wild>> ELSE Close(directory_descriptor)
    /\ CloseReturns
    /\ at' = IF raised THEN "parse" ELSE "fstat"
    /\ UNCHANGED <<path, walk, file, result>>

CloseDirectory ==
    /\ LeaveDirectory /\ CloseReturns
    /\ at' = IF raised THEN "parse" ELSE "fstat"

\* The descriptor that was to be returned is lost.
CloseDirectoryFails ==
    /\ LeaveDirectory /\ CloseRaises
    /\ at' = "parse"
-----------------------------------------------------------------------------
(* _read_snapshot_bytes *)

\* Mutant: the kind is looked up by the path again.
FstatByPath ==
    /\ at = "fstat"
    /\ raised' = (kind[depth] # "regular")
    /\ at' = IF raised' THEN "close_file" ELSE "read"
    /\ UNCHANGED <<path, walk, file, descriptors, result>>

\* Asked of the descriptor, not of the path.
Fstat ==
    /\ at = "fstat"
    /\ raised' = (file # "regular")
    /\ at' = IF raised' THEN "close_file" ELSE "read"
    /\ UNCHANGED <<path, walk, file, descriptors, result>>

FstatFails ==
    /\ at = "fstat" /\ at' = "close_file"
    /\ raised' = TRUE
    /\ UNCHANGED <<path, walk, file, descriptors, result>>

Read ==
    /\ at = "read" /\ at' = "close_file"
    /\ UNCHANGED <<path, walk, file, raised, descriptors, result>>

ReadFails ==
    /\ at = "read" /\ at' = "close_file"
    /\ raised' = TRUE
    /\ UNCHANGED <<path, walk, file, descriptors, result>>

LeaveFile ==
    /\ at = "close_file" /\ at' = "parse"
    /\ Close(depth)
    /\ UNCHANGED <<path, walk, file, result>>

CloseFile == LeaveFile /\ CloseReturns
CloseFileFails == LeaveFile /\ CloseRaises
-----------------------------------------------------------------------------
(* load_snapshot *)

Finish(r) ==
    /\ at = "parse" /\ at' = "done"
    /\ result' = r
    /\ UNCHANGED <<path, walk, file, raised, descriptors>>

\* Too large, not JSON, or never read; else it is parsed, and the schema's.
Reject == Finish("rejected")
Accept == ~raised /\ Finish("snapshot")

\* Somebody renames, removes or creates something on the path.
Replace ==
    /\ changes < MaxChanges
    /\ at \notin {"parse", "done"}
    /\ changes' = changes + 1
    /\ \E i \in 1 .. depth, k \in Kinds : kind' = [kind EXCEPT ![i] = k]
    /\ UNCHANGED <<at, depth, walk, file, raised, descriptors, result>>

Load ==
    \/ OpenAnchor \/ OpenDirectory \/ CloseParent \/ OpenFile \/ OpenRefused
    \/ CloseDirectory \/ Fstat \/ Read \/ CloseFile \/ Reject \/ Accept

Break ==
    \/ AnchorFails \/ CloseParentFails \/ OpenBreaks \/ CloseDirectoryFails
    \/ FstatFails \/ ReadFails \/ CloseFileFails

Next == Load \/ Break \/ Replace

Spec == Init /\ [][Next]_vars
-----------------------------------------------------------------------------
Ended == at \in {"parse", "done"}

\* However the walk ends, every descriptor has been closed, and none twice: a
\* number closed twice may meanwhile be another file's.  It takes a close that
\* fails to break this.
DescriptorsReturned ==
    ~close_failed => ~wild /\ (Ended => open = {})

\* A walk holds two descriptors at most, however long the path.
WalkIsNarrow ==
    ~close_failed => \A a, b, c \in open : a = b \/ b = c \/ a = c

\* What is accepted was read from a regular file, whatever the path has come
\* to name since.
OnlyRegularFilesAreRead ==
    at = "read" \/ result = "snapshot" => file = "regular"
=============================================================================
