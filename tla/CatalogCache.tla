---------------------------- MODULE CatalogCache ----------------------------
(***************************************************************************)
(* The catalog cache (yang/src/catalog.rs, fercc/src/lib.rs): every run of *)
(* fercc that needs a device's YANG catalog looks for it under the home    *)
(* directory, downloads and extracts it there unless a `.complete` file    *)
(* says that this was done, and loads it from there.  A run may end        *)
(* anywhere, and the user may start several.                               *)
(*                                                                         *)
(* The files of a catalog are numbered in the order of the archive.  The   *)
(* tar library is external: it replaces a file that exists by a new one.   *)
(* A directory that is missing and one that is empty look the same to      *)
(* every step here, so create_dir_all has no state of its own.             *)
(***************************************************************************)
EXTENDS Naturals

CONSTANTS
    Procs,       \* runs of fercc
    F,           \* number of files in the catalog
    Mirrors,     \* number of places to download from; 1 for --catalog-fetcher
    Concurrent,  \* TRUE: runs may overlap
    Absent       \* a file that is not there

Files == 1 .. F

\* A file with its writer, and whether all of it has been written.
File == [by : Procs, whole : BOOLEAN]

ASSUME CacheAssumption ==
    /\ F \in Nat
    /\ Mirrors \in Nat \ {0}
    /\ Concurrent \in BOOLEAN
    /\ Absent \notin File

VARIABLES
    file,      \* file[f]: what the cache directory holds under the name f
    complete,  \* the `.complete` file exists
    pc,        \* pc[p]: where run p is
    mirror,    \* mirror[p]: the mirror p tries
    next,      \* next[p]: the file p extracts next
    open,      \* open[p]: p is in the middle of that file
    todo,      \* todo[p]: directory entries p has not come to
    loaded     \* loaded[p]: the files p has read from beginning to end

vars == <<file, complete, pc, mirror, next, open, todo, loaded>>

Active == {"fetch", "extract", "load"}

TypeOK ==
    /\ file \in [Files -> File \cup {Absent}]
    /\ complete \in BOOLEAN
    /\ pc \in [Procs -> Active \cup {"idle", "ok", "failed"}]
    /\ mirror \in [Procs -> 1 .. Mirrors]
    /\ next \in [Procs -> 1 .. F + 1]
    /\ open \in [Procs -> BOOLEAN]
    /\ todo \in [Procs -> SUBSET Files]
    /\ loaded \in [Procs -> SUBSET Files]

Init ==
    /\ file = [f \in Files |-> Absent]
    /\ complete = FALSE
    /\ pc = [p \in Procs |-> "idle"]
    /\ mirror = [p \in Procs |-> 1]
    /\ next = [p \in Procs |-> 1]
    /\ open = [p \in Procs |-> FALSE]
    /\ todo = [p \in Procs |-> {}]
    /\ loaded = [p \in Procs |-> {}]

Whole(f) == file[f] # Absent /\ file[f].whole

Begin(p, skip) ==
    /\ pc[p] \notin Active
    /\ Concurrent \/ \A q \in Procs : pc[q] \notin Active
    /\ pc' = [pc EXCEPT ![p] = IF skip THEN "load" ELSE "fetch"]
    /\ mirror' = [mirror EXCEPT ![p] = 1]
    /\ next' = [next EXCEPT ![p] = 1]
    /\ open' = [open EXCEPT ![p] = FALSE]
    /\ todo' = [todo EXCEPT ![p] = Files]
    /\ loaded' = [loaded EXCEPT ![p] = {}]
    /\ UNCHANGED <<file, complete>>

\* Mutant: files in the directory are taken for a finished download.
Start_AnyFile(p) == Begin(p, \E f \in Files : file[f] # Absent)

\* A run starts, and looks for `.complete`.
Start(p) == Begin(p, complete)

Ends(p, how) ==
    /\ pc' = [pc EXCEPT ![p] = how]
    /\ UNCHANGED <<file, complete, mirror, next, open, todo, loaded>>

\* Mutant: one mirror more than there are.
MirrorFails_Extra(p) ==
    /\ pc[p] = "fetch" /\ mirror[p] <= Mirrors
    /\ mirror' = [mirror EXCEPT ![p] = @ + 1]
    /\ UNCHANGED <<file, complete, pc, next, open, todo, loaded>>

\* fetch_with_curl: the mirrors in turn, until one answers.
MirrorFails(p) ==
    /\ pc[p] = "fetch" /\ mirror[p] < Mirrors
    /\ mirror' = [mirror EXCEPT ![p] = @ + 1]
    /\ UNCHANGED <<file, complete, pc, next, open, todo, loaded>>

FetchFails(p) == pc[p] = "fetch" /\ mirror[p] = Mirrors /\ Ends(p, "failed")

MirrorAnswers(p) == pc[p] = "fetch" /\ Ends(p, "extract")

\* extract_tarball: one file after the other.
OpenFile(p) ==
    /\ pc[p] = "extract" /\ ~open[p] /\ next[p] <= F
    /\ file' = [file EXCEPT ![next[p]] = [by |-> p, whole |-> FALSE]]
    /\ open' = [open EXCEPT ![p] = TRUE]
    /\ UNCHANGED <<complete, pc, mirror, next, todo, loaded>>

\* What p has written shows under the name unless another run has replaced
\* the file since.
CloseFile(p) ==
    LET f == next[p]
    IN  /\ pc[p] = "extract" /\ open[p]
        /\ file' = IF file[f].by = p
                   THEN [file EXCEPT ![f] = [by |-> p, whole |-> TRUE]] ELSE file
        /\ next' = [next EXCEPT ![p] = f + 1]
        /\ open' = [open EXCEPT ![p] = FALSE]
        /\ UNCHANGED <<complete, pc, mirror, todo, loaded>>

ExtractFails(p) == pc[p] = "extract" /\ Ends(p, "failed")

\* Mutant: the marker does not wait for the last file.
MarkComplete_Early(p) ==
    /\ pc[p] = "extract" /\ ~open[p] /\ next[p] >= F
    /\ complete' = TRUE
    /\ pc' = [pc EXCEPT ![p] = "load"]
    /\ UNCHANGED <<file, mirror, next, open, todo, loaded>>

MarkComplete(p) ==
    /\ pc[p] = "extract" /\ ~open[p] /\ next[p] = F + 1
    /\ complete' = TRUE
    /\ pc' = [pc EXCEPT ![p] = "load"]
    /\ UNCHANGED <<file, mirror, next, open, todo, loaded>>

\* load_from_dir: whatever the directory holds, in any order.
ReadFile(p, f) ==
    /\ pc[p] = "load" /\ f \in todo[p]
    /\ todo' = [todo EXCEPT ![p] = @ \ {f}]
    /\ loaded' = [loaded EXCEPT ![p] = IF Whole(f) THEN @ \cup {f} ELSE @]
    /\ UNCHANGED <<file, complete, pc, mirror, next, open>>

\* A file cannot be read, or is not text.
LoadFails(p) == pc[p] = "load" /\ todo[p] # {} /\ Ends(p, "failed")

Return(p) == pc[p] = "load" /\ todo[p] = {} /\ Ends(p, "ok")

\* The user, or the system, stops the run.
Crash(p) == pc[p] \in Active /\ Ends(p, "idle")

Next ==
    \E p \in Procs :
        \/ Start(p)
        \/ MirrorFails(p) \/ FetchFails(p) \/ MirrorAnswers(p)
        \/ OpenFile(p) \/ CloseFile(p) \/ ExtractFails(p) \/ MarkComplete(p)
        \/ \E f \in Files : ReadFile(p, f)
        \/ LoadFails(p) \/ Return(p)
        \/ Crash(p)

Spec == Init /\ [][Next]_vars

-----------------------------------------------------------------------------
(* Properties.                                                             *)

\* While `.complete` exists, every file of the catalog is there in full: no
\* download that failed, ran out of mirrors or was stopped between two files
\* or within one is ever taken for a finished one.
CompleteMeansWhole == complete => \A f \in Files : Whole(f)

\* A run that goes on to build its schema has read every file of the catalog
\* from beginning to end.
LoadedWhole == \A p \in Procs : pc[p] = "ok" => loaded[p] = Files

\* What download_and_extract's comment says of a repeat run: when it skips the
\* download, the directory is already populated.  With no run in progress, a
\* directory that has its `.complete` file holds the whole catalog.
SkipFindsCatalog ==
    complete /\ (\A p \in Procs : pc[p] \notin Active) => \A f \in Files : Whole(f)
=============================================================================
