------------------------- MODULE CatalogCacheProofs -------------------------
(***************************************************************************)
(* Proof that runs of fercc that do not overlap never mistake an           *)
(* unfinished download for a finished one, for any number of runs, files   *)
(* and mirrors, wherever a run is stopped; and that runs that do overlap   *)
(* never mark a catalog with a missing file.                               *)
(***************************************************************************)
EXTENDS CatalogCache, TLAPS

\* Runs do not overlap.
OneActive ==
    \A p, q \in Procs : pc[p] \in Active /\ pc[q] \in Active => p = q

\* A run that has started to download found no `.complete`, and nobody else
\* has written one since.
Fetching(p) ==
    pc[p] = "fetch" => ~complete /\ next[p] = 1 /\ ~open[p]
                       /\ todo[p] = Files /\ loaded[p] = {}

\* The files before next[p] are whole; the one being written is p's own.
Extracting(p) ==
    pc[p] = "extract" =>
        /\ ~complete
        /\ todo[p] = Files /\ loaded[p] = {}
        /\ \A f \in Files : f < next[p] => Whole(f)
        /\ open[p] => next[p] \in Files /\ file[next[p]] = [by |-> p, whole |-> FALSE]

Loading(p) == pc[p] = "load" => complete /\ todo[p] \cup loaded[p] = Files

\* The inductive invariant.
Inv ==
    /\ TypeOK
    /\ OneActive
    /\ CompleteMeansWhole
    /\ \A p \in Procs : Fetching(p) /\ Extracting(p) /\ Loading(p)
    /\ LoadedWhole

\* An empty directory satisfies the invariant.
LEMMA InvInit == Init => Inv
<1> SUFFICES ASSUME Init PROVE Inv
  OBVIOUS
<1>a. 1 \in 1 .. Mirrors /\ 1 \in 1 .. F + 1
  BY CacheAssumption
<1>1. TypeOK
  BY <1>a, Zenon DEF Init, TypeOK
<1>2. OneActive /\ CompleteMeansWhole /\ LoadedWhole
  BY DEF Init, OneActive, CompleteMeansWhole, LoadedWhole, Active
<1>3. ASSUME NEW p \in Procs PROVE Fetching(p) /\ Extracting(p) /\ Loading(p)
  BY DEF Init, Fetching, Extracting, Loading
<1> QED BY <1>1, <1>2, <1>3 DEF Inv

\* Every step that leaves the files, the marker and p's progress alone and only
\* ends p keeps the invariant.
LEMMA EndsInv ==
  ASSUME Inv, NEW p \in Procs, NEW how \in {"idle", "failed"}, Ends(p, how)
  PROVE  Inv'
  BY DEF Inv, TypeOK, OneActive, CompleteMeansWhole, Fetching, Extracting,
         Loading, LoadedWhole, Active, Whole, Ends

\* Looking for `.complete` keeps the invariant when nobody else is running.
LEMMA StartInv ==
  ASSUME Inv, ~Concurrent, NEW p \in Procs, Start(p)
  PROVE  Inv'
<1>1. TypeOK'
  BY CacheAssumption DEF Inv, TypeOK, Start, Begin, Active
<1>2. OneActive' /\ CompleteMeansWhole' /\ LoadedWhole'
  BY DEF Inv, TypeOK, OneActive, CompleteMeansWhole, LoadedWhole, Active, Whole,
         Start, Begin
<1>3. ASSUME NEW q \in Procs
      PROVE  Fetching(q)' /\ Extracting(q)' /\ Loading(q)'
  <2>1. CASE q = p
    BY <2>1 DEF Inv, TypeOK, Fetching, Extracting, Loading, Start, Begin, Active
  <2>2. CASE q # p
    <3>1. pc'[q] \notin Active
      BY <2>2 DEF Inv, TypeOK, Start, Begin
    <3> QED BY <3>1 DEF Fetching, Extracting, Loading, Active
  <2> QED BY <2>1, <2>2
<1> QED BY <1>1, <1>2, <1>3 DEF Inv

\* Going on to the next mirror, or to the extraction, keeps the invariant.
LEMMA FetchInv ==
  ASSUME Inv, NEW p \in Procs, MirrorFails(p) \/ MirrorAnswers(p)
  PROVE  Inv'
<1>1. TypeOK'
  BY CacheAssumption DEF Inv, TypeOK, MirrorFails, MirrorAnswers, Ends, Active
<1>2. OneActive' /\ CompleteMeansWhole' /\ LoadedWhole'
  BY DEF Inv, TypeOK, OneActive, CompleteMeansWhole, LoadedWhole, Active, Whole,
         MirrorFails, MirrorAnswers, Ends
<1>3. ASSUME NEW q \in Procs
      PROVE  Fetching(q)' /\ Extracting(q)' /\ Loading(q)'
  <2>1. \A f \in Files : ~(f < 1)
    BY CacheAssumption DEF Files
  <2> QED
    BY <2>1 DEF Inv, TypeOK, Fetching, Extracting, Loading, Whole, MirrorFails,
                MirrorAnswers, Ends
<1> QED BY <1>1, <1>2, <1>3 DEF Inv

\* While p extracts, nobody else is running.
LEMMA Alone ==
  ASSUME Inv, NEW p \in Procs, pc[p] \in Active, NEW q \in Procs, q # p
  PROVE  pc[q] \notin Active
  BY DEF Inv, OneActive

\* Replacing a file keeps the invariant: there is no marker yet.
LEMMA OpenFileInv ==
  ASSUME Inv, NEW p \in Procs, OpenFile(p)
  PROVE  Inv'
<1>1. next[p] \in Files /\ ~complete /\ pc[p] \in Active
  BY CacheAssumption DEF Inv, TypeOK, OpenFile, Extracting, Files, Active
<1>2. TypeOK'
  BY <1>1 DEF Inv, TypeOK, OpenFile, File
<1>3. OneActive' /\ CompleteMeansWhole' /\ LoadedWhole'
  BY <1>1 DEF Inv, OneActive, CompleteMeansWhole, LoadedWhole, OpenFile
<1>4. ASSUME NEW q \in Procs
      PROVE  Fetching(q)' /\ Extracting(q)' /\ Loading(q)'
  <2>1. CASE q = p
    <3>1. \A f \in Files : f < next[p] => f # next[p] /\ file'[f] = file[f]
      BY <1>1 DEF Inv, TypeOK, OpenFile, Files
    <3>2. file'[next[p]] = [by |-> p, whole |-> FALSE]
      BY <1>1 DEF Inv, TypeOK, OpenFile
    <3> QED
      BY <2>1, <1>1, <3>1, <3>2
      DEF Inv, TypeOK, Fetching, Extracting, Loading, Whole, OpenFile
  <2>2. CASE q # p
    BY <1>1, <2>2, Alone DEF Fetching, Extracting, Loading, OpenFile, Active
  <2> QED BY <2>1, <2>2
<1> QED BY <1>2, <1>3, <1>4 DEF Inv

\* Finishing a file keeps the invariant: it is still the one p opened.
LEMMA CloseFileInv ==
  ASSUME Inv, NEW p \in Procs, CloseFile(p)
  PROVE  Inv'
<1>1. /\ next[p] \in Files /\ ~complete /\ pc[p] \in Active
      /\ file[next[p]] = [by |-> p, whole |-> FALSE]
  BY DEF Inv, CloseFile, Extracting, Active
<1>2. file' = [file EXCEPT ![next[p]] = [by |-> p, whole |-> TRUE]]
  BY <1>1 DEF CloseFile
<1>3. TypeOK'
  BY <1>1, <1>2, CacheAssumption DEF Inv, TypeOK, CloseFile, File, Files
<1>4. OneActive' /\ CompleteMeansWhole' /\ LoadedWhole'
  BY <1>1 DEF Inv, OneActive, CompleteMeansWhole, LoadedWhole, CloseFile
<1>5. ASSUME NEW q \in Procs
      PROVE  Fetching(q)' /\ Extracting(q)' /\ Loading(q)'
  <2>1. CASE q = p
    <3> DEFINE mine == [by |-> p, whole |-> TRUE]
    <3>1. mine \in File /\ mine.whole = TRUE
      BY Zenon DEF File
    <3>a. mine # Absent
      BY <3>1, CacheAssumption
    <3>b. file'[next[p]] = mine
      BY <1>1, <1>2 DEF Inv, TypeOK
    <3>2. file'[next[p]] # Absent /\ file'[next[p]].whole
      <4> HIDE DEF mine
      <4> QED BY <3>1, <3>a, <3>b
    <3>3. \A f \in Files : f < next[p] => Whole(f)'
      BY <1>1, <1>2 DEF Inv, TypeOK, Whole, Extracting, CloseFile, Files
    <3>4. next'[p] = next[p] + 1 /\ ~open'[p]
      BY DEF Inv, TypeOK, CloseFile
    <3>5. \A f \in Files : f < next'[p] => f < next[p] \/ f = next[p]
      BY <3>4, <1>1 DEF Files
    <3>6. \A f \in Files : f < next'[p] => Whole(f)'
      BY <3>2, <3>3, <3>5 DEF Whole
    <3> QED
      BY <2>1, <1>1, <3>4, <3>6
      DEF Inv, Fetching, Extracting, Loading, CloseFile
  <2>2. CASE q # p
    BY <1>1, <2>2, Alone DEF Fetching, Extracting, Loading, CloseFile, Active
  <2> QED BY <2>1, <2>2
<1> QED BY <1>3, <1>4, <1>5 DEF Inv

\* Writing the marker keeps the invariant: the archive has been worked off.
LEMMA MarkCompleteInv ==
  ASSUME Inv, NEW p \in Procs, MarkComplete(p)
  PROVE  Inv'
<1>1. pc[p] \in Active
  BY DEF MarkComplete, Active
<1>2. TypeOK'
  BY DEF Inv, TypeOK, MarkComplete, Active
<1>3. \A f \in Files : Whole(f)
  <2>1. \A f \in Files : f < next[p]
    BY CacheAssumption DEF MarkComplete, Files
  <2> QED BY <2>1 DEF Inv, Extracting, MarkComplete
<1>4. OneActive' /\ CompleteMeansWhole' /\ LoadedWhole'
  BY <1>3 DEF Inv, TypeOK, OneActive, CompleteMeansWhole, LoadedWhole, Whole,
              MarkComplete, Active
<1>5. ASSUME NEW q \in Procs
      PROVE  Fetching(q)' /\ Extracting(q)' /\ Loading(q)'
  <2>1. CASE q = p
    BY <2>1 DEF Inv, TypeOK, Fetching, Extracting, Loading, MarkComplete
  <2>2. CASE q # p
    <3>1. pc'[q] = pc[q] /\ pc[q] \notin Active
      BY <1>1, <2>2, Alone DEF MarkComplete, Inv, TypeOK
    <3> QED BY <3>1 DEF Fetching, Extracting, Loading, Active
  <2> QED BY <2>1, <2>2
<1> QED BY <1>2, <1>4, <1>5 DEF Inv

\* Reading a file keeps the invariant: with the marker there, it is whole.
LEMMA ReadFileInv ==
  ASSUME Inv, NEW p \in Procs, NEW f \in Files, ReadFile(p, f)
  PROVE  Inv'
<1>1. complete /\ Whole(f) /\ todo[p] \cup loaded[p] = Files
  BY DEF Inv, Loading, CompleteMeansWhole, ReadFile
<1>2. /\ todo' = [todo EXCEPT ![p] = todo[p] \ {f}]
      /\ loaded' = [loaded EXCEPT ![p] = loaded[p] \cup {f}]
  BY <1>1 DEF ReadFile
<1>3. TypeOK'
  BY <1>2 DEF Inv, TypeOK, ReadFile
<1>4. OneActive' /\ CompleteMeansWhole'
  BY DEF Inv, OneActive, CompleteMeansWhole, Whole, ReadFile
<1>5. LoadedWhole'
  BY <1>2 DEF Inv, TypeOK, LoadedWhole, ReadFile
<1>6. ASSUME NEW q \in Procs
      PROVE  Fetching(q)' /\ Extracting(q)' /\ Loading(q)'
  BY <1>1, <1>2 DEF Inv, TypeOK, Fetching, Extracting, Loading, Whole, ReadFile
<1> QED BY <1>3, <1>4, <1>5, <1>6 DEF Inv

\* Returning the catalog keeps the invariant: every entry has been read.
LEMMA ReturnInv ==
  ASSUME Inv, NEW p \in Procs, Return(p)
  PROVE  Inv'
<1>1. loaded[p] = Files
  BY DEF Inv, Loading, Return
<1>2. TypeOK' /\ OneActive' /\ CompleteMeansWhole'
  BY DEF Inv, TypeOK, OneActive, CompleteMeansWhole, Active, Whole, Return, Ends
<1>3. LoadedWhole'
  BY <1>1 DEF Inv, TypeOK, LoadedWhole, Return, Ends
<1>4. ASSUME NEW q \in Procs
      PROVE  Fetching(q)' /\ Extracting(q)' /\ Loading(q)'
  BY DEF Inv, TypeOK, Fetching, Extracting, Loading, Whole, Return, Ends
<1> QED BY <1>2, <1>3, <1>4 DEF Inv

\* Every step keeps the invariant when runs do not overlap.
LEMMA InvStep ==
  ASSUME Inv, ~Concurrent, [Next]_vars
  PROVE  Inv'
<1>1. CASE UNCHANGED vars
  BY <1>1
  DEF Inv, TypeOK, OneActive, CompleteMeansWhole, Fetching, Extracting, Loading,
      LoadedWhole, Whole, vars
<1>2. ASSUME NEW p \in Procs, Start(p) PROVE Inv'
  BY <1>2, StartInv
<1>3. ASSUME NEW p \in Procs, MirrorFails(p) \/ MirrorAnswers(p) PROVE Inv'
  BY <1>3, FetchInv
<1>4. ASSUME NEW p \in Procs, OpenFile(p) \/ CloseFile(p) \/ MarkComplete(p)
      PROVE  Inv'
  BY <1>4, OpenFileInv, CloseFileInv, MarkCompleteInv
<1>5. ASSUME NEW p \in Procs, NEW f \in Files, ReadFile(p, f) PROVE Inv'
  BY <1>5, ReadFileInv
<1>6. ASSUME NEW p \in Procs,
             FetchFails(p) \/ ExtractFails(p) \/ LoadFails(p) \/ Crash(p)
      PROVE  Inv'
  BY <1>6, EndsInv DEF FetchFails, ExtractFails, LoadFails, Crash
<1>7. ASSUME NEW p \in Procs, Return(p) PROVE Inv'
  BY <1>7, ReturnInv
<1> QED
  BY <1>1, <1>2, <1>3, <1>4, <1>5, <1>6, <1>7 DEF Next

\* The invariant holds when runs do not overlap.
LEMMA InvHolds ==
  ASSUME ~Concurrent
  PROVE  Spec => []Inv
<1>1. Init => Inv
  BY InvInit
<1>2. Inv /\ [Next]_vars => Inv'
  BY InvStep
<1> QED BY <1>1, <1>2, PTL DEF Spec

\* When runs do not overlap, download_and_extract never leaves a `.complete`
\* beside a catalog that is not whole, wherever runs fail or are stopped: for
\* any catalog and any number of runs and mirrors.
THEOREM CacheIsWhole ==
  ASSUME ~Concurrent
  PROVE  Spec => []CompleteMeansWhole
<1>1. Inv => CompleteMeansWhole
  BY DEF Inv
<1> QED BY <1>1, InvHolds, PTL

\* When runs do not overlap, load_from_dir hands every file on, from beginning
\* to end, to a run that goes on.
THEOREM LoadsAreWhole ==
  ASSUME ~Concurrent
  PROVE  Spec => []LoadedWhole
<1>1. Inv => LoadedWhole
  BY DEF Inv
<1> QED BY <1>1, InvHolds, PTL

-----------------------------------------------------------------------------
(* Runs that overlap.                                                      *)

\* While `.complete` exists, no file of the catalog is missing.
CompleteMeansThere == complete => \A f \in Files : file[f] # Absent

\* What survives of the invariant when runs overlap: the files that a run has
\* come past are there, although another run may be rewriting them.
OverlapInv ==
    /\ TypeOK
    /\ CompleteMeansThere
    /\ \A p \in Procs : open[p] => next[p] \in Files /\ file[next[p]] # Absent
    /\ \A p \in Procs : pc[p] = "fetch" => next[p] = 1 /\ ~open[p]
    /\ \A p \in Procs : pc[p] = "extract" =>
          \A f \in Files : f < next[p] => file[f] # Absent

\* Every step keeps it, whatever other runs do.
LEMMA OverlapStep ==
  ASSUME OverlapInv, [Next]_vars
  PROVE  OverlapInv'
<1> USE DEF OverlapInv, TypeOK, CompleteMeansThere
<1>1. CASE UNCHANGED vars
  BY <1>1 DEF vars
<1>2. ASSUME NEW p \in Procs, Start(p) PROVE OverlapInv'
  <2>1. 1 \in 1 .. Mirrors /\ 1 \in 1 .. F + 1
    BY CacheAssumption
  <2> QED BY <1>2, <2>1 DEF Start, Begin, Active
<1>3. ASSUME NEW p \in Procs, MirrorFails(p) PROVE OverlapInv'
  <2>1. mirror[p] + 1 \in 1 .. Mirrors
    BY <1>3, CacheAssumption DEF MirrorFails
  <2> QED BY <1>3, <2>1 DEF MirrorFails
<1>4. ASSUME NEW p \in Procs, MirrorAnswers(p) PROVE OverlapInv'
  BY <1>4 DEF MirrorAnswers, Ends, Active, Files
<1>5. ASSUME NEW p \in Procs, OpenFile(p) PROVE OverlapInv'
  <2>1. next[p] \in Files
    BY <1>5, CacheAssumption DEF OpenFile, Files
  <2>2. [by |-> p, whole |-> FALSE] \in File
    BY DEF File
  <2>3. [by |-> p, whole |-> FALSE] # Absent
    BY <2>2, CacheAssumption
  <2> QED BY <1>5, <2>1, <2>2, <2>3 DEF OpenFile
<1>6. ASSUME NEW p \in Procs, CloseFile(p) PROVE OverlapInv'
  <2>1. next[p] \in Files /\ file[next[p]] # Absent /\ pc[p] = "extract"
    BY <1>6 DEF CloseFile
  <2>2. next[p] + 1 \in 1 .. F + 1
    BY <2>1, CacheAssumption DEF Files
  <2>3. [by |-> p, whole |-> TRUE] \in File
    BY DEF File
  <2>4. [by |-> p, whole |-> TRUE] # Absent
    BY <2>3, CacheAssumption
  <2>5. file' \in [Files -> File \cup {Absent}]
    BY <1>6, <2>1, <2>3 DEF CloseFile
  <2>6. \A f \in Files : file[f] # Absent => file'[f] # Absent
    BY <1>6, <2>1, <2>4 DEF CloseFile
  <2>7. TypeOK' /\ CompleteMeansThere'
    BY <1>6, <2>2, <2>5, <2>6 DEF CloseFile
  <2>8. \A f \in Files : f < next[p] + 1 => file[f] # Absent
    BY <2>1, CacheAssumption DEF Files
  <2> QED BY <1>6, <2>1, <2>2, <2>6, <2>7, <2>8 DEF CloseFile
<1>7. ASSUME NEW p \in Procs, MarkComplete(p) PROVE OverlapInv'
  <2>1. \A f \in Files : file[f] # Absent
    BY <1>7, CacheAssumption DEF MarkComplete, Files
  <2> QED BY <1>7, <2>1 DEF MarkComplete, Active
<1>8. ASSUME NEW p \in Procs, NEW f \in Files, ReadFile(p, f) PROVE OverlapInv'
  BY <1>8 DEF ReadFile
<1>9. ASSUME NEW p \in Procs,
             FetchFails(p) \/ ExtractFails(p) \/ LoadFails(p) \/ Return(p) \/ Crash(p)
      PROVE  OverlapInv'
  BY <1>9 DEF FetchFails, ExtractFails, LoadFails, Return, Crash, Ends, Active
<1> QED
  BY <1>1, <1>2, <1>3, <1>4, <1>5, <1>6, <1>7, <1>8, <1>9 DEF Next

\* The cache's state has its type, and a `.complete` is never beside a missing
\* file, even if runs overlap: what they can leave is a file cut short, which
\* load_from_dir may then read, but not a catalog with fewer files.
THEOREM OverlapLeavesNoGaps == Spec => [](TypeOK /\ CompleteMeansThere)
<1>1. Init => OverlapInv
  <2>1. 1 \in 1 .. Mirrors /\ 1 \in 1 .. F + 1
    BY CacheAssumption
  <2>2. Init => TypeOK
    BY <2>1, Zenon DEF Init, TypeOK
  <2> QED BY <2>2 DEF Init, OverlapInv, CompleteMeansThere
<1>2. OverlapInv /\ [Next]_vars => OverlapInv'
  BY OverlapStep
<1>3. OverlapInv => TypeOK /\ CompleteMeansThere
  BY DEF OverlapInv
<1> QED BY <1>1, <1>2, <1>3, PTL DEF Spec
=============================================================================
