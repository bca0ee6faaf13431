------------------------- MODULE FileStorageProofs -------------------------
(***************************************************************************)
(* Proofs about the saved file, for any number of savers and any metrics.  *)
(* FSInv is the inductive invariant: without overlap there is one active   *)
(* saver, so it finds the temporary file as it left it at its last step.   *)
(***************************************************************************)
EXTENDS FileStorage, MetricsProofs

Alone ==
    /\ \A s, t \in Savers : Saving(s) /\ Saving(t) => s = t
    /\ \A s \in Savers : spc[s] = "write" => fd[s] = "tmp" /\ tmp = Empty
    /\ \A s \in Savers : spc[s] = "rename" => tmp = snap[s]

OpenOnlyToWrite == \A s \in Savers : fd[s] # "none" => spc[s] = "write"

FSInv == FSTypeOK /\ OpenOnlyToWrite /\ (~overlap => Alone /\ file = lastSaved)

LEMMA FSInvInit == FSInit => FSInv
BY EmptyIsMetrics, FileAssumption
DEF FSInit, FSInv, FSTypeOK, Alone, OpenOnlyToWrite, Contents, Active, Saving

\* GetAllMetrics and json.MarshalIndent: the saver becomes active, alone or not.
LEMMA FSInvBegin ==
    ASSUME FSInv, NEW s \in Savers, NEW m \in MetricMaps, BeginSave(s, m)
    PROVE  FSInv'
<1>1. CASE ~Encodable(m)
  BY <1>1 DEF FSInv, FSTypeOK, Alone, OpenOnlyToWrite, Contents, Active, Saving, BeginSave
<1>2. CASE Encodable(m)
  <2>1. FSTypeOK'
    BY <1>2 DEF FSInv, FSTypeOK, Contents, Active, BeginSave
  <2>2. OpenOnlyToWrite'
    BY <1>2 DEF FSInv, FSTypeOK, OpenOnlyToWrite, BeginSave, Saving, Active
  <2>3. ~overlap' => Alone' /\ (file = lastSaved)'
    <3>. SUFFICES ASSUME ~overlap' PROVE Alone' /\ (file = lastSaved)'
      OBVIOUS
    <3>1. ~overlap /\ \A t \in Savers \ {s} : ~Saving(t)
      BY <1>2 DEF BeginSave
    <3>2. /\ spc'[s] = "open"
          /\ \A t \in Savers \ {s} : spc'[t] \notin Active
      BY <1>2, <3>1 DEF FSInv, FSTypeOK, BeginSave, Saving
    <3>3. QED
      BY <3>1, <3>2 DEF FSInv, Alone, Saving, Active, BeginSave
  <2>4. QED
    BY <2>1, <2>2, <2>3 DEF FSInv
<1>3. QED
  BY <1>1, <1>2

\* os.WriteFile opens the temporary name.
LEMMA FSInvOpen ==
    ASSUME FSInv, NEW s \in Savers, OpenTmp(s)
    PROVE  FSInv'
BY FileAssumption
DEF FSInv, FSTypeOK, Alone, OpenOnlyToWrite, Contents, Active, Saving, OpenTmp

\* os.WriteFile writes and closes.
LEMMA FSInvWrite ==
    ASSUME FSInv, NEW s \in Savers, WriteTmp(s)
    PROVE  FSInv'
<1>1. PICK c \in Overlay(OpenContent(s), snap[s]) :
          /\ tmp'  = IF fd[s] = "tmp"  THEN c ELSE tmp
          /\ file' = IF fd[s] = "file" THEN c ELSE file
  BY DEF WriteTmp, PutContent
<1>2. c \in Contents
  BY <1>1 DEF FSInv, FSTypeOK, Contents, Overlay
<1>3. ~overlap => fd[s] = "tmp" /\ c = snap[s]
  BY <1>1 DEF FSInv, Alone, WriteTmp, Overlay, OpenContent
<1>4. FSTypeOK'
  BY <1>1, <1>2 DEF FSInv, FSTypeOK, WriteTmp, Contents, Active
<1>5. OpenOnlyToWrite'
  BY DEF FSInv, FSTypeOK, OpenOnlyToWrite, WriteTmp
<1>6. ~overlap' => Alone' /\ (file = lastSaved)'
  BY <1>1, <1>3 DEF FSInv, FSTypeOK, Alone, WriteTmp, Active, Saving
<1>7. QED
  BY <1>4, <1>5, <1>6 DEF FSInv

\* os.Rename.
LEMMA FSInvRename ==
    ASSUME FSInv, NEW s \in Savers, RenameTmp(s)
    PROVE  FSInv'
<1>1. FSTypeOK'
  BY EmptyIsMetrics DEF FSInv, FSTypeOK, RenameTmp, Renamed, Contents, Active
<1>2. OpenOnlyToWrite'
  BY DEF FSInv, FSTypeOK, OpenOnlyToWrite, RenameTmp, Renamed
<1>3. ~overlap' => Alone'
  <2>. SUFFICES ASSUME ~overlap PROVE Alone'
    BY DEF RenameTmp
  <2>1. \A t \in Savers \ {s} : ~Saving(t)
    BY DEF FSInv, Alone, RenameTmp, Active, Saving
  <2>2. \A t \in Savers : spc'[t] \notin Active
    BY <2>1 DEF FSInv, FSTypeOK, RenameTmp, Active, Saving
  <2>3. QED
    BY <2>2 DEF Alone, Saving, Active
<1>4. ~overlap' => (file = lastSaved)'
  BY DEF FSInv, Alone, RenameTmp
<1>5. QED
  BY <1>1, <1>2, <1>3, <1>4 DEF FSInv

\* A system call fails.
LEMMA FSInvFails ==
    ASSUME FSInv, NEW s \in Savers, SaveFails(s)
    PROVE  FSInv'
<1>1. \E c \in Contents : /\ tmp'  \in {tmp, c}
                          /\ file' \in {file} \cup (IF fd[s] = "file" THEN {c} ELSE {})
  BY DEF SaveFails, PutContent, OpenContent, FSInv, FSTypeOK, Contents, OpenOnlyToWrite
<1>2. FSTypeOK'
  BY <1>1, EmptyIsMetrics DEF FSInv, FSTypeOK, SaveFails, Contents, Active
<1>3. OpenOnlyToWrite'
  BY DEF FSInv, FSTypeOK, OpenOnlyToWrite, SaveFails
<1>4. ~overlap' => Alone'
  <2>. SUFFICES ASSUME ~overlap PROVE Alone'
    BY DEF SaveFails
  <2>1. \A t \in Savers \ {s} : ~Saving(t)
    BY DEF FSInv, Alone, SaveFails
  <2>2. \A t \in Savers : spc'[t] \notin Active
    BY <2>1 DEF FSInv, FSTypeOK, SaveFails, Active, Saving
  <2>3. QED
    BY <2>2 DEF Alone, Saving, Active
<1>5. ~overlap' => (file = lastSaved)'
  BY DEF FSInv, Alone, SaveFails, PutContent
<1>6. QED
  BY <1>2, <1>3, <1>4, <1>5 DEF FSInv

LEMMA FSInvStep ==
    ASSUME FSInv, NEW s \in Savers, SaveStep(s)
    PROVE  FSInv'
BY FSInvOpen, FSInvWrite, FSInvRename, FSInvFails DEF SaveStep

\* The process dies with its savers.
LEMMA FSInvCrash == FSInv /\ FSCrash => FSInv'
BY EmptyIsMetrics
DEF FSInv, FSTypeOK, Alone, OpenOnlyToWrite, Contents, Active, Saving, FSCrash

LEMMA FSInvStutter == FSInv /\ UNCHANGED fsVars => FSInv'
BY DEF fsVars, FSInv, FSTypeOK, Alone, OpenOnlyToWrite, Contents, Active, Saving

LEMMA FSInvariant == FSSpec => []FSInv
<1>1. FSInv /\ [FSNext]_fsVars => FSInv'
  BY FSInvBegin, FSInvStep, FSInvCrash, FSInvStutter DEF FSNext
<1>2. QED
  BY FSInvInit, <1>1, PTL DEF FSSpec

(* The variables of SaveMetrics keep their types. *)
THEOREM FileTypes == FSSpec => []FSTypeOK
<1>1. FSInv => FSTypeOK
  BY DEF FSInv
<1>2. QED
  BY FSInvariant, <1>1, PTL

(* Without overlapping saves the file always holds exactly what the last   *)
(* successful SaveMetrics wrote: write-to-temporary-then-rename is atomic  *)
(* under crashes and disk errors, and it is only the shared temporary name *)
(* that is not safe under concurrency.                                     *)
THEOREM FileExact == FSSpec => []SavedExact
<1>1. FSInv => SavedExact
  BY DEF FSInv, SavedExact
<1>2. QED
  BY FSInvariant, <1>1, PTL
=============================================================================
