---------------------------- MODULE FileStorage ----------------------------
(***************************************************************************)
(* The saved file of internal/repository/filestorage.go.  SaveMetrics      *)
(* writes a temporary file with os.WriteFile (open with O_TRUNC, write,    *)
(* close) and renames it over the target.  All callers share ONE temporary *)
(* name, so saves that overlap act on each other's file; each system call  *)
(* is a step of its own here.                                              *)
(***************************************************************************)
EXTENDS Metrics

CONSTANTS
    Savers,       \* goroutines that may run SaveToFile
    Absent,       \* there is no file under the name
    Empty,        \* a file truncated and not yet written: not valid JSON
    Mixed,        \* the bytes of two writes, or a part of one: not valid JSON
    DiskMayFail   \* whether a system call may return an error

ASSUME FileAssumption ==
    /\ Absent \notin MetricMaps \cup {Empty, Mixed}
    /\ Empty  \notin MetricMaps \cup {Mixed}
    /\ Mixed  \notin MetricMaps
    /\ DiskMayFail \in BOOLEAN

VARIABLES
    tmp, file,    \* what the temporary name and the target name hold
    spc,          \* where each saver is in SaveToFile
    fd,           \* the name that leads to the file the saver has open
    snap,         \* the metrics the saver writes, read by GetAllMetrics
    overlap,      \* history: some save began while another was running
    lastSaved     \* history: the metrics of the last save that returned nil

fsVars == <<tmp, file, spc, fd, snap, overlap, lastSaved>>

Contents == MetricMaps \cup {Empty, Mixed}
Active   == {"open", "write", "rename"}
Saving(s) == spc[s] \in Active

FSTypeOK ==
    /\ tmp \in Contents \cup {Absent}
    /\ file \in Contents \cup {Absent}
    /\ spc \in [Savers -> Active \cup {"idle", "refused", "saved", "failed"}]
    /\ fd \in [Savers -> {"none", "tmp", "file", "orphan"}]
    /\ snap \in [Savers -> MetricMaps]
    /\ overlap \in BOOLEAN
    /\ lastSaved \in MetricMaps \cup {Absent}

FSInit ==
    /\ tmp = Absent
    /\ file = Absent
    /\ spc = [s \in Savers |-> "idle"]
    /\ fd = [s \in Savers |-> "none"]
    /\ snap = [s \in Savers |-> EmptyMap]
    /\ overlap = FALSE
    /\ lastSaved = Absent

-----------------------------------------------------------------------------
\* SaveToFile has read the metrics m (one atomic GetAllMetrics) and turned
\* them into JSON; when that fails no file is touched.
BeginSave(s, m) ==
    /\ ~Saving(s)
    /\ \/ /\ Encodable(m)
          /\ spc' = [spc EXCEPT ![s] = "open"]
          /\ snap' = [snap EXCEPT ![s] = m]
          /\ overlap' = (overlap \/ \E t \in Savers \ {s} : Saving(t))
       \/ /\ ~Encodable(m)
          /\ spc' = [spc EXCEPT ![s] = "refused"]
          /\ UNCHANGED <<snap, overlap>>
    /\ UNCHANGED <<tmp, file, fd, lastSaved>>

OpenInPlaceMutant(s) ==
    /\ spc[s] = "open"
    /\ file' = Empty
    /\ spc' = [spc EXCEPT ![s] = "write"]
    /\ fd' = [fd EXCEPT ![s] = "file"]
    /\ UNCHANGED <<tmp, snap, overlap, lastSaved>>

\* os.WriteFile opens the temporary name: created, or truncated if it exists,
\* even when another saver has it open.
OpenTmp(s) ==
    /\ spc[s] = "open"
    /\ tmp' = Empty
    /\ spc' = [spc EXCEPT ![s] = "write"]
    /\ fd' = [fd EXCEPT ![s] = "tmp"]
    /\ UNCHANGED <<file, snap, overlap, lastSaved>>

\* What s's open file holds once one of cs is put in it.  A file that was
\* renamed over since it was opened has no name left: nobody reads it.
PutContent(s, cs) ==
    \E c \in cs :
        /\ tmp'  = IF fd[s] = "tmp"  THEN c ELSE tmp
        /\ file' = IF fd[s] = "file" THEN c ELSE file
OpenContent(s) == IF fd[s] = "tmp" THEN tmp ELSE file

\* A write starts at offset 0.  Over another save's bytes it leaves that
\* save's tail when it is the shorter of the two.
Overlay(old, m) == IF old \in {Empty, m} THEN {m} ELSE {m, Mixed}

WriteTmp(s) ==
    /\ spc[s] = "write"
    /\ PutContent(s, Overlay(OpenContent(s), snap[s]))
    /\ spc' = [spc EXCEPT ![s] = "rename"]
    /\ fd' = [fd EXCEPT ![s] = "none"]
    /\ UNCHANGED <<snap, overlap, lastSaved>>

\* The rename moves whatever the temporary name holds; open files follow it.
Renamed(name) == CASE name = "tmp"  -> "file"
                   [] name = "file" -> "orphan"
                   [] OTHER         -> name

RenameTmp(s) ==
    /\ spc[s] = "rename"
    /\ \/ /\ tmp # Absent
          /\ file' = tmp
          /\ tmp' = Absent
          /\ fd' = [t \in Savers |-> Renamed(fd[t])]
          /\ spc' = [spc EXCEPT ![s] = "saved"]
          /\ lastSaved' = snap[s]
       \/ /\ tmp = Absent          \* ENOENT: another saver renamed it away
          /\ spc' = [spc EXCEPT ![s] = "failed"]
          /\ UNCHANGED <<tmp, file, fd, lastSaved>>
    /\ snap' = [snap EXCEPT ![s] = EmptyMap]
    /\ UNCHANGED overlap

\* A system call returns an error and SaveMetrics returns it; a write may
\* have put part of its data in the file.
SaveFails(s) ==
    /\ DiskMayFail
    /\ Saving(s)
    /\ IF spc[s] = "write" THEN PutContent(s, {OpenContent(s), Mixed})
                           ELSE UNCHANGED <<tmp, file>>
    /\ spc' = [spc EXCEPT ![s] = "failed"]
    /\ fd' = [fd EXCEPT ![s] = "none"]
    /\ snap' = [snap EXCEPT ![s] = EmptyMap]
    /\ UNCHANGED <<overlap, lastSaved>>

SaveStep(s) == OpenTmp(s) \/ WriteTmp(s) \/ RenameTmp(s) \/ SaveFails(s)

\* The process dies: both files stay as they are.
FSCrash ==
    /\ spc' = [s \in Savers |-> "idle"]
    /\ fd' = [s \in Savers |-> "none"]
    /\ snap' = [s \in Savers |-> EmptyMap]
    /\ UNCHANGED <<tmp, file, overlap, lastSaved>>

FSNext ==
    \/ \E s \in Savers : \/ \E m \in MetricMaps : BeginSave(s, m)
                         \/ SaveStep(s)
    \/ FSCrash

FSSpec == FSInit /\ [][FSNext]_fsVars

-----------------------------------------------------------------------------
\* LoadMetrics: an absent file is an empty list; what does not parse is an error,
\* and so is any other reason for which the file cannot be read.
Damaged   == file \in {Empty, Mixed}
LoadFails == Damaged \/ DiskMayFail
Load      == IF file = Absent THEN EmptyMap ELSE file

-----------------------------------------------------------------------------
(* As long as no two saves overlapped, whatever crashed or failed in       *)
(* between, the target holds exactly what the last successful SaveMetrics  *)
(* wrote: never a part of a save, a truncated file, or an older save.      *)
SavedExact == overlap \/ file = lastSaved
=============================================================================
