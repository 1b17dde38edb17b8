------------------------------ MODULE NVStorage ------------------------------
(***************************************************************************)
(* libandroidhal/AndroidFileSystem.cpp: the modem's non-volatile data on   *)
(* /efs.  nv_data.bin is the working copy; .nv_data.bak and .nv_core.bak   *)
(* are a full and a partial backup; each may have a digest in a .md5 file, *)
(* and .nv_state says whether digests are to be believed.                  *)
(*                                                                         *)
(* Every operation is a program of file operations that the process runs   *)
(* one at a time.  It may be killed between any two (what it wrote stays), *)
(* or the power may go (a file that was not synced may hold the old        *)
(* content, the new one, or neither).                                      *)
(***************************************************************************)
EXTENDS Integers, Sequences

CONSTANTS
    Values,        \* contents of either part of the NV data
    DefaultValue,  \* the part's content in the firmware image
    PaddingValue,  \* 0xFF bytes that stand in for a lost second part
    MaxStarts      \* bound on the starts of the process

ASSUME NVAssumption ==
    /\ DefaultValue \in Values
    /\ PaddingValue \in Values
    /\ MaxStarts \in Nat

VARIABLES
    files,        \* contents as a process sees them
    disk,         \* contents that survive a loss of power
    program,      \* file operations the running call still has to make
    running,      \* the process is up
    md5Enabled,   \* m_md5_enabled
    want,         \* ghost: the NV data last written or recovered
    clean,        \* ghost: no update was cut short since `want` was set
    starts        \* number of starts so far

nvVars == << files, disk, program, running, md5Enabled, want, clean, starts >>

-----------------------------------------------------------------------------
Backups == {".nv_data.bak", ".nv_core.bak"}
Copies  == {"nv_data.bin"} \cup Backups
Digests == {"nv_data.bin.md5", ".nv_data.bak.md5", ".nv_core.bak.md5", ".nv_data.md5"}
Files   == Copies \cup Digests \cup {".nv_state"}

\* Where tryLoadNV looks for the digest of a copy.
DigestFile == [f \in Copies |-> CASE f = "nv_data.bin"  -> "nv_data.bin.md5"
                                  [] f = ".nv_data.bak" -> ".nv_data.bak.md5"
                                  [] f = ".nv_core.bak" -> ".nv_core.bak.md5"]

\* A file is missing, has the wrong size, or holds what was meant for it.  The
\* first CORE_SIZE bytes of NV data are `core`, the others `rest`.
Images == [core : Values, rest : Values]
Content(kind, image) == [kind |-> kind, image |-> image]
NoImage   == [core |-> DefaultValue, rest |-> DefaultValue]
Missing   == Content("missing", NoImage)
Torn      == Content("torn", NoImage)
Zero      == Content("0", NoImage)
One       == Content("1", NoImage)
Full(v)   == Content("full", v)
Core(v)   == Content("core", [core |-> v.core, rest |-> PaddingValue])
Digest(c) == Content(IF c.kind = "core" THEN "core digest" ELSE "digest", c.image)

KindsOf(f) == {"missing", "torn"} \cup
              CASE f \in Digests -> {"digest", "core digest"}
                [] f = ".nv_state" -> {"0", "1"}
                [] f = ".nv_core.bak" -> {"core"}
                [] OTHER -> {"full"}

DefaultImage == [core |-> DefaultValue, rest |-> DefaultValue]

\* The programs' instructions: write a content, or fsync.
Put(f, c) == [op |-> "put", file |-> f, content |-> c]
Sync(f)   == [op |-> "sync", file |-> f, content |-> Missing]
\* open(O_TRUNC) followed by a write: the file is short in between.
Rewrite(f, c) == << Put(f, Torn), Put(f, c) >>

\* Types of the variables: NV data only in the copies, digests only in the
\* .md5 files, a flag in .nv_state.
NVTypeOK ==
    /\ \A fs \in {files, disk} :
          /\ DOMAIN fs = Files
          /\ \A f \in Files : fs[f].kind \in KindsOf(f) /\ fs[f].image \in Images
    /\ \A i \in 1 .. Len(program) :
          /\ program[i].op \in {"put", "sync"}
          /\ program[i].file \in Files
    /\ running \in BOOLEAN
    /\ md5Enabled \in BOOLEAN
    /\ want \in Images
    /\ clean \in BOOLEAN
    /\ starts \in 0 .. MaxStarts

-----------------------------------------------------------------------------
\* m_md5_enabled as the constructor reads it: a marker that can be read and
\* is not exactly the character 0.
MarkerEnables(fs) == fs[".nv_state"].kind \notin {"missing", "0"}

\* tryLoadNV: the size is right and, if digests count, so is the digest.
Loads(fs, f, kind) ==
    /\ fs[f].kind = kind
    /\ MarkerEnables(fs) => fs[DigestFile[f]] = Digest(fs[f])

LoadsData(fs)   == Loads(fs, "nv_data.bin", "full")
LoadsBackup(fs) == Loads(fs, ".nv_data.bak", "full")
LoadsCore(fs)   == Loads(fs, ".nv_core.bak", "core")

\* As a bug would have it: the digest is not renewed.
UpdateMD5Skipped(c, enabled) == << >>

\* updateMD5 of an nv_data.bin with content c: the digest, and the marker the
\* first time.  Only the marker is synced.
UpdateMD5(c, enabled) ==
    Rewrite("nv_data.bin.md5", Digest(c))
    \o IF enabled THEN << >>
       ELSE Rewrite(".nv_state", One) \o << Sync(".nv_state") >>

\* backupNVData(true), right after updateMD5.
BackupNVData(v) ==
    Rewrite(".nv_data.bak", Full(v))
    \o << Sync(".nv_data.bak") >>
    \o Rewrite(".nv_data.bak.md5", Digest(Full(v)))
    \o << Sync(".nv_data.bak.md5") >>
    \o Rewrite(".nv_core.bak", Core(v))
    \o << Sync(".nv_core.bak") >>
    \o Rewrite(".nv_core.bak.md5", Digest(Core(v)))

\* As a bug would have it: the backup is renewed from what was recovered.
RecoverFromBackupAnew(c, enabled) ==
    Rewrite("nv_data.bin", c) \o UpdateMD5(c, enabled) \o BackupNVData(c.image)

\* The constructor when only .nv_data.bak loads.
RecoverFromBackup(c, enabled) ==
    Rewrite("nv_data.bin", c) \o UpdateMD5(c, enabled)

\* The constructor when only .nv_core.bak loads: both larger files are rebuilt
\* from it with padding.  The second digest goes to .nv_data.md5, a file that
\* nothing reads.
RecoverFromCore(v, enabled) ==
    << Put("nv_data.bin", Torn), Put(".nv_data.bak", Torn),
       Put("nv_data.bin", Full(v)), Put(".nv_data.bak", Full(v)),
       Sync(".nv_data.bak"), Sync("nv_data.bin") >>
    \o Rewrite(".nv_data.bak.md5", Digest(Full(v))) \o << Sync(".nv_data.bak.md5") >>
    \o Rewrite(".nv_data.md5", Digest(Full(v))) \o << Sync(".nv_data.md5") >>

\* The constructor when nothing loads: the default image.
StartBlank(enabled) ==
    Rewrite("nv_data.bin", Full(DefaultImage))
    \o UpdateMD5(Full(DefaultImage), enabled) \o BackupNVData(DefaultImage)

-----------------------------------------------------------------------------
\* /efs before the first start: each copy is good or unusable, the backups are
\* older than the working copy and not blank; digests are either kept for all
\* of them, or for none and switched off.
NVInit ==
    /\ \E v \in Images, old \in [core : Values \ {DefaultValue}, rest : Values \ {DefaultValue}],
          digests \in BOOLEAN, state \in {Missing, Zero}, good \in SUBSET Copies :
          LET content(f) ==
                  CASE f = "nv_data.bin"         -> Full(v)
                    [] f = ".nv_data.bak"        -> Full(old)
                    [] f = ".nv_core.bak"        -> Core(old)
                    [] f = ".nv_state"           -> IF digests THEN One ELSE state
                    [] f = "nv_data.bin.md5"     -> Digest(Full(v))
                    [] f = ".nv_data.bak.md5"    -> Digest(Full(old))
                    [] f = ".nv_core.bak.md5"    -> Digest(Core(old))
                    [] f = ".nv_data.md5"        -> Missing
              absent == (Copies \ good) \cup (IF digests THEN {} ELSE Digests)
          IN  files = [f \in Files |-> IF f \in absent THEN Missing ELSE content(f)]
    /\ disk = files
    /\ program = << >>
    /\ running = FALSE
    /\ md5Enabled = FALSE
    /\ want = DefaultImage
    /\ clean = FALSE
    /\ starts = 0

\* AndroidFileSystem::AndroidFileSystem: choose the copy to start from.
Start ==
    LET enabled == MarkerEnables(files)
        data    == files["nv_data.bin"]
        backup  == files[".nv_data.bak"]
        core    == [files[".nv_core.bak"].image EXCEPT !.rest = PaddingValue]
    IN  /\ ~running
        /\ starts < MaxStarts
        /\ starts' = starts + 1
        /\ running' = TRUE
        /\ \/ /\ LoadsData(files)
              /\ program' = << >>
              /\ md5Enabled' = enabled
              /\ want' = IF clean THEN want ELSE data.image
           \/ /\ ~LoadsData(files) /\ LoadsBackup(files)
              /\ program' = RecoverFromBackup(backup, enabled)
              /\ md5Enabled' = TRUE
              /\ want' = IF clean THEN want ELSE backup.image
           \/ /\ ~LoadsData(files) /\ ~LoadsBackup(files) /\ LoadsCore(files)
              /\ program' = RecoverFromCore(core, enabled)
              /\ md5Enabled' = enabled
              /\ want' = IF clean THEN want ELSE core
           \/ /\ ~LoadsData(files) /\ ~LoadsBackup(files) /\ ~LoadsCore(files)
              /\ program' = StartBlank(enabled)
              /\ md5Enabled' = TRUE
              /\ want' = IF clean THEN want ELSE DefaultImage
        /\ clean' = TRUE
        /\ UNCHANGED << files, disk >>

\* writeNVData: pwrite, then updateMD5.
WriteNVData(v) ==
    /\ running
    /\ program = << >>
    /\ program' = << Put("nv_data.bin", Full(v)) >> \o UpdateMD5(Full(v), md5Enabled)
    /\ md5Enabled' = TRUE
    /\ want' = v
    /\ UNCHANGED << files, disk, running, clean, starts >>

\* The next file operation of the call in progress.
Step ==
    LET i == Head(program)
    IN  /\ running
        /\ program # << >>
        /\ program' = Tail(program)
        /\ \/ /\ i.op = "put"
              /\ files' = [files EXCEPT ![i.file] = i.content]
              /\ UNCHANGED disk
           \/ /\ i.op = "sync"
              /\ disk' = [disk EXCEPT ![i.file] = files[i.file]]
              /\ UNCHANGED files
        /\ UNCHANGED << running, md5Enabled, want, clean, starts >>

\* The kernel (external) writes a file back in its own time.
Writeback(f) ==
    /\ disk[f] # files[f]
    /\ disk' = [disk EXCEPT ![f] = files[f]]
    /\ UNCHANGED << files, program, running, md5Enabled, want, clean, starts >>

\* rild is killed, or panics: what it wrote so far stays.
Crash ==
    /\ running
    /\ running' = FALSE
    /\ program' = << >>
    /\ md5Enabled' = FALSE
    /\ clean' = (program = << >>)
    /\ UNCHANGED << files, disk, want, starts >>

Dirty == {f \in Files : disk[f] # files[f]}

\* What a file that was not synced may hold after a loss of power: the old
\* content, the new one, a part of either, or blocks of both.
AfterPowerLoss(f) ==
    {disk[f], files[f], Torn} \cup
    {Full([core |-> a.image.core, rest |-> b.image.rest]) :
        a, b \in {c \in {disk[f], files[f]} : c.kind = "full"}}

\* The power goes: every file that was not synced has a fate of its own.
PowerLoss ==
    /\ running
    /\ \E fate \in [Dirty -> UNION {AfterPowerLoss(f) : f \in Dirty}] :
          /\ \A f \in Dirty : fate[f] \in AfterPowerLoss(f)
          /\ files' = [f \in Files |-> IF f \in Dirty THEN fate[f] ELSE files[f]]
    /\ disk' = files'
    /\ running' = FALSE
    /\ program' = << >>
    /\ md5Enabled' = FALSE
    /\ clean' = (program = << >> /\ Dirty = {})
    /\ UNCHANGED << want, starts >>

NVNext ==
    \/ Start
    \/ \E v \in Images : WriteNVData(v)
    \/ Step
    \/ \E f \in Files : Writeback(f)
    \/ Crash
    \/ PowerLoss

NVSpec == NVInit /\ [][NVNext]_nvVars

-----------------------------------------------------------------------------
\* Some backup of more than the blank data would be accepted by the next start
\* whatever .nv_state says, and no loss of power can take it away.
DurableBackup ==
    \E f \in Backups :
        /\ files[f].kind \in {"full", "core"}
        /\ files[f].image.core # DefaultValue
        /\ files[DigestFile[f]] = Digest(files[f])
        /\ {f, DigestFile[f]} \cap Dirty = {}

\* No file operation of any call, no kill and no loss of power between any two,
\* destroys the last backup that has its digest: nv_data.bin and the primary
\* backup are only ever rebuilt from a copy that is left alone, and the blank
\* start only happens when nothing is left to lose.  (A backup without a digest
\* is worthless from the first write on, which switches digests on.)
NeverDoomed == [][DurableBackup => DurableBackup']_nvVars

\* A process that is killed between two calls finds the data it had written
\* when it starts again, although after a recovery from .nv_core.bak the digest
\* of nv_data.bin is stale: what is in nv_data.bin while the process serves
\* calls is what was last written or recovered, unless an update was cut short
\* or unsynced data lost, which start a new history.
DataSurvivesRestart ==
    running /\ clean /\ program = << >> => files["nv_data.bin"].image = want
=============================================================================
