--------------------------------- MODULE RFS ---------------------------------
(***************************************************************************)
(* The remote file system: libsamsung-ipc/RFSSocketHandler.cpp over the    *)
(* file operations of libandroidhal/AndroidFileSystem.cpp.  The modem opens*)
(* files and directories of /efs and uses them by handle; the handles are  *)
(* rild's own descriptors and DIR pointers, so m_rfsDescriptors and        *)
(* m_rfsDirectories say which of them the modem may use.                   *)
(*                                                                         *)
(* The handler runs in the worker thread, one message at a time.  The      *)
(* other threads of rild open and close files of their own meanwhile.  Any *)
(* system call may fail.                                                   *)
(*                                                                         *)
(* Of the contents of a file only whether a request changes them is kept.  *)
(* A name is a plain path below /efs, a name that the validation refuses,  *)
(* or one that it lets pass although it leads out of /efs; what is outside *)
(* of /efs is not modelled, so it may be anything.                         *)
(***************************************************************************)
EXTENDS Integers, Sequences

CONSTANTS
    Paths,       \* names below /efs, as sequences of components
    Outside,     \* a name whose first component is not /efs
    Above,       \* a name that leaves /efs by a component `..'
    MaxFd,       \* the highest descriptor
    Addresses,   \* where opendir() may put a DIR, as the int that is replied
    NVSize,      \* NVDATA_SIZE
    Half,        \* half the range of off_t and size_t: 2^31
    NVLengths,   \* lengths of NV accesses
    NVReadMax    \* how much handleNvRead reads at most: 512

ASSUME ConstantsAssumption ==
    /\ \A p \in Paths : p \in Seq(STRING) /\ p # << >>
    /\ \A p \in Paths : \A i \in 1 .. Len(p) : SubSeq(p, 1, i) \in Paths
    /\ Outside \notin Paths /\ Above \notin Paths /\ Outside # Above
    /\ MaxFd \in Nat /\ Addresses \subseteq Int
    /\ Half \in Nat /\ NVSize \in 0 .. Half - 1
    /\ NVLengths \subseteq 0 .. Half - 1 /\ NVReadMax \in Nat

Fds   == 0 .. MaxFd
Error == -1      \* what a call that fails returns
NoFd  == -2

VARIABLES
    fds,             \* the process's descriptors: who opened each
    dirs,            \* DIR objects: the descriptor that each one holds
    rfsDescriptors,  \* m_rfsDescriptors
    rfsDirectories,  \* m_rfsDirectories
    tree,            \* what is in /efs: the kind of each path
    reply,           \* the latest reply: its `ret`, and the NV data accessed
    changed,         \* ghost: files of /efs that the latest step wrote or emptied
    told,            \* ghost: handles that the replies so far leave open
    closeFailed,     \* ghost: close() or closedir() has failed
    misused          \* ghost: a request reached what the modem never opened

vars == << fds, dirs, rfsDescriptors, rfsDirectories, tree, reply,
           changed, told, closeFailed, misused >>
tables == << fds, dirs, rfsDescriptors, rfsDirectories, told, closeFailed, misused >>

-----------------------------------------------------------------------------
Names == Paths \cup {Outside, Above}
Handles == [kind : {"file"}, id : Fds] \cup [kind : {"dir"}, id : Addresses]
File(fd) == [kind |-> "file", id |-> fd]
Dir(a)   == [kind |-> "dir", id |-> a]

\* buildReply: any negative value is an error.
Reply(ret) == [ret |-> IF ret < 0 THEN Error ELSE ret, offset |-> 0, length |-> 0]

\* Types; a reply carries Error or a value that is not negative.
TypeOK ==
    /\ fds \in [Fds -> {"free", "modem", "rild"}]
    /\ dirs \in [Addresses -> Fds \cup {NoFd}]
    /\ rfsDescriptors \in SUBSET Fds
    /\ rfsDirectories \in SUBSET Addresses
    /\ tree \in [Paths -> {"none", "file", "dir"}]
    /\ reply.ret \in {Error} \cup Nat
    /\ reply.offset \in Int /\ reply.length \in Nat
    /\ changed \in SUBSET Paths
    /\ told \in SUBSET Handles
    /\ closeFailed \in BOOLEAN /\ misused \in BOOLEAN

\* nv_data.bin is open (m_nvdata); every other file is made by a request.
Init ==
    /\ fds = [fd \in Fds |-> IF fd = 0 THEN "rild" ELSE "free"]
    /\ dirs = [a \in Addresses |-> NoFd]
    /\ rfsDescriptors = {}
    /\ rfsDirectories = {}
    /\ tree = [p \in Paths |-> "none"]
    /\ reply = Reply(0)
    /\ changed = {}
    /\ told = {}
    /\ closeFailed = FALSE
    /\ misused = FALSE

-----------------------------------------------------------------------------
(* Names.                                                                  *)

Parent(p) == SubSeq(p, 1, Len(p) - 1)
ParentIsDir(t, p) == p = Above \/ Len(p) = 1 \/ t[Parent(p)] = "dir"
Empty(t, p) ==
    p = Above \/ \A q \in Paths : Len(q) = Len(p) + 1 /\ Parent(q) = p => t[q] = "none"

\* What a call may find under a name.
There(t, name) == IF name = Above THEN {"none", "file", "dir"} ELSE {t[name]}

\* The tree with the kind of a name set; no name but those of /efs is in it.
With(t, name, kind) == [p \in Paths |-> IF p = name THEN kind ELSE t[p]]

\* The tree once makePath has made the first n directories above p.
Made(t, p, n) ==
    [q \in Paths |-> IF t[q] = "none" /\ \E i \in 1 .. n : q = SubSeq(p, 1, i)
                     THEN "dir" ELSE t[q]]

\* makePath: mkdir of every directory above p, whether or not it exists; it
\* stops at the first that fails.  Below a file mkdir fails; what is there
\* already, a file too, is no failure.
MakePath(t, p) ==
    LET above == Len(p) - 1
        file(i) == t[SubSeq(p, 1, i)] = "file"
    IN  {[ok |-> TRUE, tree |-> Made(t, p, above)] :
            x \in {y \in {0} : \A i \in 1 .. above - 1 : ~file(i)}}
        \cup {[ok |-> FALSE, tree |-> Made(t, p, n)] :
                 n \in {k \in 0 .. above - 1 : \A i \in 1 .. above : file(i) => k <= i}}

\* expandAndValidateFilename, then makePath.  Only the first component is
\* compared with /efs, and no component is ever equal to "/..", as it starts
\* behind the slash: Above is let pass, and mkdir finds /efs/.. there.
Reach(t, name) ==
    CASE name = Outside -> {[ok |-> FALSE, tree |-> t]}
      [] name = Above   -> {[ok |-> ok, tree |-> t] : ok \in BOOLEAN}
      [] OTHER          -> MakePath(t, name)

\* The lowest free descriptor, if any.
FreeFd == {fd \in Fds : fds[fd] = "free" /\ \A other \in 0 .. fd - 1 : fds[other] # "free"}

\* The flags of open(), which are the modem's; O_WRONLY is for O_RDWR, too.
Flags == SUBSET {"O_CREAT", "O_TRUNC", "O_WRONLY"}
O_RDONLY == {}

\* What open() takes: a file, a name that it may create, or a directory to read.
Opens(kind, flags) ==
    \/ kind = "file"
    \/ kind = "none" /\ "O_CREAT" \in flags
    \/ kind = "dir" /\ flags = O_RDONLY

\* AndroidFileSystem::openFile: the descriptor, or Error, the tree, and the
\* file that O_TRUNC has emptied.
OpenFile(name, flags) ==
    UNION {
        {[fd |-> Error, tree |-> o.tree, emptied |-> {}]} \cup
        {[fd |-> fd,
          tree |-> [p \in Paths |-> IF p = name /\ o.tree[p] = "none" THEN "file" ELSE o.tree[p]],
          emptied |-> {p \in Paths : p = name /\ o.tree[p] = "file" /\ "O_TRUNC" \in flags}] :
            fd \in {f \in FreeFd : /\ o.ok
                                   /\ ParentIsDir(o.tree, name)
                                   /\ \E kind \in There(o.tree, name) : Opens(kind, flags)}}
        : o \in Reach(tree, name)}

-----------------------------------------------------------------------------
(* Requests that use a handle.                                             *)

\* As a bug would have it: any descriptor will do.
IsSafeDescriptorAlways(fd) == TRUE

IsSafeDescriptor(fd) == fd \in rfsDescriptors

\* The file operations on a handle: the call is made if it is in the table, on
\* whatever is open under that number now.  One that fails changes nothing; one
\* that writes changes some file, which may no longer be in /efs.
UseFile(fd, writes) ==
    /\ \E ret \in IF IsSafeDescriptor(fd) /\ fds[fd] # "free" THEN {Error, 0} ELSE {Error} :
           /\ reply' = Reply(ret)
           /\ \/ changed' = {}
              \/ writes /\ ret = 0 /\ \E p \in Paths : tree[p] = "file" /\ changed' = {p}
    /\ misused' = (misused \/ (IsSafeDescriptor(fd) /\ fds[fd] = "rild"))
    /\ UNCHANGED << fds, dirs, rfsDescriptors, rfsDirectories, tree,
                    told, closeFailed >>

HandleReadFile(fd) == UseFile(fd, FALSE)

HandleWriteFile(fd) == UseFile(fd, TRUE)

HandleLseekFile(fd) == UseFile(fd, FALSE)

HandleFtruncateFile(fd) == UseFile(fd, TRUE)

\* The reply carries a file information that fstat() left unset if it failed.
HandleGetFileInfoByHandle(fd) == UseFile(fd, FALSE)

\* AndroidFileSystem::readDirectory: what it may return.
ReadDirectory(a) == IF a \in rfsDirectories THEN {Error, 0} ELSE {Error}

\* The end of the directory is replied as an error, too.
HandleReadDirectory(a) ==
    /\ reply' \in {Reply(ret) : ret \in ReadDirectory(a)}
    /\ changed' = {}
    /\ misused' = (misused \/ (a \in rfsDirectories /\ dirs[a] = NoFd))
    /\ UNCHANGED << fds, dirs, rfsDescriptors, rfsDirectories, tree,
                    told, closeFailed >>

\* AndroidFileSystem::closeFile.  close() frees the descriptor even if it
\* reports an error, and then the code keeps it in the table.
CloseFile(fd) ==
    IF fd \notin rfsDescriptors \/ fds[fd] = "free"
    THEN {[ret |-> Error, fds |-> fds, table |-> rfsDescriptors]}
    ELSE {[ret |-> ret, fds |-> [fds EXCEPT ![fd] = "free"],
           table |-> IF ret = 0 THEN rfsDescriptors \ {fd} ELSE rfsDescriptors] : ret \in {Error, 0}}

HandleCloseFile(fd) ==
    /\ \E o \in CloseFile(fd) :
           /\ reply' = Reply(o.ret)
           /\ fds' = o.fds
           /\ rfsDescriptors' = o.table
           /\ changed' = {}
           /\ told' = IF o.ret = 0 THEN told \ {File(fd)} ELSE told
           /\ closeFailed' = (closeFailed \/ (o.ret = Error /\ o.fds # fds))
    /\ misused' = (misused \/ (fd \in rfsDescriptors /\ fds[fd] = "rild"))
    /\ UNCHANGED << dirs, rfsDirectories, tree >>

\* AndroidFileSystem::closeDirectory.  closedir() likewise frees the DIR
\* whatever it returns.
CloseDirectory(a) ==
    IF a \notin rfsDirectories \/ dirs[a] = NoFd
    THEN {[ret |-> Error, fds |-> fds, dirs |-> dirs, table |-> rfsDirectories]}
    ELSE {[ret |-> ret, fds |-> [fds EXCEPT ![dirs[a]] = "free"], dirs |-> [dirs EXCEPT ![a] = NoFd],
           table |-> IF ret = 0 THEN rfsDirectories \ {a} ELSE rfsDirectories] : ret \in {Error, 0}}

HandleCloseDirectory(a) ==
    /\ \E o \in CloseDirectory(a) :
           /\ reply' = Reply(o.ret)
           /\ fds' = o.fds
           /\ dirs' = o.dirs
           /\ rfsDirectories' = o.table
           /\ changed' = {}
           /\ told' = IF o.ret = 0 THEN told \ {Dir(a)} ELSE told
           /\ closeFailed' = (closeFailed \/ (o.ret = Error /\ o.dirs # dirs))
    /\ misused' = (misused \/ (a \in rfsDirectories /\ dirs[a] = NoFd))
    /\ UNCHANGED << rfsDescriptors, tree >>

-----------------------------------------------------------------------------
(* Requests that name a file or a directory.                               *)

\* handleOpenFile.
HandleOpenFile(name, flags) ==
    \E o \in OpenFile(name, flags) :
        /\ tree' = o.tree
        /\ changed' = o.emptied
        /\ reply' = Reply(o.fd)
        /\ \/ /\ o.fd = Error
              /\ UNCHANGED << fds, rfsDescriptors, told >>
           \/ /\ o.fd # Error
              /\ fds' = [fds EXCEPT ![o.fd] = "modem"]
              /\ rfsDescriptors' = rfsDescriptors \cup {o.fd}
              /\ told' = told \cup {File(o.fd)}
        /\ UNCHANGED << dirs, rfsDirectories, closeFailed, misused >>

\* As a bug would have it: a transfer that fails leaves without closing.
TransferFileNoClose(name, flags) ==
    \E o \in OpenFile(name, flags) :
        /\ tree' = o.tree
        /\ changed' = o.emptied
        /\ reply' = Reply(Error)
        /\ \/ /\ o.fd = Error
              /\ UNCHANGED << fds, rfsDescriptors >>
           \/ /\ o.fd # Error
              /\ fds' = [fds EXCEPT ![o.fd] = "modem"]
              /\ rfsDescriptors' = rfsDescriptors \cup {o.fd}
        /\ UNCHANGED << dirs, rfsDirectories, told, closeFailed, misused >>

\* What handlePutFile, handleGetFile and handleGetFileInfo do: open, transfer,
\* close.  If the transfer fails, what open() has created or emptied stays so.
\* What close() returns is not looked at; if it fails the descriptor stays in
\* the table.
TransferFile(name, flags) ==
    \E o \in OpenFile(name, flags) :
        /\ tree' = o.tree
        /\ \/ /\ o.fd = Error
              /\ reply' = Reply(Error)
              /\ changed' = {}
              /\ UNCHANGED << rfsDescriptors, closeFailed >>
           \/ /\ o.fd # Error
              /\ \/ reply' = Reply(Error) /\ changed' = o.emptied
                 \/ reply' = Reply(0) /\ changed' = {p \in Paths : p = name /\ flags # O_RDONLY}
              /\ rfsDescriptors' \in {rfsDescriptors \ {o.fd}, rfsDescriptors \cup {o.fd}}
              /\ closeFailed' = (closeFailed \/ o.fd \in rfsDescriptors')
        /\ UNCHANGED << fds, dirs, rfsDirectories, told, misused >>

\* write() refuses a descriptor that is open for reading only.
HandlePutFile(name, flags) ==
    /\ TransferFile(name, flags)
    /\ "O_WRONLY" \notin flags => reply' = Reply(Error)

HandleGetFile(name) == TransferFile(name, O_RDONLY)

HandleGetFileInfo(name) == TransferFile(name, O_RDONLY)

\* AndroidFileSystem::openDirectory: the handle is the DIR pointer as an int.
OpenDirectory(name) ==
    UNION {
        {[ret |-> Error, tree |-> o.tree, fds |-> fds, dirs |-> dirs]} \cup
        {[ret |-> a, tree |-> o.tree, fds |-> [fds EXCEPT ![fd] = "modem"],
          dirs |-> [dirs EXCEPT ![a] = fd]] :
            fd \in {f \in FreeFd : o.ok /\ "dir" \in There(o.tree, name)},
            a \in {b \in Addresses : dirs[b] = NoFd}}
        : o \in Reach(tree, name)}

\* buildReply takes a negative handle for an error.
HandleOpenDirectory(name) ==
    /\ \E o \in OpenDirectory(name) :
           /\ reply' = Reply(o.ret)
           /\ tree' = o.tree
           /\ changed' = {}
           /\ fds' = o.fds
           /\ dirs' = o.dirs
           /\ rfsDirectories' = rfsDirectories \cup {a \in {o.ret} : o.dirs # dirs}
           /\ told' = told \cup {Dir(a) : a \in {b \in {o.ret} : o.dirs # dirs /\ b >= 0}}
    /\ UNCHANGED << rfsDescriptors, closeFailed, misused >>

\* translateReturn, for a request that only changes the tree: `done` are the
\* trees in which it succeeds, `t` the one in which it fails.
Outcomes(done, t) == {[ret |-> Error, tree |-> t]} \cup {[ret |-> 0, tree |-> u] : u \in done}

Rearrange(outcomes) ==
    /\ \E o \in outcomes : tree' = o.tree /\ reply' = Reply(o.ret)
    /\ changed' = {}
    /\ UNCHANGED << tables >>

\* AndroidFileSystem::deleteFile: no makePath.
DeleteFile(name) ==
    Outcomes(IF name # Outside /\ "file" \in There(tree, name)
             THEN {With(tree, name, "none")} ELSE {}, tree)

HandleDeleteFile(name) == Rearrange(DeleteFile(name))

\* AndroidFileSystem::makeDirectory.
MakeDirectory(name) ==
    UNION {Outcomes(IF o.ok /\ "none" \in There(o.tree, name) /\ ParentIsDir(o.tree, name)
                    THEN {With(o.tree, name, "dir")} ELSE {}, o.tree) : o \in Reach(tree, name)}

HandleMakeDirectory(name) == Rearrange(MakeDirectory(name))

\* AndroidFileSystem::deleteDirectory: the directories above are made first.
DeleteDirectory(name) ==
    UNION {Outcomes(IF o.ok /\ "dir" \in There(o.tree, name) /\ Empty(o.tree, name)
                    THEN {With(o.tree, name, "none")} ELSE {}, o.tree) : o \in Reach(tree, name)}

HandleDeleteDirectory(name) == Rearrange(DeleteDirectory(name))

\* What rename() does (external); a directory that is not empty is left out.
Renamed(t, old, new) ==
    {With(With(t, old, "none"), new, kind) :
        kind \in {k \in There(t, old) \ {"none"} :
                     /\ Empty(t, old) /\ Empty(t, new)
                     /\ ParentIsDir(t, new)
                     /\ new \in Paths /\ Len(new) > 1 => Parent(new) # old
                     /\ There(t, new) \cap {"none", k} # {}}}

\* As a bug would have it: the target is removed to make room.
RenameFileUnlinksTarget(old, new) ==
    UNION {LET room == IF o.ok /\ "file" \in There(o.tree, new)
                       THEN With(o.tree, new, "none") ELSE o.tree
           IN  Outcomes(IF o.ok /\ old # Outside THEN Renamed(room, old, new) ELSE {}, room)
           : o \in Reach(tree, new)}

\* AndroidFileSystem::renameFile: both names are validated before the
\* directories above the new one are made.
RenameFile(old, new) ==
    IF old = Outside
    THEN Outcomes({}, tree)
    ELSE UNION {Outcomes(IF o.ok THEN Renamed(o.tree, old, new) ELSE {}, o.tree)
                : o \in Reach(tree, new)}

HandleRenameFile(old, new) == Rearrange(RenameFile(old, new))

-----------------------------------------------------------------------------
(* NV data.                                                                *)

\* As a bug would have it: only the start of the access is compared.
NVRangeOKStartOnly(offset, length) == offset % (2 * Half) <= NVSize

\* offset + data.size() > NVDATA_SIZE, in unsigned arithmetic.
NVRangeOK(offset, length) == (offset + length) % (2 * Half) <= NVSize

\* readNVData and writeNVData.  pread and pwrite refuse a negative offset.
AccessNV(offset, length) ==
    /\ \/ reply' = Reply(Error)
       \/ /\ NVRangeOK(offset, length)
          /\ offset >= 0
          /\ reply' = [Reply(0) EXCEPT !.offset = offset, !.length = length]
    /\ changed' = {}
    /\ UNCHANGED << tables, tree >>

HandleNvRead(offset, size) == AccessNV(offset, IF size < NVReadMax THEN size ELSE NVReadMax)

\* What a write does to nv_data.bin and its digest is in module NVStorage.
HandleNvWrite(offset, size) == AccessNV(offset, size)

HandleNvWriteAll(offset, size) == AccessNV(offset, size)

\* handleMessage on a type without a handler, or one that does not decode: no
\* reply.
HandleUnknown ==
    /\ reply' = Reply(0)
    /\ changed' = {}
    /\ UNCHANGED << tables, tree >>

\* The rest of rild (external): its threads open and close files.
RildOpens ==
    /\ \E fd \in FreeFd : fds' = [fds EXCEPT ![fd] = "rild"]
    /\ changed' = {}
    /\ UNCHANGED << dirs, rfsDescriptors, rfsDirectories, tree, reply,
                    told, closeFailed, misused >>

RildCloses(fd) ==
    /\ fds[fd] = "rild" /\ fd # 0
    /\ fds' = [fds EXCEPT ![fd] = "free"]
    /\ changed' = {}
    /\ UNCHANGED << dirs, rfsDescriptors, rfsDirectories, tree, reply,
                    told, closeFailed, misused >>

Offsets == -Half .. Half - 1

Next ==
    \/ \E fd \in Fds : \/ HandleReadFile(fd) \/ HandleWriteFile(fd) \/ HandleLseekFile(fd)
                       \/ HandleFtruncateFile(fd) \/ HandleGetFileInfoByHandle(fd)
                       \/ HandleCloseFile(fd) \/ RildCloses(fd)
    \/ \E a \in Addresses : HandleReadDirectory(a) \/ HandleCloseDirectory(a)
    \/ \E name \in Names, flags \in Flags :
           HandleOpenFile(name, flags) \/ HandlePutFile(name, flags)
    \/ \E name \in Names : \/ HandleGetFile(name) \/ HandleGetFileInfo(name)
                           \/ HandleOpenDirectory(name) \/ HandleDeleteFile(name)
                           \/ HandleMakeDirectory(name) \/ HandleDeleteDirectory(name)
    \/ \E old, new \in Names : HandleRenameFile(old, new)
    \/ \E offset \in Offsets, size \in NVLengths :
           HandleNvRead(offset, size) \/ HandleNvWrite(offset, size) \/ HandleNvWriteAll(offset, size)
    \/ HandleUnknown
    \/ RildOpens

Spec == Init /\ [][Next]_vars

-----------------------------------------------------------------------------
\* However descriptor numbers are reused, no request of the modem reads, writes
\* or closes a file that another part of rild has open, nor uses a DIR that is
\* freed, unless close() or closedir() has reported an error (after which the
\* tables keep a handle that no longer exists).
OnlyOwnHandles == misused => closeFailed

\* The tables hold exactly the handles that the modem was given and has not
\* closed, and each is open: none is leaked by the requests that open a file
\* for themselves, whichever of their steps fails.  Left out are a failed
\* close() and a DIR whose address is negative as an int, of which the modem
\* is told that it could not be opened.
TablesMatchReplies ==
    ~closeFailed =>
        /\ rfsDescriptors = {fd \in Fds : File(fd) \in told}
        /\ {a \in rfsDirectories : a >= 0} = {a \in Addresses : Dir(a) \in told}
        /\ \A fd \in rfsDescriptors : fds[fd] = "modem" /\ fd \notin {dirs[a] : a \in Addresses}
        /\ \A a \in rfsDirectories : dirs[a] \in Fds /\ fds[dirs[a]] = "modem"

\* A request that is answered with an error removes nothing from /efs, moves
\* nothing and changes the contents of no file, whichever of its steps failed;
\* it may have made directories.  The exception is a put that fails after it
\* has opened its file: that file may be left new, or emptied by O_TRUNC.
FailureLosesNothing ==
    [][reply'.ret = Error =>
           \A p \in Paths :
               \/ tree'[p] = tree[p] /\ p \notin changed'
               \/ tree[p] = "none" /\ tree'[p] = "dir"
               \/ tree'[p] = "file" /\ \E flags \in Flags : HandlePutFile(p, flags)]_vars

\* An NV access stays inside nv_data.bin, although the sum that is compared may
\* wrap around: a file of another size would be refused at the next start.
NVInBounds == reply.offset >= 0 /\ reply.offset + reply.length <= NVSize
=============================================================================
