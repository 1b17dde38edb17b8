---------------------- MODULE AndroidFileSystem_proofs -----------------------
(***************************************************************************)
(* Theorems about the two halves of AndroidFileSystem.cpp.                 *)
(*                                                                         *)
(* RFS, for any names, number of descriptors, DIR addresses and sizes.     *)
(* That the tables match what the modem was told is not inductive: closing *)
(* a directory frees the descriptor of its DIR, so two DIRs must not share *)
(* one, and a DIR outside of m_rfsDirectories must not hold any (TableInv).*)
(* The other theorems rest on what a request can do to /efs: makePath adds *)
(* directories to it (Keeps), and open() touches no name but its own.      *)
(*                                                                         *)
(* NVStorage, for any contents of the NV data and any number of starts.    *)
(* The invariants speak of what a file will hold when the program has run  *)
(* (Settles), which a step does not change.  What a start will find is in  *)
(* DataInv.  That the last backup is kept needs the order in which the     *)
(* programs write and sync the primary backup and its digest (PrimaryInv), *)
(* and that no old digest is found beside a new backup when a start cannot *)
(* tell because digests are switched off (MarkerInv).                      *)
(***************************************************************************)
EXTENDS RFS, NVStorage, SequenceTheorems, TLAPS

Trees == [Paths -> {"none", "file", "dir"}]

\* Nothing of t is lost or replaced in u, and what is new is a directory.
KeepsAt(t, u, p) == u[p] = t[p] \/ (t[p] = "none" /\ u[p] = "dir")
Keeps(t, u) == \A p \in Paths : KeepsAt(t, u, p)

\* As long as close() and closedir() succeed.
TableInv ==
    /\ rfsDescriptors = {fd \in Fds : File(fd) \in told}
    /\ \A a \in Addresses : Dir(a) \in told <=> a \in rfsDirectories /\ a >= 0
    /\ \A fd \in rfsDescriptors : fds[fd] = "modem" /\ \A a \in Addresses : dirs[a] # fd
    /\ \A a \in rfsDirectories : dirs[a] \in Fds /\ fds[dirs[a]] = "modem"
    /\ \A a \in Addresses : a \notin rfsDirectories => dirs[a] = NoFd
    /\ \A a, b \in rfsDirectories : dirs[a] = dirs[b] => a = b
    /\ ~misused

Inv ==
    /\ TypeOK
    /\ ~closeFailed => TableInv
    /\ NVInBounds
-----------------------------------------------------------------------------
(* What requests do to /efs.                                               *)

\* mkdir of the directories above a name adds to the tree.
LEMMA MadeKeeps ==
    ASSUME NEW t \in Trees, NEW p, NEW n
    PROVE  Made(t, p, n) \in Trees /\ Keeps(t, Made(t, p, n))
BY DEF Made, Trees, Keeps, KeepsAt

LEMMA KeepsReflexive == \A t \in Trees : Keeps(t, t)
BY DEF Keeps, KeepsAt

LEMMA WithIsTree ==
    ASSUME NEW t \in Trees, NEW name, NEW kind \in {"none", "file", "dir"}
    PROVE  With(t, name, kind) \in Trees
BY DEF With, Trees

\* Whether makePath ends or stops at a failure.
LEMMA ReachKeeps ==
    ASSUME NEW t \in Trees, NEW name \in Names, NEW o \in Reach(t, name)
    PROVE  o.tree \in Trees /\ Keeps(t, o.tree) /\ (o.ok => name # Outside)
<1>1. CASE name = Outside
  <2>1. o = [ok |-> FALSE, tree |-> t]
    BY <1>1, ConstantsAssumption DEF Reach
  <2>2. o.ok = FALSE /\ o.tree = t
    BY <2>1, Zenon
  <2>3. ~o.ok
    BY <2>2, Zenon
  <2> QED BY <2>2, <2>3, KeepsReflexive
<1>2. CASE name = Above
  BY <1>2, KeepsReflexive, ConstantsAssumption DEF Reach
<1>3. CASE name # Outside /\ name # Above
  <2>1. o \in MakePath(t, name)
    BY <1>3 DEF Reach
  <2>2. \E n : o.tree = Made(t, name, n)
    BY <2>1 DEF MakePath
  <2> QED BY <1>3, <2>2, MadeKeeps
<1> QED BY <1>1, <1>2, <1>3

\* openFile: one that fails empties nothing; one that succeeds gives a
\* descriptor that was free, and may have created or emptied its own file.
LEMMA OpenFileKeeps ==
    ASSUME TypeOK, NEW name \in Names, NEW flags \in Flags, NEW o \in OpenFile(name, flags)
    PROVE  /\ o.tree \in Trees /\ o.emptied \subseteq Paths
           /\ o.fd = Error => Keeps(tree, o.tree) /\ o.emptied = {}
           /\ o.fd # Error =>
                 /\ o.fd \in Fds /\ fds[o.fd] = "free"
                 /\ \A p \in Paths : \/ KeepsAt(tree, o.tree, p) /\ p \notin o.emptied
                                     \/ p = name /\ o.tree[p] = "file" /\ flags # O_RDONLY
<1>1. tree \in Trees
  BY DEF TypeOK, Trees
<1> DEFINE opened(t) == [p \in Paths |-> IF p = name /\ t[p] = "none" THEN "file" ELSE t[p]]
           emptied(t) == {p \in Paths : p = name /\ t[p] = "file" /\ "O_TRUNC" \in flags}
<1>2. PICK r \in Reach(tree, name) :
          \/ o = [fd |-> Error, tree |-> r.tree, emptied |-> {}]
          \/ \E fd \in FreeFd :
                /\ \E kind \in There(r.tree, name) : Opens(kind, flags)
                /\ o = [fd |-> fd, tree |-> opened(r.tree), emptied |-> emptied(r.tree)]
  BY DEF OpenFile
<1>3. r.tree \in Trees /\ Keeps(tree, r.tree)
  BY <1>1, ReachKeeps
<1>4. CASE o = [fd |-> Error, tree |-> r.tree, emptied |-> {}]
  BY <1>3, <1>4
<1>5. ASSUME NEW fd \in FreeFd, \E kind \in There(r.tree, name) : Opens(kind, flags),
             o = [fd |-> fd, tree |-> opened(r.tree), emptied |-> emptied(r.tree)]
      PROVE  /\ o.tree \in Trees /\ o.emptied \subseteq Paths
             /\ o.fd \in Fds /\ o.fd # Error /\ fds[o.fd] = "free"
             /\ \A p \in Paths : \/ KeepsAt(tree, o.tree, p) /\ p \notin o.emptied
                                 \/ p = name /\ o.tree[p] = "file" /\ flags # O_RDONLY
  <2>1. o.fd = fd /\ fd \in Fds /\ fd # Error /\ fds[fd] = "free"
    BY <1>5 DEF FreeFd, Fds, Error
  <2>2. o.tree = opened(r.tree) /\ o.emptied = emptied(r.tree)
    BY <1>5
  <2>3. o.tree \in Trees /\ o.emptied \subseteq Paths
    BY <1>3, <2>2 DEF Trees
  <2>4. ASSUME NEW p \in Paths
        PROVE  \/ KeepsAt(tree, o.tree, p) /\ p \notin o.emptied
               \/ p = name /\ o.tree[p] = "file" /\ flags # O_RDONLY
    <3>1. CASE p # name
      BY <1>3, <2>2, <3>1 DEF Keeps, KeepsAt
    <3>2. CASE p = name /\ r.tree[p] = "none"
      <4>1. There(r.tree, name) = {"none"}
        BY <3>2, ConstantsAssumption DEF There
      <4>2. "O_CREAT" \in flags
        BY <1>5, <4>1 DEF Opens
      <4> QED BY <2>2, <3>2, <4>2 DEF O_RDONLY
    <3>3. CASE p = name /\ r.tree[p] # "none" /\ p \notin o.emptied
      BY <1>3, <2>2, <3>3 DEF Keeps, KeepsAt
    <3>4. CASE p = name /\ p \in o.emptied
      BY <2>2, <3>4 DEF O_RDONLY
    <3> QED BY <3>1, <3>2, <3>3, <3>4, <2>2
  <2> QED BY <2>1, <2>3, <2>4
<1> HIDE DEF opened, emptied
<1>6. CASE \E fd \in FreeFd :
                /\ \E kind \in There(r.tree, name) : Opens(kind, flags)
                /\ o = [fd |-> fd, tree |-> opened(r.tree), emptied |-> emptied(r.tree)]
  BY <1>5, <1>6
<1> QED BY <1>2, <1>4, <1>6

\* What a request that only rearranges /efs may do: lose something only if it
\* succeeds.
LosesOnlyOnSuccess(outcomes) ==
    \A o \in outcomes : /\ o.tree \in Trees /\ o.ret \in {Error, 0}
                        /\ o.ret = Error => Keeps(tree, o.tree)

LEMMA OutcomesSound ==
    ASSUME NEW done \in SUBSET Trees, NEW t \in Trees, Keeps(tree, t)
    PROVE  LosesOnlyOnSuccess(Outcomes(done, t))
BY DEF LosesOnlyOnSuccess, Outcomes, Error

LEMMA DeleteFileSound ==
    ASSUME TypeOK, NEW name \in Names
    PROVE  LosesOnlyOnSuccess(DeleteFile(name))
<1>1. tree \in Trees /\ Keeps(tree, tree)
  BY KeepsReflexive DEF TypeOK, Trees
<1> DEFINE done == IF name # Outside /\ "file" \in There(tree, name)
                   THEN {With(tree, name, "none")} ELSE {}
<1>2. done \in SUBSET Trees
  BY <1>1, WithIsTree
<1> HIDE DEF done
<1>3. LosesOnlyOnSuccess(Outcomes(done, tree))
  BY <1>1, <1>2, OutcomesSound
<1> QED BY <1>3 DEF DeleteFile, done

LEMMA MakeDirectorySound ==
    ASSUME TypeOK, NEW name \in Names
    PROVE  LosesOnlyOnSuccess(MakeDirectory(name))
<1>1. tree \in Trees
  BY DEF TypeOK, Trees
<1> DEFINE done(o) == IF o.ok /\ "none" \in There(o.tree, name) /\ ParentIsDir(o.tree, name)
                      THEN {With(o.tree, name, "dir")} ELSE {}
<1>2. ASSUME NEW o \in Reach(tree, name)
      PROVE  LosesOnlyOnSuccess(Outcomes(done(o), o.tree))
  <2>1. o.tree \in Trees /\ Keeps(tree, o.tree)
    BY <1>1, ReachKeeps
  <2>2. done(o) \in SUBSET Trees
    BY <2>1, WithIsTree
  <2> HIDE DEF done
  <2> QED BY <2>1, <2>2, OutcomesSound
<1> QED BY <1>2 DEF MakeDirectory, LosesOnlyOnSuccess

LEMMA DeleteDirectorySound ==
    ASSUME TypeOK, NEW name \in Names
    PROVE  LosesOnlyOnSuccess(DeleteDirectory(name))
<1>1. tree \in Trees
  BY DEF TypeOK, Trees
<1> DEFINE done(o) == IF o.ok /\ "dir" \in There(o.tree, name) /\ Empty(o.tree, name)
                      THEN {With(o.tree, name, "none")} ELSE {}
<1>2. ASSUME NEW o \in Reach(tree, name)
      PROVE  LosesOnlyOnSuccess(Outcomes(done(o), o.tree))
  <2>1. o.tree \in Trees /\ Keeps(tree, o.tree)
    BY <1>1, ReachKeeps
  <2>2. done(o) \in SUBSET Trees
    BY <2>1, WithIsTree
  <2> HIDE DEF done
  <2> QED BY <2>1, <2>2, OutcomesSound
<1> QED BY <1>2 DEF DeleteDirectory, LosesOnlyOnSuccess

LEMMA RenameFileSound ==
    ASSUME TypeOK, NEW old \in Names, NEW new \in Names
    PROVE  LosesOnlyOnSuccess(RenameFile(old, new))
<1>1. tree \in Trees /\ Keeps(tree, tree)
  BY KeepsReflexive DEF TypeOK, Trees
<1>2. CASE old = Outside
  BY <1>1, <1>2, OutcomesSound DEF RenameFile
<1>3. CASE old # Outside
  <2> DEFINE done(o) == IF o.ok THEN Renamed(o.tree, old, new) ELSE {}
  <2>1. ASSUME NEW o \in Reach(tree, new)
        PROVE  LosesOnlyOnSuccess(Outcomes(done(o), o.tree))
    <3>1. o.tree \in Trees /\ Keeps(tree, o.tree)
      BY <1>1, ReachKeeps
    <3>2. There(o.tree, old) \subseteq {"none", "file", "dir"}
      BY <1>3, <3>1 DEF There, Names, Trees
    <3>3. ASSUME NEW u \in Renamed(o.tree, old, new)
          PROVE  u \in Trees
      <4>1. PICK kind \in There(o.tree, old) : u = With(With(o.tree, old, "none"), new, kind)
        BY <3>3 DEF Renamed
      <4>2. With(o.tree, old, "none") \in Trees /\ kind \in {"none", "file", "dir"}
        BY <3>1, <3>2, WithIsTree
      <4> QED BY <4>1, <4>2, WithIsTree
    <3>4. done(o) \in SUBSET Trees
      BY <3>3
    <3> HIDE DEF done
    <3> QED BY <3>1, <3>4, OutcomesSound
  <2> QED BY <1>3, <2>1 DEF RenameFile, LosesOnlyOnSuccess
<1> QED BY <1>2, <1>3

\* openDirectory: a DIR is a fresh one, over a descriptor that was free.
LEMMA OpenDirectoryKeeps ==
    ASSUME TypeOK, NEW name \in Names, NEW o \in OpenDirectory(name)
    PROVE  /\ o.tree \in Trees /\ Keeps(tree, o.tree)
           /\ \/ o.ret = Error /\ o.fds = fds /\ o.dirs = dirs
              \/ \E fd \in Fds, a \in Addresses :
                    /\ fds[fd] = "free" /\ dirs[a] = NoFd /\ o.ret = a
                    /\ o.fds = [fds EXCEPT ![fd] = "modem"]
                    /\ o.dirs = [dirs EXCEPT ![a] = fd]
<1>1. tree \in Trees
  BY DEF TypeOK, Trees
<1>2. PICK r \in Reach(tree, name) :
          \/ o = [ret |-> Error, tree |-> r.tree, fds |-> fds, dirs |-> dirs]
          \/ \E fd \in FreeFd, a \in Addresses :
                /\ dirs[a] = NoFd
                /\ o = [ret |-> a, tree |-> r.tree, fds |-> [fds EXCEPT ![fd] = "modem"],
                        dirs |-> [dirs EXCEPT ![a] = fd]]
  BY DEF OpenDirectory
<1>3. r.tree \in Trees /\ Keeps(tree, r.tree)
  BY <1>1, ReachKeeps
<1>4. CASE o = [ret |-> Error, tree |-> r.tree, fds |-> fds, dirs |-> dirs]
  BY <1>3, <1>4
<1>5. CASE \E fd \in FreeFd, a \in Addresses :
              /\ dirs[a] = NoFd
              /\ o = [ret |-> a, tree |-> r.tree, fds |-> [fds EXCEPT ![fd] = "modem"],
                      dirs |-> [dirs EXCEPT ![a] = fd]]
  <2>1. PICK fd \in FreeFd, a \in Addresses :
            /\ dirs[a] = NoFd
            /\ o = [ret |-> a, tree |-> r.tree, fds |-> [fds EXCEPT ![fd] = "modem"],
                    dirs |-> [dirs EXCEPT ![a] = fd]]
    BY <1>5
  <2>2. /\ o.ret = a /\ o.tree = r.tree /\ o.fds = [fds EXCEPT ![fd] = "modem"]
        /\ o.dirs = [dirs EXCEPT ![a] = fd]
    BY <2>1
  <2>3. fd \in Fds /\ fds[fd] = "free"
    BY DEF FreeFd
  <2> QED BY <1>3, <2>1, <2>2, <2>3
<1> QED BY <1>2, <1>4, <1>5

-----------------------------------------------------------------------------
(* Steps.                                                                  *)

\* Nothing is lost, but that a put may have spoilt the file that it names.
LosesNothing ==
    \A p \in Paths : \/ KeepsAt(tree, tree', p) /\ p \notin changed'
                     \/ tree'[p] = "file" /\ \E flags \in Flags : HandlePutFile(p, flags)

\* What every step must do: keep the invariant, and lose nothing from /efs if
\* it replies an error.
Safe == Inv' /\ (reply'.ret = Error => LosesNothing)

LEMMA KeepingLosesNothing ==
    ASSUME Keeps(tree, tree'), changed' = {}
    PROVE  LosesNothing
BY DEF Keeps, LosesNothing

LEMMA ReplyValue ==
    ASSUME NEW ret \in Int
    PROVE  /\ Reply(ret).ret \in {Error} \cup Nat
           /\ Reply(ret).offset = 0 /\ Reply(ret).length = 0
           /\ ret >= 0 => Reply(ret).ret = ret
BY DEF Reply, Error

\* A reply without NV data.
PlainReply == /\ reply'.ret \in {Error} \cup Nat
              /\ reply'.offset = 0 /\ reply'.length = 0

\* Steps that leave the tables alone.
LEMMA TreeStep ==
    ASSUME Inv, UNCHANGED tables, PlainReply, tree' \in Trees, changed' = {},
           reply'.ret = Error => Keeps(tree, tree')
    PROVE  Safe
<1>1. TypeOK'
  BY DEF Inv, TypeOK, tables, PlainReply, Trees
<1>2. ~closeFailed' => TableInv'
  BY DEF Inv, TableInv, tables
<1>3. NVInBounds'
  BY ConstantsAssumption DEF NVInBounds, PlainReply
<1> QED BY <1>1, <1>2, <1>3, KeepingLosesNothing DEF Safe, Inv

LEMMA RearrangeSafe ==
    ASSUME Inv, NEW outcomes, LosesOnlyOnSuccess(outcomes), Rearrange(outcomes)
    PROVE  Safe
<1>1. PICK o \in outcomes : tree' = o.tree /\ reply' = Reply(o.ret)
  BY DEF Rearrange
<1>2. /\ o.tree \in Trees /\ o.ret \in {Error, 0}
      /\ o.ret = Error => Keeps(tree, o.tree)
  BY <1>1 DEF LosesOnlyOnSuccess
<1>3. PlainReply /\ (reply'.ret = Error => o.ret = Error)
  BY <1>1, <1>2, ReplyValue DEF PlainReply, Error
<1> QED BY <1>1, <1>2, <1>3, TreeStep DEF Rearrange

\* An offset that is not negative and a length cannot wrap around.
LEMMA AccessNVSafe ==
    ASSUME Inv, NEW offset \in Offsets, NEW length \in 0 .. Half - 1, AccessNV(offset, length)
    PROVE  Safe
<1>1. CASE reply' = Reply(Error)
  <2>1. PlainReply
    BY <1>1, ReplyValue DEF PlainReply, Error
  <2>2. tree' = tree /\ changed' = {} /\ tree \in Trees /\ UNCHANGED tables
    BY DEF AccessNV, Inv, TypeOK, Trees
  <2> QED BY <2>1, <2>2, TreeStep, KeepsReflexive
<1>2. CASE /\ NVRangeOK(offset, length) /\ offset >= 0
           /\ reply' = [Reply(0) EXCEPT !.offset = offset, !.length = length]
  <2>1. reply'.ret = 0 /\ reply'.offset = offset /\ reply'.length = length
    BY <1>2 DEF Reply
  <2>2. /\ offset + length \in Int /\ Half \in Nat
        /\ 0 <= offset + length /\ offset + length < 2 * Half
    BY <1>2, ConstantsAssumption DEF Offsets
  <2>3. (offset + length) % (2 * Half) = offset + length
    BY <2>2
  <2>4. NVInBounds'
    BY <1>2, <2>1, <2>3 DEF NVRangeOK, NVInBounds
  <2>5. TypeOK'
    BY <2>1, ConstantsAssumption DEF AccessNV, Inv, TypeOK, tables, Offsets, Error
  <2>6. ~closeFailed' => TableInv'
    BY DEF AccessNV, Inv, TableInv, tables
  <2> QED BY <2>1, <2>4, <2>5, <2>6 DEF Safe, Inv, Error
<1> QED BY <1>1, <1>2 DEF AccessNV

\* Steps of the tables: what is left to show for each of them.
LEMMA TableStep ==
    ASSUME Inv, PlainReply, tree' \in Trees, changed' \subseteq Paths,
           reply'.ret = Error => LosesNothing,
           fds' \in [Fds -> {"free", "modem", "rild"}],
           dirs' \in [Addresses -> Fds \cup {NoFd}],
           rfsDescriptors' \subseteq Fds, rfsDirectories' \subseteq Addresses,
           told' \subseteq Handles, closeFailed' \in BOOLEAN, misused' \in BOOLEAN,
           ~closeFailed' => TableInv'
    PROVE  Safe
<1>1. TypeOK'
  BY DEF TypeOK, PlainReply, Trees
<1>2. NVInBounds'
  BY ConstantsAssumption DEF NVInBounds, PlainReply
<1> QED BY <1>1, <1>2 DEF Safe, Inv

\* The table of the descriptors holds nothing that rild has opened, so that
\* using a handle misuses nothing.
LEMMA UseFileSafe ==
    ASSUME Inv, NEW fd \in Fds, NEW writes \in BOOLEAN, UseFile(fd, writes)
    PROVE  Safe
<1>1. PICK ret \in {Error, 0} :
          /\ reply' = Reply(ret)
          /\ changed' \subseteq Paths /\ (ret = Error => changed' = {})
  BY DEF UseFile, Error
<1>2. PlainReply /\ (reply'.ret = Error => ret = Error)
  BY <1>1, ReplyValue DEF PlainReply, Error
<1>3. UNCHANGED << fds, dirs, rfsDescriptors, rfsDirectories, tree, told, closeFailed >>
  BY DEF UseFile
<1>4. misused' \in BOOLEAN
  BY Zenon DEF UseFile
<1>5. ~closeFailed => ~misused /\ (fd \in rfsDescriptors => fds[fd] # "rild")
  BY DEF Inv, TableInv
<1>6. ~closeFailed => ~misused'
  BY <1>5, Zenon DEF UseFile, IsSafeDescriptor
<1>7. ~closeFailed' => TableInv'
  BY <1>3, <1>6 DEF Inv, TableInv
<1>8. tree' \in Trees /\ Keeps(tree, tree')
  BY <1>3, KeepsReflexive DEF Inv, TypeOK, Trees
<1>9. reply'.ret = Error => LosesNothing
  BY <1>1, <1>2, <1>8, KeepingLosesNothing
<1> QED BY <1>1, <1>2, <1>3, <1>4, <1>7, <1>8, <1>9, TableStep DEF Inv, TypeOK

LEMMA HandleReadDirectorySafe ==
    ASSUME Inv, NEW a \in Addresses, HandleReadDirectory(a)
    PROVE  Safe
<1>1. PICK ret \in {Error, 0} : reply' = Reply(ret)
  BY DEF HandleReadDirectory, ReadDirectory
<1>2. PlainReply
  BY <1>1, ReplyValue DEF PlainReply, Error
<1>3. UNCHANGED << fds, dirs, rfsDescriptors, rfsDirectories, tree, told, closeFailed >>
  BY DEF HandleReadDirectory
<1>4. misused' \in BOOLEAN
  BY Zenon DEF HandleReadDirectory
<1>5. ~closeFailed => ~misused /\ (a \in rfsDirectories => dirs[a] # NoFd)
  BY DEF Inv, TableInv, Fds, NoFd
<1>6. ~closeFailed => ~misused'
  BY <1>5, Zenon DEF HandleReadDirectory
<1>7. ~closeFailed' => TableInv'
  BY <1>3, <1>6 DEF Inv, TableInv
<1>8. tree' \in Trees /\ changed' = {} /\ LosesNothing
  BY <1>3, KeepsReflexive, KeepingLosesNothing DEF HandleReadDirectory, Inv, TypeOK, Trees
<1> QED BY <1>2, <1>3, <1>4, <1>7, <1>8, TableStep DEF Inv, TypeOK

LEMMA HandleKinds ==
    /\ \A fd \in Fds : File(fd) \in Handles
    /\ \A a \in Addresses : Dir(a) \in Handles
    /\ \A f, g : File(f) = File(g) => f = g
    /\ \A a, b : Dir(a) = Dir(b) => a = b
    /\ \A f, a : File(f) # Dir(a)
BY DEF File, Dir, Handles

\* close() frees the descriptor; the entry goes unless an error is reported.
LEMMA HandleCloseFileSafe ==
    ASSUME Inv, NEW fd \in Fds, HandleCloseFile(fd)
    PROVE  Safe
<1>1. PICK o \in CloseFile(fd) :
          /\ reply' = Reply(o.ret) /\ fds' = o.fds /\ rfsDescriptors' = o.table
          /\ told' = IF o.ret = 0 THEN told \ {File(fd)} ELSE told
          /\ closeFailed' = (closeFailed \/ (o.ret = Error /\ o.fds # fds))
  BY DEF HandleCloseFile
<1>2. UNCHANGED << dirs, rfsDirectories, tree >>
  BY DEF HandleCloseFile
<1>3. closeFailed' \in BOOLEAN /\ misused' \in BOOLEAN
  BY <1>1, Zenon DEF HandleCloseFile
<1>4. /\ ~closeFailed' => ~closeFailed
      /\ o.ret = Error /\ o.fds # fds => closeFailed'
  BY <1>1, Zenon
<1>5. ~closeFailed => ~misused /\ (fd \in rfsDescriptors => fds[fd] = "modem")
  BY DEF Inv, TableInv
<1>6. ~closeFailed => ~misused'
  <2>1. ~closeFailed => ~misused /\ (fd \in rfsDescriptors => fds[fd] # "rild")
    BY <1>5
  <2> QED BY <2>1, Zenon DEF HandleCloseFile
<1>7. \/ o.ret = Error /\ o.fds = fds /\ o.table = rfsDescriptors
      \/ /\ fd \in rfsDescriptors /\ fds[fd] # "free" /\ o.fds = [fds EXCEPT ![fd] = "free"]
         /\ \/ o.ret = 0 /\ o.table = rfsDescriptors \ {fd}
            \/ o.ret = Error /\ o.table = rfsDescriptors
  BY <1>1 DEF CloseFile, Error
<1>8. PlainReply
  BY <1>1, <1>7, ReplyValue DEF PlainReply, Error
<1>9. tree' \in Trees /\ changed' = {} /\ LosesNothing
  BY <1>2, KeepsReflexive, KeepingLosesNothing DEF HandleCloseFile, Inv, TypeOK, Trees
<1>10. /\ fds' \in [Fds -> {"free", "modem", "rild"}]
       /\ rfsDescriptors' \subseteq Fds
       /\ told' \subseteq Handles
  BY <1>1, <1>7 DEF Inv, TypeOK
<1>11. ASSUME ~closeFailed'
       PROVE  TableInv'
  <2>1. ~closeFailed /\ TableInv /\ ~misused'
    BY <1>4, <1>6, <1>11 DEF Inv
  <2>2. CASE o.ret = Error /\ o.fds = fds /\ o.table = rfsDescriptors
    BY <1>1, <1>2, <2>1, <2>2 DEF TableInv, Error
  <2>3. CASE /\ fd \in rfsDescriptors /\ fds[fd] # "free" /\ o.fds = [fds EXCEPT ![fd] = "free"]
             /\ o.ret = 0 /\ o.table = rfsDescriptors \ {fd}
    <3>1. /\ fds' = [fds EXCEPT ![fd] = "free"] /\ rfsDescriptors' = rfsDescriptors \ {fd}
          /\ told' = told \ {File(fd)}
      BY <1>1, <2>3
    <3>2. rfsDescriptors' = {f \in Fds : File(f) \in told'}
      BY <2>1, <3>1, HandleKinds DEF TableInv
    <3>3. \A a \in Addresses : Dir(a) \in told' <=> Dir(a) \in told
      BY <3>1, HandleKinds
    <3>4. fds \in [Fds -> {"free", "modem", "rild"}] /\ rfsDescriptors \subseteq Fds
      BY DEF Inv, TypeOK
    <3>5. \A f \in rfsDescriptors' : fds'[f] = "modem" /\ \A a \in Addresses : dirs'[a] # f
      BY <1>2, <2>1, <3>1, <3>4 DEF TableInv
    <3>6. \A a \in rfsDirectories' : dirs'[a] \in Fds /\ fds'[dirs'[a]] = "modem"
      <4>1. ASSUME NEW a \in rfsDirectories
            PROVE  dirs[a] \in Fds /\ fds'[dirs[a]] = "modem"
        <5>1. dirs[a] \in Fds /\ dirs[a] # fd /\ fds[dirs[a]] = "modem"
          BY <2>1, <2>3 DEF TableInv, Inv, TypeOK
        <5> QED BY <3>1, <3>4, <5>1
      <4> QED BY <1>2, <4>1
    <3> QED BY <1>2, <2>1, <3>2, <3>3, <3>5, <3>6 DEF TableInv
  <2>4. CASE o.ret = Error /\ fd \in rfsDescriptors /\ fds[fd] # "free"
             /\ o.fds = [fds EXCEPT ![fd] = "free"]
    <3>1. o.fds # fds
      BY <2>4 DEF Inv, TypeOK
    <3> QED BY <1>4, <1>11, <2>4, <3>1
  <2> QED BY <1>7, <2>2, <2>3, <2>4
<1> QED BY <1>2, <1>3, <1>8, <1>9, <1>10, <1>11, TableStep DEF Inv, TypeOK

\* closedir() frees the DIR and its descriptor, which no other DIR has.
LEMMA HandleCloseDirectorySafe ==
    ASSUME Inv, NEW a \in Addresses, HandleCloseDirectory(a)
    PROVE  Safe
<1>1. PICK o \in CloseDirectory(a) :
          /\ reply' = Reply(o.ret) /\ fds' = o.fds /\ dirs' = o.dirs /\ rfsDirectories' = o.table
          /\ told' = IF o.ret = 0 THEN told \ {Dir(a)} ELSE told
          /\ closeFailed' = (closeFailed \/ (o.ret = Error /\ o.dirs # dirs))
  BY DEF HandleCloseDirectory
<1>2. UNCHANGED << rfsDescriptors, tree >>
  BY DEF HandleCloseDirectory
<1>3. closeFailed' \in BOOLEAN /\ misused' \in BOOLEAN
  BY <1>1, Zenon DEF HandleCloseDirectory
<1>4. /\ ~closeFailed' => ~closeFailed
      /\ o.ret = Error /\ o.dirs # dirs => closeFailed'
  BY <1>1, Zenon
<1>5. ~closeFailed => ~misused /\ (a \in rfsDirectories => dirs[a] # NoFd)
  BY DEF Inv, TableInv, Fds, NoFd
<1>6. ~closeFailed => ~misused'
  BY <1>5, Zenon DEF HandleCloseDirectory
<1>7. \/ o.ret = Error /\ o.fds = fds /\ o.dirs = dirs /\ o.table = rfsDirectories
      \/ /\ a \in rfsDirectories /\ dirs[a] # NoFd
         /\ o.fds = [fds EXCEPT ![dirs[a]] = "free"] /\ o.dirs = [dirs EXCEPT ![a] = NoFd]
         /\ \/ o.ret = 0 /\ o.table = rfsDirectories \ {a}
            \/ o.ret = Error /\ o.table = rfsDirectories
  BY <1>1 DEF CloseDirectory, Error
<1>8. PlainReply
  BY <1>1, <1>7, ReplyValue DEF PlainReply, Error
<1>9. /\ fds \in [Fds -> {"free", "modem", "rild"}]
      /\ dirs \in [Addresses -> Fds \cup {NoFd}] /\ rfsDirectories \subseteq Addresses
      /\ rfsDescriptors \subseteq Fds /\ NoFd \notin Fds
  BY DEF Inv, TypeOK, NoFd, Fds
<1>10. /\ fds' \in [Fds -> {"free", "modem", "rild"}]
       /\ dirs' \in [Addresses -> Fds \cup {NoFd}]
       /\ rfsDirectories' \subseteq Addresses
  BY <1>1, <1>7, <1>9
<1>11. told' \subseteq Handles
  BY <1>1 DEF Inv, TypeOK
<1>12. ASSUME ~closeFailed'
       PROVE  TableInv'
  <2>1. ~closeFailed /\ TableInv /\ ~misused'
    BY <1>4, <1>6, <1>12 DEF Inv
  <2>2. CASE o.ret = Error /\ o.fds = fds /\ o.dirs = dirs /\ o.table = rfsDirectories
    BY <1>1, <1>2, <2>1, <2>2 DEF TableInv, Error
  <2>3. CASE /\ a \in rfsDirectories /\ dirs[a] # NoFd
             /\ o.fds = [fds EXCEPT ![dirs[a]] = "free"] /\ o.dirs = [dirs EXCEPT ![a] = NoFd]
             /\ o.ret = 0 /\ o.table = rfsDirectories \ {a}
    <3>1. /\ fds' = [fds EXCEPT ![dirs[a]] = "free"] /\ dirs' = [dirs EXCEPT ![a] = NoFd]
          /\ rfsDirectories' = rfsDirectories \ {a} /\ told' = told \ {Dir(a)}
      BY <1>1, <2>3
    <3>2. \A f \in Fds : File(f) \in told' <=> File(f) \in told
      BY <3>1, HandleKinds
    <3>3. \A b \in Addresses : Dir(b) \in told' <=> b \in rfsDirectories' /\ b >= 0
      BY <2>1, <3>1, HandleKinds DEF TableInv
    <3>4. ASSUME NEW f \in rfsDescriptors
          PROVE  fds'[f] = "modem" /\ \A b \in Addresses : dirs'[b] # f
      <4>1. f \in Fds /\ f # dirs[a] /\ fds[f] = "modem" /\ \A b \in Addresses : dirs[b] # f
        BY <1>9, <2>1 DEF TableInv
      <4> QED BY <1>9, <3>1, <4>1
    <3>5. ASSUME NEW b \in rfsDirectories'
          PROVE  dirs'[b] = dirs[b] /\ dirs[b] \in Fds /\ fds'[dirs[b]] = "modem"
      <4>1. b \in rfsDirectories /\ b # a
        BY <3>1
      <4>2. dirs[b] \in Fds /\ dirs[b] # dirs[a] /\ fds[dirs[b]] = "modem"
        BY <2>1, <2>3, <4>1 DEF TableInv
      <4> QED BY <1>9, <3>1, <4>1, <4>2
    <3>6. \A b \in Addresses : b \notin rfsDirectories' => dirs'[b] = NoFd
      BY <1>9, <2>1, <3>1 DEF TableInv
    <3>7. \A b, c \in rfsDirectories' : dirs'[b] = dirs'[c] => b = c
      BY <2>1, <3>1, <3>5 DEF TableInv
    <3> QED BY <1>2, <2>1, <3>2, <3>3, <3>4, <3>5, <3>6, <3>7 DEF TableInv
  <2>4. CASE o.ret = Error /\ a \in rfsDirectories /\ dirs[a] # NoFd
             /\ o.dirs = [dirs EXCEPT ![a] = NoFd]
    <3>1. o.dirs # dirs
      BY <1>9, <2>4
    <3> QED BY <1>4, <1>12, <2>4, <3>1
  <2> QED BY <1>7, <2>2, <2>3, <2>4
<1>13. tree' \in Trees /\ changed' = {} /\ LosesNothing
  BY <1>2, KeepsReflexive, KeepingLosesNothing DEF HandleCloseDirectory, Inv, TypeOK, Trees
<1> QED BY <1>2, <1>3, <1>8, <1>9, <1>10, <1>11, <1>12, <1>13, TableStep

\* The new descriptor was free: it is in no table and no DIR holds it.
LEMMA FreeIsNew ==
    ASSUME TypeOK, TableInv, NEW fd \in Fds, fds[fd] = "free"
    PROVE  fd \notin rfsDescriptors /\ \A a \in Addresses : dirs[a] # fd
BY DEF TypeOK, TableInv, NoFd, Fds

LEMMA HandleOpenFileSafe ==
    ASSUME Inv, NEW name \in Names, NEW flags \in Flags, HandleOpenFile(name, flags)
    PROVE  Safe
<1>1. PICK o \in OpenFile(name, flags) :
          /\ tree' = o.tree /\ changed' = o.emptied /\ reply' = Reply(o.fd)
          /\ \/ /\ o.fd = Error
                /\ UNCHANGED << fds, rfsDescriptors, told >>
             \/ /\ o.fd # Error
                /\ fds' = [fds EXCEPT ![o.fd] = "modem"]
                /\ rfsDescriptors' = rfsDescriptors \cup {o.fd}
                /\ told' = told \cup {File(o.fd)}
          /\ UNCHANGED << dirs, rfsDirectories, closeFailed, misused >>
  BY DEF HandleOpenFile
<1>2. TypeOK /\ (~closeFailed => TableInv)
  BY DEF Inv
<1>3. /\ o.tree \in Trees /\ o.emptied \subseteq Paths
      /\ o.fd = Error => Keeps(tree, o.tree) /\ o.emptied = {}
      /\ o.fd # Error => o.fd \in Fds /\ fds[o.fd] = "free"
  BY <1>1, <1>2, OpenFileKeeps
<1>4. PlainReply /\ (reply'.ret = Error => LosesNothing)
  <2>1. PlainReply /\ (reply'.ret = Error => o.fd = Error)
    BY <1>1, <1>3, ReplyValue DEF PlainReply, Error, Fds
  <2> QED BY <1>1, <1>3, <2>1, KeepingLosesNothing
<1>5. CASE o.fd = Error
  <2>1. UNCHANGED << fds, rfsDescriptors, told, dirs, rfsDirectories, closeFailed, misused >>
    BY <1>1, <1>5
  <2>2. ~closeFailed' => TableInv'
    BY <1>2, <2>1 DEF TableInv
  <2> QED BY <1>1, <1>2, <1>3, <1>4, <2>1, <2>2, TableStep DEF TypeOK
<1>6. CASE o.fd # Error
  <2>1. PICK fd \in Fds : fd = o.fd /\ fds[fd] = "free"
    BY <1>3, <1>6
  <2>2. /\ fds' = [fds EXCEPT ![fd] = "modem"] /\ rfsDescriptors' = rfsDescriptors \cup {fd}
        /\ told' = told \cup {File(fd)}
        /\ UNCHANGED << dirs, rfsDirectories, closeFailed, misused >>
    BY <1>1, <1>6, <2>1
  <2>3. /\ fds' \in [Fds -> {"free", "modem", "rild"}]
        /\ rfsDescriptors' \subseteq Fds
        /\ told' \subseteq Handles
    BY <1>2, <2>2, HandleKinds DEF TypeOK
  <2>4. ASSUME ~closeFailed
        PROVE  TableInv'
    <3>1. TableInv /\ fd \notin rfsDescriptors /\ \A a \in Addresses : dirs[a] # fd
      BY <1>2, <2>1, <2>4, FreeIsNew
    <3>2. rfsDescriptors' = {f \in Fds : File(f) \in told'}
      BY <2>2, <3>1, HandleKinds DEF TableInv
    <3>3. \A a \in Addresses : Dir(a) \in told' <=> Dir(a) \in told
      BY <2>2, HandleKinds
    <3>4. \A f \in rfsDescriptors' : fds'[f] = "modem" /\ \A a \in Addresses : dirs'[a] # f
      BY <1>2, <2>2, <3>1 DEF TableInv, TypeOK
    <3>5. \A a \in rfsDirectories' : dirs'[a] \in Fds /\ fds'[dirs'[a]] = "modem"
      BY <1>2, <2>2, <3>1 DEF TableInv, TypeOK
    <3> QED BY <2>2, <3>1, <3>2, <3>3, <3>4, <3>5 DEF TableInv
  <2> QED BY <1>1, <1>2, <1>3, <1>4, <2>2, <2>3, <2>4, TableStep DEF TypeOK
<1> QED BY <1>5, <1>6

\* handlePutFile, handleGetFile and handleGetFileInfo leave no descriptor open
\* and no entry in the table, unless close() fails.
LEMMA TransferFileSafe ==
    ASSUME Inv, NEW name \in Names, NEW flags \in Flags, TransferFile(name, flags),
           flags # O_RDONLY => HandlePutFile(name, flags)
    PROVE  Safe
<1>1. PICK o \in OpenFile(name, flags) :
          /\ tree' = o.tree
          /\ \/ /\ o.fd = Error
                /\ reply' = Reply(Error)
                /\ changed' = {}
                /\ UNCHANGED << rfsDescriptors, closeFailed >>
             \/ /\ o.fd # Error
                /\ \/ reply' = Reply(Error) /\ changed' = o.emptied
                   \/ /\ reply' = Reply(0)
                      /\ changed' = {p \in Paths : p = name /\ flags # O_RDONLY}
                /\ rfsDescriptors' \in {rfsDescriptors \ {o.fd}, rfsDescriptors \cup {o.fd}}
                /\ closeFailed' = (closeFailed \/ o.fd \in rfsDescriptors')
          /\ UNCHANGED << fds, dirs, rfsDirectories, told, misused >>
  BY DEF TransferFile
<1>2. TypeOK /\ (~closeFailed => TableInv)
  BY DEF Inv
<1>3. /\ o.tree \in Trees /\ o.emptied \subseteq Paths
      /\ o.fd = Error => Keeps(tree, o.tree) /\ o.emptied = {}
      /\ o.fd # Error =>
            /\ o.fd \in Fds /\ fds[o.fd] = "free"
            /\ \A p \in Paths : \/ KeepsAt(tree, o.tree, p) /\ p \notin o.emptied
                                \/ p = name /\ o.tree[p] = "file" /\ flags # O_RDONLY
  BY <1>1, <1>2, OpenFileKeeps
<1>4. PlainReply /\ changed' \subseteq Paths
  BY <1>1, <1>3, ReplyValue DEF PlainReply, Error
<1>5. closeFailed' \in BOOLEAN
  <2>1. closeFailed' \in {closeFailed, TRUE, FALSE}
    BY <1>1, Zenon
  <2> QED BY <1>2, <2>1, Zenon DEF TypeOK
<1>6. rfsDescriptors' \subseteq Fds
  BY <1>1, <1>2, <1>3 DEF TypeOK
<1>7. ASSUME ~closeFailed'
      PROVE  TableInv'
  <2>1. ~closeFailed /\ (o.fd # Error => o.fd \notin rfsDescriptors')
    <3>1. CASE o.fd = Error
      BY <1>1, <1>7, <3>1
    <3>2. CASE o.fd # Error
      <4>1. closeFailed' = (closeFailed \/ o.fd \in rfsDescriptors')
        BY <1>1, <3>2
      <4> QED BY <1>7, <4>1, Zenon
    <3> QED BY <3>1, <3>2
  <2>2. TableInv /\ (o.fd # Error => o.fd \notin rfsDescriptors)
    BY <1>2, <1>3, <2>1, FreeIsNew
  <2>3. rfsDescriptors' = rfsDescriptors
    BY <1>1, <2>1, <2>2
  <2> QED BY <1>1, <2>2, <2>3 DEF TableInv
<1>8. ASSUME reply'.ret = Error
      PROVE  LosesNothing
  <2>1. CASE o.fd = Error
    BY <1>1, <1>3, <2>1, KeepingLosesNothing
  <2>2. CASE o.fd # Error
    <3>1. reply' # Reply(0)
      BY <1>8 DEF Reply, Error
    <3>2. changed' = o.emptied /\ tree' = o.tree
      BY <1>1, <2>2, <3>1
    <3> QED BY <1>3, <2>2, <3>2 DEF LosesNothing
  <2> QED BY <2>1, <2>2
<1> QED BY <1>1, <1>2, <1>3, <1>4, <1>5, <1>6, <1>7, <1>8, TableStep DEF TypeOK

LEMMA HandleOpenDirectorySafe ==
    ASSUME Inv, NEW name \in Names, HandleOpenDirectory(name)
    PROVE  Safe
<1>1. PICK o \in OpenDirectory(name) :
          /\ reply' = Reply(o.ret) /\ tree' = o.tree /\ fds' = o.fds /\ dirs' = o.dirs
          /\ rfsDirectories' = rfsDirectories \cup {a \in {o.ret} : o.dirs # dirs}
          /\ told' = told \cup {Dir(a) : a \in {b \in {o.ret} : o.dirs # dirs /\ b >= 0}}
  BY DEF HandleOpenDirectory
<1>2. UNCHANGED << rfsDescriptors, closeFailed, misused >>
  BY DEF HandleOpenDirectory
<1>3. TypeOK /\ (~closeFailed => TableInv)
  BY DEF Inv
<1>4. /\ o.tree \in Trees /\ Keeps(tree, o.tree)
      /\ \/ o.ret = Error /\ o.fds = fds /\ o.dirs = dirs
         \/ \E fd \in Fds, a \in Addresses :
               /\ fds[fd] = "free" /\ dirs[a] = NoFd /\ o.ret = a
               /\ o.fds = [fds EXCEPT ![fd] = "modem"]
               /\ o.dirs = [dirs EXCEPT ![a] = fd]
  BY <1>3, OpenDirectoryKeeps
<1>5. PlainReply
  <2>1. Addresses \subseteq Int /\ Error \in Int
    BY ConstantsAssumption DEF Error
  <2>2. o.ret \in Int
    BY <1>4, <2>1
  <2>3. reply' = Reply(o.ret)
    BY <1>1
  <2> QED BY <2>2, <2>3, ReplyValue DEF PlainReply
<1>6. tree' \in Trees /\ changed' = {} /\ LosesNothing
  BY <1>1, <1>4, KeepingLosesNothing DEF HandleOpenDirectory
<1>7. CASE o.fds = fds /\ o.dirs = dirs
  <2>1. UNCHANGED << fds, dirs, rfsDirectories, told >>
    BY <1>1, <1>7
  <2>2. ~closeFailed' => TableInv'
    BY <1>2, <1>3, <2>1 DEF TableInv
  <2> QED BY <1>1, <1>2, <1>3, <1>5, <1>6, <2>1, <2>2, TableStep DEF TypeOK
<1>8. CASE \E fd \in Fds, a \in Addresses :
               /\ fds[fd] = "free" /\ dirs[a] = NoFd /\ o.ret = a
               /\ o.fds = [fds EXCEPT ![fd] = "modem"]
               /\ o.dirs = [dirs EXCEPT ![a] = fd]
  <2>1. PICK fd \in Fds, a \in Addresses :
               /\ fds[fd] = "free" /\ dirs[a] = NoFd /\ o.ret = a
               /\ o.fds = [fds EXCEPT ![fd] = "modem"]
               /\ o.dirs = [dirs EXCEPT ![a] = fd]
    BY <1>8
  <2>2. /\ fds \in [Fds -> {"free", "modem", "rild"}] /\ dirs \in [Addresses -> Fds \cup {NoFd}]
        /\ rfsDirectories \subseteq Addresses /\ NoFd \notin Fds
    BY <1>3 DEF TypeOK, Fds, NoFd
  <2>3. o.dirs # dirs
    BY <2>1, <2>2
  <2>4. /\ fds' = [fds EXCEPT ![fd] = "modem"] /\ dirs' = [dirs EXCEPT ![a] = fd]
        /\ rfsDirectories' = rfsDirectories \cup {a}
        /\ told' = IF a >= 0 THEN told \cup {Dir(a)} ELSE told
    BY <1>1, <2>1, <2>3
  <2>5. /\ fds' \in [Fds -> {"free", "modem", "rild"}]
        /\ dirs' \in [Addresses -> Fds \cup {NoFd}]
        /\ rfsDirectories' \subseteq Addresses
    BY <2>2, <2>4
  <2>6. told' \subseteq Handles
    BY <1>3, <2>4, HandleKinds DEF TypeOK
  <2>7. ASSUME ~closeFailed
        PROVE  TableInv'
    <3>1. TableInv /\ fd \notin rfsDescriptors /\ \A b \in Addresses : dirs[b] # fd
      BY <1>3, <2>1, <2>7, FreeIsNew
    <3>2. a \notin rfsDirectories
      BY <2>1, <2>2, <3>1 DEF TableInv
    <3>3. \A f \in Fds : File(f) \in told' <=> File(f) \in told
      BY <2>4, HandleKinds
    <3>4. \A b \in Addresses : Dir(b) \in told' <=> b \in rfsDirectories' /\ b >= 0
      BY <2>4, <3>1, HandleKinds DEF TableInv
    <3>5. \A f \in rfsDescriptors : fds'[f] = "modem" /\ \A b \in Addresses : dirs'[b] # f
      BY <1>3, <2>2, <2>4, <3>1 DEF TableInv, TypeOK
    <3>6. ASSUME NEW b \in rfsDirectories'
          PROVE  /\ dirs'[b] \in Fds /\ fds'[dirs'[b]] = "modem"
                 /\ b # a => b \in rfsDirectories /\ dirs'[b] = dirs[b] /\ dirs[b] # fd
      BY <2>2, <2>4, <3>1 DEF TableInv
    <3>7. \A b \in Addresses : b \notin rfsDirectories' => dirs'[b] = NoFd
      BY <2>2, <2>4, <3>1 DEF TableInv
    <3>8. dirs'[a] = fd
      BY <2>2, <2>4
    <3>9. \A b, c \in rfsDirectories' : dirs'[b] = dirs'[c] => b = c
      BY <3>1, <3>6, <3>8 DEF TableInv
    <3> QED BY <1>2, <3>1, <3>3, <3>4, <3>5, <3>6, <3>7, <3>9 DEF TableInv
  <2> QED BY <1>1, <1>2, <1>3, <1>5, <1>6, <2>5, <2>6, <2>7, TableStep DEF TypeOK
<1> QED BY <1>4, <1>7, <1>8

\* The other threads of rild take free descriptors and close their own.
LEMMA RildSafe ==
    ASSUME Inv, RildOpens \/ \E fd \in Fds : RildCloses(fd)
    PROVE  Safe
<1>1. PICK fd \in Fds : /\ fds[fd] \in {"free", "rild"}
                        /\ \E x \in {"free", "rild"} : fds' = [fds EXCEPT ![fd] = x]
  BY DEF RildOpens, RildCloses, FreeFd
<1>2. UNCHANGED << dirs, rfsDescriptors, rfsDirectories, tree, reply, told, closeFailed,
                   misused >>
  BY DEF RildOpens, RildCloses
<1>3. fds \in [Fds -> {"free", "modem", "rild"}]
  BY DEF Inv, TypeOK
<1>4. TypeOK' /\ changed' = {}
  BY <1>1, <1>2, <1>3 DEF Inv, TypeOK, RildOpens, RildCloses
<1>5. ~closeFailed => TableInv'
  BY <1>1, <1>2, <1>3 DEF Inv, TypeOK, TableInv
<1>6. NVInBounds' /\ LosesNothing
  BY <1>2, <1>4, KeepingLosesNothing DEF Inv, NVInBounds, Keeps, KeepsAt
<1> QED BY <1>2, <1>4, <1>5, <1>6 DEF Safe, Inv

-----------------------------------------------------------------------------
LEMMA InitInv == Init => Inv
<1> SUFFICES ASSUME Init PROVE Inv
  OBVIOUS
<1>1. reply.ret = 0 /\ reply.offset = 0 /\ reply.length = 0
  BY DEF Init, Reply
<1>2. closeFailed \in BOOLEAN /\ misused \in BOOLEAN /\ ~misused
  BY Zenon DEF Init
<1>3. TypeOK
  BY <1>1, <1>2 DEF Init, TypeOK
<1>4. NVInBounds
  BY <1>1, ConstantsAssumption DEF NVInBounds
<1>5. TableInv
  BY <1>2 DEF Init, TableInv
<1> QED BY <1>3, <1>4, <1>5 DEF Inv

LEMMA StepSafe ==
    ASSUME Inv, Next
    PROVE  Safe
<1>1. ASSUME NEW fd \in Fds,
             \/ HandleReadFile(fd) \/ HandleWriteFile(fd) \/ HandleLseekFile(fd)
             \/ HandleFtruncateFile(fd) \/ HandleGetFileInfoByHandle(fd)
             \/ HandleCloseFile(fd) \/ RildCloses(fd)
      PROVE  Safe
  BY <1>1, UseFileSafe, HandleCloseFileSafe, RildSafe
  DEF HandleReadFile, HandleWriteFile, HandleLseekFile, HandleFtruncateFile,
      HandleGetFileInfoByHandle
<1>2. ASSUME NEW a \in Addresses, HandleReadDirectory(a) \/ HandleCloseDirectory(a)
      PROVE  Safe
  BY <1>2, HandleReadDirectorySafe, HandleCloseDirectorySafe
<1>3. ASSUME NEW name \in Names, NEW flags \in Flags,
             HandleOpenFile(name, flags) \/ HandlePutFile(name, flags)
      PROVE  Safe
  BY <1>3, HandleOpenFileSafe, TransferFileSafe DEF HandlePutFile
<1>4. ASSUME NEW name \in Names,
             HandleGetFile(name) \/ HandleGetFileInfo(name) \/ HandleOpenDirectory(name)
      PROVE  Safe
  <2>1. O_RDONLY \in Flags
    BY DEF Flags, O_RDONLY
  <2>2. CASE HandleOpenDirectory(name)
    BY <2>2, HandleOpenDirectorySafe
  <2>3. CASE TransferFile(name, O_RDONLY)
    BY <2>1, <2>3, TransferFileSafe
  <2> QED BY <1>4, <2>2, <2>3 DEF HandleGetFile, HandleGetFileInfo
<1>5. ASSUME NEW name \in Names,
             HandleDeleteFile(name) \/ HandleMakeDirectory(name) \/ HandleDeleteDirectory(name)
      PROVE  Safe
  <2>1. TypeOK
    BY DEF Inv
  <2> QED BY <1>5, <2>1, DeleteFileSound, MakeDirectorySound, DeleteDirectorySound,
             RearrangeSafe
          DEF HandleDeleteFile, HandleMakeDirectory, HandleDeleteDirectory
<1>6. ASSUME NEW old \in Names, NEW new \in Names, HandleRenameFile(old, new)
      PROVE  Safe
  <2>1. TypeOK
    BY DEF Inv
  <2> QED BY <1>6, <2>1, RenameFileSound, RearrangeSafe DEF HandleRenameFile
<1>7. ASSUME NEW offset \in Offsets, NEW size \in NVLengths,
             \/ HandleNvRead(offset, size) \/ HandleNvWrite(offset, size)
             \/ HandleNvWriteAll(offset, size)
      PROVE  Safe
  <2>1. /\ size \in 0 .. Half - 1
        /\ (IF size < NVReadMax THEN size ELSE NVReadMax) \in 0 .. Half - 1
    BY ConstantsAssumption
  <2> QED BY <1>7, <2>1, AccessNVSafe DEF HandleNvRead, HandleNvWrite, HandleNvWriteAll
<1>8. CASE HandleUnknown
  <2>1. PlainReply /\ tree \in Trees /\ tree' = tree /\ changed' = {} /\ UNCHANGED tables
    BY <1>8, ReplyValue DEF HandleUnknown, PlainReply, Inv, TypeOK, Trees
  <2> QED BY <2>1, TreeStep, KeepsReflexive
<1>9. CASE RildOpens
  BY <1>9, RildSafe
<1> QED BY <1>1, <1>2, <1>3, <1>4, <1>5, <1>6, <1>7, <1>8, <1>9 DEF Next

LEMMA StutterInv ==
    ASSUME Inv, UNCHANGED vars
    PROVE  Inv'
BY DEF vars, Inv, TypeOK, TableInv, NVInBounds

\* The invariant holds in every behaviour of the handler and the rest of rild.
THEOREM Invariance == Spec => []Inv
<1>1. Inv /\ [Next]_vars => Inv'
  BY StepSafe, StutterInv DEF Safe
<1> QED BY InitInv, <1>1, PTL DEF Spec

\* The variables have their types, whichever system call fails.
THEOREM TypeCorrect == Spec => []TypeOK
<1>1. Inv => TypeOK
  BY DEF Inv
<1> QED BY <1>1, Invariance, PTL

\* No request reaches a file that another part of rild has open, or a freed
\* DIR, as long as close() and closedir() succeed.
THEOREM HandlesAreOwn == Spec => []OnlyOwnHandles
<1>1. Inv => OnlyOwnHandles
  BY DEF Inv, TableInv, OnlyOwnHandles
<1> QED BY <1>1, Invariance, PTL

\* m_rfsDescriptors and m_rfsDirectories are what the replies have told the
\* modem, and each entry is open: no request leaks a descriptor.
THEOREM TablesAreTold == Spec => []TablesMatchReplies
<1>1. Inv => TablesMatchReplies
  <2> SUFFICES ASSUME Inv, ~closeFailed PROVE TablesMatchReplies
    BY DEF TablesMatchReplies
  <2>1. TableInv /\ rfsDirectories \subseteq Addresses
    BY DEF Inv, TypeOK
  <2>2. {a \in rfsDirectories : a >= 0} = {a \in Addresses : Dir(a) \in told}
    BY <2>1 DEF TableInv
  <2> QED BY <2>1, <2>2 DEF TableInv, TablesMatchReplies
<1> QED BY <1>1, Invariance, PTL

\* readNVData and writeNVData stay inside nv_data.bin, although the comparison
\* is made on a sum that may wrap around, for accesses of any length up to half
\* the range of the sum, those longer than the file included.
THEOREM NVAccessInBounds == Spec => []NVInBounds
<1>1. Inv => NVInBounds
  BY DEF Inv
<1> QED BY <1>1, Invariance, PTL

\* A request that is answered with an error has removed nothing, and changed the
\* contents of no file but the one that a put names; it may have made
\* directories.
THEOREM FailuresLoseNothing == Spec => FailureLosesNothing
<1> DEFINE A == reply'.ret = Error =>
                    \A p \in Paths :
                        \/ tree'[p] = tree[p] /\ p \notin changed'
                        \/ tree[p] = "none" /\ tree'[p] = "dir"
                        \/ tree'[p] = "file" /\ \E flags \in Flags : HandlePutFile(p, flags)
<1>1. Inv /\ [Next]_vars => [A]_vars
  BY StepSafe DEF Safe, LosesNothing, KeepsAt
<1> QED BY <1>1, Invariance, PTL DEF Spec, FailureLosesNothing
-----------------------------------------------------------------------------
(* NV data: what a program of file operations will do.                     *)

Kinds == {"missing", "torn", "0", "1", "full", "core", "digest", "core digest"}
Contents == [kind : Kinds, image : Images]
Instructions == [op : {"put", "sync"}, file : Files, content : Contents]

\* The files of either backup.
PrimaryFiles == {".nv_data.bak", ".nv_data.bak.md5"}
CoreFiles    == {".nv_core.bak", ".nv_core.bak.md5"}

\* Instruction i writes to one of the files F.
PutTo(i, F) == i.op = "put" /\ i.file \in F

\* Nothing in s writes to one of F.
NoPut(s, F) == \A i \in 1 .. Len(s) : ~PutTo(s[i], F)

\* The last thing that s writes to f is c.
Ends(s, f, c) ==
    \E i \in 1 .. Len(s) :
        s[i] = Put(f, c) /\ \A k \in i + 1 .. Len(s) : ~PutTo(s[k], {f})

\* What s writes to any of F is blank.
BlankPuts(s, F) ==
    \A i \in 1 .. Len(s) : PutTo(s[i], F) => s[i].content.image.core = DefaultValue

\* A content of a kind that programs write to f: they neither remove files
\* nor switch digests off.
Fits(c, f) == c \in Contents /\ c.kind \in KindsOf(f) \ {"missing", "0"}

\* What s writes fits its files.
KindlyPuts(s) == \A i \in 1 .. Len(s) : s[i].op = "put" => Fits(s[i].content, s[i].file)

IsDigest(c) == c.kind \in {"digest", "core digest"}
DigestPut(i) == PutTo(i, {".nv_data.bak.md5"}) /\ IsDigest(i.content)

\* At position j of s the primary backup is synced for the last time.
SyncedAt(s, j) ==
    /\ s[j] = Sync(".nv_data.bak")
    /\ \A k \in j + 1 .. Len(s) : ~PutTo(s[k], {".nv_data.bak"})

\* The digest of the primary backup is the last part of it that s writes, and
\* is written only when the backup itself is synced.
Ordered(s) ==
    \A i \in 1 .. Len(s) :
        DigestPut(s[i]) =>
            /\ \A k \in i + 1 .. Len(s) : ~PutTo(s[k], PrimaryFiles)
            /\ \E j \in 1 .. i - 1 : SyncedAt(s, j)

\* The empty program.
LEMMA EmptyProgram ==
    ASSUME NEW F
    PROVE  /\ << >> \in Seq(Instructions) /\ NoPut(<< >>, F) /\ BlankPuts(<< >>, F)
           /\ KindlyPuts(<< >>) /\ Ordered(<< >>)
BY DEF NoPut, BlankPuts, KindlyPuts, Ordered

\* A concatenation, position by position.
LEMMA Concat ==
    ASSUME NEW s \in Seq(Instructions), NEW t \in Seq(Instructions)
    PROVE  /\ s \o t \in Seq(Instructions)
           /\ Len(s) \in Nat /\ Len(t) \in Nat
           /\ Len(s \o t) = Len(s) + Len(t)
           /\ \A i \in 1 .. Len(s) : (s \o t)[i] = s[i]
           /\ \A i \in 1 .. Len(t) : (s \o t)[Len(s) + i] = t[i]
           /\ \A i \in Len(s) + 1 .. Len(s) + Len(t) : 
                (s \o t)[i] = t[i - Len(s)] /\ i - Len(s) \in 1 .. Len(t)
<1>1. Len(s) \in Nat /\ Len(t) \in Nat
  BY LenProperties, Zenon
<1>2. /\ s \o t \in Seq(Instructions)
      /\ Len(s \o t) = Len(s) + Len(t)
      /\ \A i \in 1 .. Len(s) + Len(t) :
            (s \o t)[i] = IF i <= Len(s) THEN s[i] ELSE t[i - Len(s)]
  BY ConcatProperties, Zenon
<1> QED
  BY <1>1, <1>2

LEMMA ConcatNoPut ==
    ASSUME NEW s \in Seq(Instructions), NEW t \in Seq(Instructions), NEW F,
           NoPut(s, F), NoPut(t, F)
    PROVE  NoPut(s \o t, F)
<1> DEFINE st == s \o t
<1>1. /\ Len(st) = Len(s) + Len(t) /\ Len(s) \in Nat /\ Len(t) \in Nat
      /\ \A i \in 1 .. Len(s) : st[i] = s[i]
      /\ \A i \in Len(s) + 1 .. Len(s) + Len(t) : st[i] = t[i - Len(s)] /\ i - Len(s) \in 1 .. Len(t)
  BY Concat
<1> HIDE DEF st
<1>2. NoPut(st, F)
  BY <1>1 DEF NoPut
<1> QED
  BY <1>2 DEF st

LEMMA FewerNoPut ==
    ASSUME NEW s, NEW F, NEW G \in SUBSET F, NoPut(s, F)
    PROVE  NoPut(s, G)
BY DEF NoPut, PutTo

LEMMA ConcatBlankPuts ==
    ASSUME NEW s \in Seq(Instructions), NEW t \in Seq(Instructions), NEW F,
           BlankPuts(s, F), BlankPuts(t, F)
    PROVE  BlankPuts(s \o t, F)
<1> DEFINE st == s \o t
<1>1. /\ Len(st) = Len(s) + Len(t) /\ Len(s) \in Nat /\ Len(t) \in Nat
      /\ \A i \in 1 .. Len(s) : st[i] = s[i]
      /\ \A i \in Len(s) + 1 .. Len(s) + Len(t) : st[i] = t[i - Len(s)] /\ i - Len(s) \in 1 .. Len(t)
  BY Concat
<1> HIDE DEF st
<1>2. BlankPuts(st, F)
  BY <1>1 DEF BlankPuts
<1> QED
  BY <1>2 DEF st

LEMMA ConcatKindlyPuts ==
    ASSUME NEW s \in Seq(Instructions), NEW t \in Seq(Instructions),
           KindlyPuts(s), KindlyPuts(t)
    PROVE  KindlyPuts(s \o t)
<1> DEFINE st == s \o t
<1>1. /\ Len(st) = Len(s) + Len(t) /\ Len(s) \in Nat /\ Len(t) \in Nat
      /\ \A i \in 1 .. Len(s) : st[i] = s[i]
      /\ \A i \in Len(s) + 1 .. Len(s) + Len(t) : st[i] = t[i - Len(s)] /\ i - Len(s) \in 1 .. Len(t)
  BY Concat
<1> HIDE DEF st
<1>2. KindlyPuts(st)
  BY <1>1 DEF KindlyPuts
<1> QED
  BY <1>2 DEF st

LEMMA ConcatEnds ==
    ASSUME NEW s \in Seq(Instructions), NEW t \in Seq(Instructions), NEW f, NEW c,
           Ends(t, f, c) \/ (Ends(s, f, c) /\ NoPut(t, {f}))
    PROVE  Ends(s \o t, f, c)
<1> DEFINE st == s \o t
<1>1. /\ Len(st) = Len(s) + Len(t) /\ Len(s) \in Nat /\ Len(t) \in Nat
      /\ \A i \in 1 .. Len(s) : st[i] = s[i]
      /\ \A i \in 1 .. Len(t) : st[Len(s) + i] = t[i]
      /\ \A i \in Len(s) + 1 .. Len(s) + Len(t) : st[i] = t[i - Len(s)] /\ i - Len(s) \in 1 .. Len(t)
  BY Concat
<1> HIDE DEF st
<1>2. CASE Ends(t, f, c)
  <2>1. PICK i \in 1 .. Len(t) :
            t[i] = Put(f, c) /\ \A k \in i + 1 .. Len(t) : ~PutTo(t[k], {f})
    BY <1>2 DEF Ends
  <2>2. Len(s) + i \in 1 .. Len(st) /\ st[Len(s) + i] = Put(f, c)
    BY <1>1, <2>1
  <2>3. ASSUME NEW k \in (Len(s) + i) + 1 .. Len(st) PROVE ~PutTo(st[k], {f})
    <3>1. k - Len(s) \in i + 1 .. Len(t) /\ st[k] = t[k - Len(s)]
      BY <1>1
    <3> QED
      BY <2>1, <3>1
  <2> QED
    BY <2>2, <2>3 DEF Ends, st
<1>3. CASE Ends(s, f, c) /\ NoPut(t, {f})
  <2>1. PICK i \in 1 .. Len(s) :
            s[i] = Put(f, c) /\ \A k \in i + 1 .. Len(s) : ~PutTo(s[k], {f})
    BY <1>3 DEF Ends
  <2>2. i \in 1 .. Len(st) /\ st[i] = Put(f, c)
    BY <1>1, <2>1
  <2>3. ASSUME NEW k \in i + 1 .. Len(st) PROVE ~PutTo(st[k], {f})
    <3>1. CASE k <= Len(s)
      <4>1. k \in i + 1 .. Len(s) /\ k \in 1 .. Len(s)
        BY <1>1, <2>1, <3>1
      <4> QED
        BY <1>1, <2>1, <4>1
    <3>2. CASE k > Len(s)
      <4>1. k \in Len(s) + 1 .. Len(s) + Len(t)
        BY <1>1, <3>2
      <4> QED
        BY <1>1, <1>3, <4>1 DEF NoPut
    <3> QED
      BY <1>1, <3>1, <3>2
  <2> QED
    BY <2>2, <2>3 DEF Ends, st
<1> QED
  BY <1>2, <1>3

\* What comes before is of no account when it leaves the digest alone, and what
\* comes after when it leaves the backup alone.
LEMMA ConcatOrdered ==
    ASSUME NEW s \in Seq(Instructions), NEW t \in Seq(Instructions),
           \/ NoPut(s, PrimaryFiles) /\ Ordered(t)
           \/ Ordered(s) /\ NoPut(t, PrimaryFiles)
    PROVE  Ordered(s \o t)
<1> DEFINE st == s \o t
<1>1. /\ Len(st) = Len(s) + Len(t) /\ Len(s) \in Nat /\ Len(t) \in Nat
      /\ \A i \in 1 .. Len(s) : st[i] = s[i]
      /\ \A i \in 1 .. Len(t) : st[Len(s) + i] = t[i]
      /\ \A i \in Len(s) + 1 .. Len(s) + Len(t) : st[i] = t[i - Len(s)] /\ i - Len(s) \in 1 .. Len(t)
  BY Concat
<1> HIDE DEF st
<1>2. CASE NoPut(s, PrimaryFiles) /\ Ordered(t)
  <2> SUFFICES ASSUME NEW i \in 1 .. Len(st), DigestPut(st[i])
               PROVE  /\ \A k \in i + 1 .. Len(st) : ~PutTo(st[k], PrimaryFiles)
                      /\ \E j \in 1 .. i - 1 : SyncedAt(st, j)
    BY DEF Ordered, st
  <2>1. i > Len(s)
    BY <1>1, <1>2 DEF NoPut, PrimaryFiles, DigestPut, PutTo
  <2> DEFINE n == i - Len(s)
  <2>2. n \in 1 .. Len(t) /\ DigestPut(t[n])
    BY <1>1, <2>1
  <2>3. /\ \A k \in n + 1 .. Len(t) : ~PutTo(t[k], PrimaryFiles)
        /\ \E j \in 1 .. n - 1 : SyncedAt(t, j)
    BY <1>2, <2>2 DEF Ordered
  <2>4. ASSUME NEW k \in i + 1 .. Len(st) PROVE ~PutTo(st[k], PrimaryFiles)
    <3>1. k - Len(s) \in n + 1 .. Len(t) /\ st[k] = t[k - Len(s)]
      BY <1>1, <2>1
    <3> QED
      BY <2>3, <3>1
  <2>5. \E j \in 1 .. i - 1 : SyncedAt(st, j)
    <3>1. PICK j \in 1 .. n - 1 : SyncedAt(t, j)
      BY <2>3
    <3>2. PICK m : m = Len(s) + j
      OBVIOUS
    <3>3. m \in 1 .. i - 1 /\ st[m] = Sync(".nv_data.bak")
      BY <1>1, <2>2, <3>1, <3>2 DEF SyncedAt
    <3>4. ASSUME NEW k \in m + 1 .. Len(st) PROVE ~PutTo(st[k], {".nv_data.bak"})
      <4>1. k - Len(s) \in j + 1 .. Len(t) /\ k \in Len(s) + 1 .. Len(s) + Len(t)
        BY <1>1, <3>2
      <4> QED
        BY <1>1, <3>1, <4>1 DEF SyncedAt
    <3>5. SyncedAt(st, m)
      BY <3>3, <3>4 DEF SyncedAt
    <3> QED
      BY <3>3, <3>5
  <2> QED
    BY <2>4, <2>5
<1>3. CASE Ordered(s) /\ NoPut(t, PrimaryFiles)
  <2> SUFFICES ASSUME NEW i \in 1 .. Len(st), DigestPut(st[i])
               PROVE  /\ \A k \in i + 1 .. Len(st) : ~PutTo(st[k], PrimaryFiles)
                      /\ \E j \in 1 .. i - 1 : SyncedAt(st, j)
    BY DEF Ordered, st
  <2>1. i \in 1 .. Len(s) /\ DigestPut(s[i])
    BY <1>1, <1>3 DEF NoPut, PrimaryFiles, DigestPut, PutTo
  <2>2. /\ \A k \in i + 1 .. Len(s) : ~PutTo(s[k], PrimaryFiles)
        /\ \E j \in 1 .. i - 1 : SyncedAt(s, j)
    BY <1>3, <2>1 DEF Ordered
  <2>3. ASSUME NEW k \in i + 1 .. Len(st) PROVE ~PutTo(st[k], PrimaryFiles)
    <3>1. CASE k <= Len(s)
      BY <1>1, <2>1, <2>2, <3>1
    <3>2. CASE k > Len(s)
      BY <1>1, <1>3, <3>2 DEF NoPut
    <3> QED
      BY <1>1, <3>1, <3>2
  <2>4. \E j \in 1 .. i - 1 : SyncedAt(st, j)
    <3>1. PICK j \in 1 .. i - 1 : SyncedAt(s, j)
      BY <2>2
    <3>2. j \in 1 .. Len(s) /\ st[j] = Sync(".nv_data.bak")
      BY <1>1, <2>1, <3>1 DEF SyncedAt
    <3>3. ASSUME NEW k \in j + 1 .. Len(st) PROVE ~PutTo(st[k], {".nv_data.bak"})
      <4>1. CASE k <= Len(s)
        <5>1. k \in j + 1 .. Len(s) /\ k \in 1 .. Len(s)
          BY <1>1, <2>1, <4>1
        <5> QED
          BY <1>1, <3>1, <5>1 DEF SyncedAt
      <4>2. CASE k > Len(s)
        <5>1. k \in Len(s) + 1 .. Len(s) + Len(t)
          BY <1>1, <4>2
        <5> QED
          BY <1>1, <1>3, <5>1 DEF NoPut, PutTo, PrimaryFiles
      <4> QED
        BY <1>1, <3>2, <4>1, <4>2
    <3>4. SyncedAt(st, j)
      BY <3>2, <3>3 DEF SyncedAt
    <3> QED
      BY <3>4
  <2> QED
    BY <2>3, <2>4
<1> QED
  BY <1>2, <1>3

\* The first operation and the others.
LEMMA HeadAndTail ==
    ASSUME NEW s \in Seq(Instructions), s # << >>
    PROVE  /\ Head(s) = s[1] /\ Head(s) \in Instructions
           /\ Tail(s) \in Seq(Instructions)
           /\ Len(s) \in Nat /\ 1 <= Len(s) /\ Len(Tail(s)) = Len(s) - 1
           /\ \A i \in 1 .. Len(Tail(s)) : Tail(s)[i] = s[i + 1] /\ i + 1 \in 2 .. Len(s)
           /\ \A i \in 2 .. Len(s) : s[i] = Tail(s)[i - 1] /\ i - 1 \in 1 .. Len(Tail(s))
<1>1. /\ Head(s) \in Instructions
      /\ Tail(s) \in Seq(Instructions)
      /\ Len(Tail(s)) = Len(s) - 1
      /\ \A i \in 1 .. Len(Tail(s)) : Tail(s)[i] = s[i + 1]
  BY HeadTailProperties, Zenon
<1>2. Len(s) \in Nat \ {0}
  BY EmptySeq, Zenon
<1>3. Head(s) = s[1]
  BY <1>2
<1> QED
  BY <1>1, <1>2, <1>3

LEMMA TailNoPut ==
    ASSUME NEW s \in Seq(Instructions), s # << >>, NEW F
    PROVE  NoPut(s, F) <=> ~PutTo(Head(s), F) /\ NoPut(Tail(s), F)
<1>1. ASSUME NoPut(s, F) PROVE ~PutTo(Head(s), F) /\ NoPut(Tail(s), F)
  <2>1. ASSUME NEW i \in 1 .. Len(Tail(s)) PROVE ~PutTo(Tail(s)[i], F)
    <3>1. Tail(s)[i] = s[i + 1] /\ i + 1 \in 1 .. Len(s)
      BY HeadAndTail
    <3> QED
      BY <1>1, <3>1 DEF NoPut
  <2>2. Head(s) = s[1] /\ 1 \in 1 .. Len(s)
    BY HeadAndTail
  <2> QED
    BY <1>1, <2>1, <2>2 DEF NoPut
<1>2. ASSUME ~PutTo(Head(s), F), NoPut(Tail(s), F) PROVE NoPut(s, F)
  <2>1. ASSUME NEW i \in 1 .. Len(s) PROVE ~PutTo(s[i], F)
    <3>1. CASE i = 1
      BY <1>2, <3>1, HeadAndTail
    <3>2. CASE i # 1
      <4>1. i \in 2 .. Len(s)
        BY <3>2, HeadAndTail
      <4>2. s[i] = Tail(s)[i - 1] /\ i - 1 \in 1 .. Len(Tail(s))
        BY <4>1, HeadAndTail
      <4> QED
        BY <1>2, <4>2 DEF NoPut
    <3> QED
      BY <3>1, <3>2
  <2> QED
    BY <2>1 DEF NoPut
<1> QED
  BY <1>1, <1>2

LEMMA TailEnds ==
    ASSUME NEW s \in Seq(Instructions), s # << >>, NEW f, NEW c, Ends(s, f, c)
    PROVE  Ends(Tail(s), f, c) \/ (Head(s) = Put(f, c) /\ NoPut(Tail(s), {f}))
<1>1. PICK i \in 1 .. Len(s) : s[i] = Put(f, c) /\ \A k \in i + 1 .. Len(s) : ~PutTo(s[k], {f})
  BY DEF Ends
<1>2. CASE i = 1
  <2>1. ASSUME NEW k \in 1 .. Len(Tail(s)) PROVE ~PutTo(Tail(s)[k], {f})
    <3>1. Tail(s)[k] = s[k + 1] /\ k + 1 \in i + 1 .. Len(s)
      BY <1>2, HeadAndTail
    <3> QED
      BY <1>1, <3>1
  <2>2. Head(s) = Put(f, c)
    BY <1>1, <1>2, HeadAndTail
  <2> QED
    BY <2>1, <2>2 DEF NoPut
<1>3. CASE i # 1
  <2>1. i \in 2 .. Len(s)
    BY <1>3, HeadAndTail
  <2>2. PICK n : n = i - 1
    OBVIOUS
  <2>3. Tail(s)[n] = Put(f, c) /\ n \in 1 .. Len(Tail(s))
    BY <1>1, <2>1, <2>2, HeadAndTail
  <2>4. ASSUME NEW k \in n + 1 .. Len(Tail(s)) PROVE ~PutTo(Tail(s)[k], {f})
    <3>1. k \in 1 .. Len(Tail(s)) /\ k + 1 \in i + 1 .. Len(s)
      BY <2>1, <2>2, HeadAndTail
    <3>2. Tail(s)[k] = s[k + 1]
      BY <3>1, HeadAndTail
    <3> QED
      BY <1>1, <3>1, <3>2
  <2> QED
    BY <2>3, <2>4 DEF Ends
<1> QED
  BY <1>2, <1>3

LEMMA TailPuts ==
    ASSUME NEW s \in Seq(Instructions), s # << >>
    PROVE  /\ \A F : BlankPuts(s, F) =>
                  /\ BlankPuts(Tail(s), F)
                  /\ PutTo(Head(s), F) => Head(s).content.image.core = DefaultValue
           /\ KindlyPuts(s) =>
                  /\ KindlyPuts(Tail(s))
                  /\ Head(s).op = "put" => Fits(Head(s).content, Head(s).file)
<1> DEFINE t == Tail(s)
           h == Head(s)
<1>1. h = s[1] /\ 1 \in 1 .. Len(s)
  BY HeadAndTail
<1>2. \A i \in 1 .. Len(t) : t[i] = s[i + 1] /\ i + 1 \in 1 .. Len(s)
  BY HeadAndTail
<1> HIDE DEF t, h
<1>3. ASSUME NEW F, BlankPuts(s, F)
      PROVE  BlankPuts(t, F) /\ (PutTo(h, F) => h.content.image.core = DefaultValue)
  BY <1>1, <1>2, <1>3 DEF BlankPuts
<1>4. ASSUME KindlyPuts(s)
      PROVE  KindlyPuts(t) /\ (h.op = "put" => Fits(h.content, h.file))
  BY <1>1, <1>2, <1>4 DEF KindlyPuts
<1> QED
  BY <1>3, <1>4 DEF t, h

-----------------------------------------------------------------------------
(* NV data: the programs.                                                  *)

LEMMA ContentTypes ==
    ASSUME NEW v \in Images
    PROVE  /\ Missing \in Contents /\ Torn \in Contents /\ One \in Contents
           /\ Full(v) \in Contents /\ Core(v) \in Contents
           /\ Digest(Full(v)) \in Contents /\ Digest(Core(v)) \in Contents
           /\ DefaultImage \in Images
BY NVAssumption DEF Missing, Torn, One, Full, Core, Digest, Content, Contents, Kinds, Images,
                    NoImage, DefaultImage

LEMMA FittingContents ==
    ASSUME NEW v \in Images
    PROVE  /\ \A f \in Files : Fits(Torn, f)
           /\ Fits(One, ".nv_state")
           /\ \A f \in {"nv_data.bin", ".nv_data.bak"} : Fits(Full(v), f)
           /\ Fits(Core(v), ".nv_core.bak")
           /\ \A f \in Digests : Fits(Digest(Full(v)), f) /\ Fits(Digest(Core(v)), f)
<1>1. Torn.kind = "torn" /\ One.kind = "1" /\ Full(v).kind = "full" /\ Core(v).kind = "core"
  BY DEF Torn, One, Full, Core, Content
<1>2. Digest(Full(v)).kind = "digest" /\ Digest(Core(v)).kind = "core digest"
  BY <1>1 DEF Digest, Content
<1>3. \A f \in Files : "torn" \in KindsOf(f)
  BY DEF KindsOf
<1>4. "1" \in KindsOf(".nv_state")
  BY DEF KindsOf, Digests
<1>5. "full" \in KindsOf("nv_data.bin") /\ "full" \in KindsOf(".nv_data.bak")
  BY DEF KindsOf, Digests
<1>6. "core" \in KindsOf(".nv_core.bak")
  BY DEF KindsOf, Digests
<1>7. \A f \in Digests : "digest" \in KindsOf(f) /\ "core digest" \in KindsOf(f)
  BY DEF KindsOf, Digests
<1> QED
  BY <1>1, <1>2, <1>3, <1>4, <1>5, <1>6, <1>7, ContentTypes DEF Fits

\* One instruction.
LEMMA OneSync ==
    ASSUME NEW f \in Files
    PROVE  /\ << Sync(f) >> \in Seq(Instructions)
           /\ \A F : NoPut(<< Sync(f) >>, F)
           /\ KindlyPuts(<< Sync(f) >>)
<1>1. Sync(f) \in Instructions /\ Sync(f).op = "sync"
  BY ContentTypes, NVAssumption DEF Sync, Instructions, Missing, Content, Contents, Kinds, NoImage,
                                    Images
<1> DEFINE y == Sync(f)
<1> HIDE DEF y
<1>2. /\ << y >> \in Seq(Instructions)
      /\ \A F : NoPut(<< y >>, F)
      /\ KindlyPuts(<< y >>)
  BY <1>1 DEF NoPut, PutTo, KindlyPuts, y
<1> QED
  BY <1>2 DEF y

LEMMA OnePut ==
    ASSUME NEW f \in Files, NEW c, Fits(c, f)
    PROVE  /\ << Put(f, c) >> \in Seq(Instructions)
           /\ \A F : f \notin F => NoPut(<< Put(f, c) >>, F)
           /\ KindlyPuts(<< Put(f, c) >>)
           /\ Ends(<< Put(f, c) >>, f, c)
<1>1. Put(f, c) \in Instructions /\ Put(f, c).op = "put" /\ Put(f, c).file = f /\ Put(f, c).content = c
  BY DEF Put, Instructions, Fits
<1> DEFINE p == Put(f, c)
<1>2. p \in Instructions /\ p.op = "put" /\ p.file = f /\ p.content = c
  BY <1>1
<1>3. Ends(<< p >>, f, c)
  BY DEF Ends
<1> HIDE DEF p
<1>4. /\ << p >> \in Seq(Instructions)
      /\ \A F : f \notin F => NoPut(<< p >>, F)
      /\ KindlyPuts(<< p >>)
  BY <1>2 DEF NoPut, PutTo, KindlyPuts, Fits
<1> QED
  BY <1>3, <1>4 DEF p

\* Rewriting a file.
LEMMA Rewriting ==
    ASSUME NEW f \in Files, NEW c, Fits(c, f)
    PROVE  /\ Rewrite(f, c) \in Seq(Instructions)
           /\ \A F : f \notin F => NoPut(Rewrite(f, c), F)
           /\ KindlyPuts(Rewrite(f, c))
           /\ Ends(Rewrite(f, c), f, c)
           /\ \A F : c.image.core = DefaultValue => BlankPuts(Rewrite(f, c), F)
<1> DEFINE p == Put(f, Torn)
           q == Put(f, c)
<1>1. /\ p \in Instructions /\ p.op = "put" /\ p.file = f /\ p.content = Torn
      /\ q \in Instructions /\ q.op = "put" /\ q.file = f /\ q.content = c
  BY ContentTypes, NVAssumption DEF Put, Instructions, Fits, Torn, Content, Contents, Kinds, NoImage,
                                    Images
<1>2. Fits(Torn, f) /\ Torn.image.core = DefaultValue
  BY NVAssumption DEF Fits, KindsOf, Torn, Content, Contents, Kinds, NoImage, Images
<1> HIDE DEF p, q
<1>3. /\ << p, q >> \in Seq(Instructions)
      /\ \A F : f \notin F => NoPut(<< p, q >>, F)
      /\ KindlyPuts(<< p, q >>)
      /\ \A F : c.image.core = DefaultValue => BlankPuts(<< p, q >>, F)
  BY <1>1, <1>2 DEF NoPut, PutTo, KindlyPuts, Fits, BlankPuts
<1>4. Ends(<< p, q >>, f, c)
  BY DEF Ends, q
<1> QED
  BY <1>3, <1>4 DEF Rewrite, p, q

\* Programs that leave a backup alone satisfy what is asked of its writes.
LEMMA NoPutIsHarmless ==
    ASSUME NEW s, NEW F, NoPut(s, F)
    PROVE  BlankPuts(s, F) /\ (F = PrimaryFiles => Ordered(s))
BY DEF NoPut, BlankPuts, Ordered, DigestPut, PutTo, PrimaryFiles

\* updateMD5 touches the digest and, the first time, the marker.
LEMMA UpdateMD5Program ==
    ASSUME NEW v \in Images, NEW e \in BOOLEAN
    PROVE  /\ UpdateMD5(Full(v), e) \in Seq(Instructions)
           /\ \A F : F \cap {"nv_data.bin.md5", ".nv_state"} = {} => NoPut(UpdateMD5(Full(v), e), F)
           /\ KindlyPuts(UpdateMD5(Full(v), e))
           /\ Ends(UpdateMD5(Full(v), e), "nv_data.bin.md5", Digest(Full(v)))
           /\ e => NoPut(UpdateMD5(Full(v), e), {".nv_state"})
           /\ ~e => Ends(UpdateMD5(Full(v), e), ".nv_state", One)
<1> DEFINE d == Rewrite("nv_data.bin.md5", Digest(Full(v)))
           m == Rewrite(".nv_state", One)
           y == << Sync(".nv_state") >>
           w == m \o y
<1>0. "nv_data.bin.md5" \in Files /\ ".nv_state" \in Files /\ "nv_data.bin.md5" \in Digests
  BY DEF Files, Digests
<1>1. /\ d \in Seq(Instructions) /\ KindlyPuts(d) /\ Ends(d, "nv_data.bin.md5", Digest(Full(v)))
      /\ \A F : "nv_data.bin.md5" \notin F => NoPut(d, F)
  BY <1>0, FittingContents, Rewriting
<1>2. /\ m \in Seq(Instructions) /\ KindlyPuts(m) /\ Ends(m, ".nv_state", One)
      /\ \A F : ".nv_state" \notin F => NoPut(m, F)
  BY <1>0, FittingContents, Rewriting
<1>3. y \in Seq(Instructions) /\ KindlyPuts(y) /\ \A F : NoPut(y, F)
  BY <1>0, OneSync
<1> HIDE DEF d, m, y
<1>4. w \in Seq(Instructions)
  BY <1>2, <1>3, Concat
<1>5. KindlyPuts(w) /\ Ends(w, ".nv_state", One)
  BY <1>2, <1>3, ConcatKindlyPuts, ConcatEnds
<1>6. \A F : ".nv_state" \notin F => NoPut(w, F)
  BY <1>2, <1>3, ConcatNoPut
<1> HIDE DEF w
<1>7. /\ d \o << >> = d
      /\ UpdateMD5(Full(v), e) = IF e THEN d \o << >> ELSE d \o w
  BY <1>1, ConcatEmptySeq, Zenon DEF UpdateMD5, d, w, m, y
<1>8. CASE e
  <2>1. UpdateMD5(Full(v), e) = d
    BY <1>7, <1>8
  <2>2. ASSUME NEW F, F \cap {"nv_data.bin.md5", ".nv_state"} = {} PROVE NoPut(d, F)
    <3>1. "nv_data.bin.md5" \notin F
      BY <2>2
    <3> QED
      BY <1>1, <3>1
  <2>3. NoPut(d, {".nv_state"})
    BY <1>1
  <2> QED
    BY <1>1, <1>8, <2>1, <2>2, <2>3
<1>9. CASE ~e
  <2>1. UpdateMD5(Full(v), e) = d \o w
    BY <1>7, <1>9
  <2>2. d \o w \in Seq(Instructions)
    BY <1>1, <1>4, Concat
  <2>3. KindlyPuts(d \o w)
    BY <1>1, <1>4, <1>5, ConcatKindlyPuts
  <2>4. Ends(d \o w, ".nv_state", One)
    BY <1>1, <1>4, <1>5, ConcatEnds
  <2>5. NoPut(w, {"nv_data.bin.md5"})
    BY <1>6
  <2>6. Ends(d \o w, "nv_data.bin.md5", Digest(Full(v)))
    BY <1>1, <1>4, <2>5, ConcatEnds
  <2>7. ASSUME NEW F, F \cap {"nv_data.bin.md5", ".nv_state"} = {} PROVE NoPut(d \o w, F)
    <3>1. "nv_data.bin.md5" \notin F /\ ".nv_state" \notin F
      BY <2>7
    <3>2. NoPut(d, F) /\ NoPut(w, F)
      BY <1>1, <1>6, <3>1
    <3> QED
      BY <1>1, <1>4, <3>2, ConcatNoPut
  <2> QED
    BY <1>9, <2>1, <2>2, <2>3, <2>4, <2>6, <2>7
<1> QED
  BY <1>8, <1>9

\* A program that ends with Full(v) in nv_data.bin and its digest beside it,
\* with the marker on, and writes to nothing else.
Updates(s, v, e) ==
    /\ s \in Seq(Instructions) /\ KindlyPuts(s)
    /\ Ends(s, "nv_data.bin", Full(v)) /\ Ends(s, "nv_data.bin.md5", Digest(Full(v)))
    /\ e => NoPut(s, {".nv_state"})
    /\ ~e => Ends(s, ".nv_state", One)
    /\ NoPut(s, PrimaryFiles) /\ NoPut(s, CoreFiles)

LEMMA Updating ==
    ASSUME NEW v \in Images, NEW e \in BOOLEAN, NEW s \in Seq(Instructions),
           KindlyPuts(s), Ends(s, "nv_data.bin", Full(v)),
           \A F : "nv_data.bin" \notin F => NoPut(s, F)
    PROVE  Updates(s \o UpdateMD5(Full(v), e), v, e)
<1> DEFINE u == UpdateMD5(Full(v), e)
<1>1. /\ u \in Seq(Instructions) /\ KindlyPuts(u)
      /\ \A F : F \cap {"nv_data.bin.md5", ".nv_state"} = {} => NoPut(u, F)
      /\ Ends(u, "nv_data.bin.md5", Digest(Full(v)))
      /\ e => NoPut(u, {".nv_state"})
      /\ ~e => Ends(u, ".nv_state", One)
  BY UpdateMD5Program
<1> HIDE DEF u
<1>2. NoPut(u, {"nv_data.bin"}) /\ NoPut(u, PrimaryFiles) /\ NoPut(u, CoreFiles)
  BY <1>1 DEF PrimaryFiles, CoreFiles
<1>3. NoPut(s, {".nv_state"}) /\ NoPut(s, PrimaryFiles) /\ NoPut(s, CoreFiles)
  BY DEF PrimaryFiles, CoreFiles
<1>4. s \o u \in Seq(Instructions) /\ KindlyPuts(s \o u)
  BY <1>1, Concat, ConcatKindlyPuts
<1>5. Ends(s \o u, "nv_data.bin", Full(v)) /\ Ends(s \o u, "nv_data.bin.md5", Digest(Full(v)))
  BY <1>1, <1>2, ConcatEnds
<1>6. e => NoPut(s \o u, {".nv_state"})
  BY <1>1, <1>3, ConcatNoPut
<1>7. ~e => Ends(s \o u, ".nv_state", One)
  BY <1>1, ConcatEnds
<1>8. NoPut(s \o u, PrimaryFiles) /\ NoPut(s \o u, CoreFiles)
  BY <1>1, <1>2, <1>3, ConcatNoPut
<1> QED
  BY <1>4, <1>5, <1>6, <1>7, <1>8 DEF Updates, u

\* writeNVData and the recovery from the primary backup are such programs, and
\* the blank start begins with one.
LEMMA UpdatePrograms ==
    ASSUME NEW v \in Images, NEW e \in BOOLEAN
    PROVE  /\ Updates(<< Put("nv_data.bin", Full(v)) >> \o UpdateMD5(Full(v), e), v, e)
           /\ Updates(Rewrite("nv_data.bin", Full(v)) \o UpdateMD5(Full(v), e), v, e)
<1>1. "nv_data.bin" \in Files /\ Fits(Full(v), "nv_data.bin")
  BY FittingContents DEF Files, Copies
<1> DEFINE p == << Put("nv_data.bin", Full(v)) >>
           r == Rewrite("nv_data.bin", Full(v))
<1>2. /\ p \in Seq(Instructions) /\ KindlyPuts(p) /\ Ends(p, "nv_data.bin", Full(v))
      /\ \A F : "nv_data.bin" \notin F => NoPut(p, F)
  BY <1>1, OnePut
<1>3. /\ r \in Seq(Instructions) /\ KindlyPuts(r) /\ Ends(r, "nv_data.bin", Full(v))
      /\ \A F : "nv_data.bin" \notin F => NoPut(r, F)
  BY <1>1, Rewriting
<1> HIDE DEF p, r
<1>4. Updates(p \o UpdateMD5(Full(v), e), v, e) /\ Updates(r \o UpdateMD5(Full(v), e), v, e)
  BY <1>2, <1>3, Updating
<1> QED
  BY <1>4 DEF p, r

\* A digest after the sync of what it is the digest of.
LEMMA DigestAfterSync ==
    ASSUME NEW s \in Seq(Instructions), NEW j \in 1 .. Len(s), SyncedAt(s, j),
           NoPut(s, {".nv_data.bak.md5"}), NEW c, Fits(c, ".nv_data.bak.md5")
    PROVE  Ordered(s \o Rewrite(".nv_data.bak.md5", c))
<1> DEFINE r == Rewrite(".nv_data.bak.md5", c)
           st == s \o r
<1>1. r \in Seq(Instructions)
  BY Rewriting DEF Files, Digests
<1>2. Len(r) = 2 /\ r[1] = Put(".nv_data.bak.md5", Torn) /\ r[2] = Put(".nv_data.bak.md5", c)
  BY DEF Rewrite
<1> HIDE DEF r
<1>3. /\ Len(st) = Len(s) + 2 /\ Len(s) \in Nat
      /\ \A i \in 1 .. Len(s) : st[i] = s[i]
      /\ st[Len(s) + 1] = Put(".nv_data.bak.md5", Torn)
      /\ st[Len(s) + 2] = Put(".nv_data.bak.md5", c)
  <2>1. /\ Len(s) \in Nat /\ Len(st) = Len(s) + Len(r)
        /\ \A i \in 1 .. Len(s) : st[i] = s[i]
        /\ \A i \in 1 .. Len(r) : st[Len(s) + i] = r[i]
    BY <1>1, Concat
  <2>2. st[Len(s) + 1] = r[1]
    BY <1>2, <2>1
  <2>3. st[Len(s) + 2] = r[2]
    BY <1>2, <2>1
  <2> QED
    BY <1>2, <2>1, <2>2, <2>3
<1> HIDE DEF st
<1>4. ~DigestPut(Put(".nv_data.bak.md5", Torn))
  BY DEF DigestPut, IsDigest, Put, Torn, Content
<1>5. /\ ~PutTo(Put(".nv_data.bak.md5", Torn), {".nv_data.bak"})
      /\ ~PutTo(Put(".nv_data.bak.md5", c), {".nv_data.bak"})
  BY DEF PutTo, Put
<1>6. \A i \in 1 .. Len(s) : ~DigestPut(s[i])
  BY DEF NoPut, DigestPut
<1>7. SyncedAt(st, j)
  <2>1. ASSUME NEW k \in j + 1 .. Len(st) PROVE ~PutTo(st[k], {".nv_data.bak"})
    <3>1. CASE k <= Len(s)
      <4>1. k \in j + 1 .. Len(s) /\ k \in 1 .. Len(s)
        BY <1>3, <3>1
      <4> QED
        BY <1>3, <4>1 DEF SyncedAt
    <3>2. CASE k > Len(s)
      <4>1. k = Len(s) + 1 \/ k = Len(s) + 2
        BY <1>3, <3>2
      <4> QED
        BY <1>3, <1>5, <4>1
    <3> QED
      BY <1>3, <3>1, <3>2
  <2>2. st[j] = Sync(".nv_data.bak")
    BY <1>3 DEF SyncedAt
  <2> QED
    BY <2>1, <2>2 DEF SyncedAt
<1>8. ASSUME NEW i \in 1 .. Len(st), DigestPut(st[i])
      PROVE  /\ \A k \in i + 1 .. Len(st) : ~PutTo(st[k], PrimaryFiles)
             /\ j \in 1 .. i - 1
  <2>1. i \notin 1 .. Len(s)
    BY <1>3, <1>6, <1>8
  <2>2. i # Len(s) + 1
    BY <1>3, <1>4, <1>8
  <2>3. i = Len(s) + 2
    BY <1>3, <2>1, <2>2
  <2> QED
    BY <1>3, <2>3
<1>9. Ordered(st)
  BY <1>7, <1>8 DEF Ordered
<1> QED
  BY <1>9 DEF st, r

\* What backupNVData writes.
LEMMA BackupProgram ==
    ASSUME NEW v \in Images
    PROVE  /\ BackupNVData(v) \in Seq(Instructions) /\ KindlyPuts(BackupNVData(v))
           /\ \A F : F \cap (PrimaryFiles \cup CoreFiles) = {} => NoPut(BackupNVData(v), F)
           /\ Ends(BackupNVData(v), ".nv_data.bak", Full(v))
           /\ Ends(BackupNVData(v), ".nv_data.bak.md5", Digest(Full(v)))
           /\ Ordered(BackupNVData(v))
           /\ v.core = DefaultValue => \A F : BlankPuts(BackupNVData(v), F)
<1> DEFINE r1 == Rewrite(".nv_data.bak", Full(v))
           y1 == << Sync(".nv_data.bak") >>
           r2 == Rewrite(".nv_data.bak.md5", Digest(Full(v)))
           y2 == << Sync(".nv_data.bak.md5") >>
           r3 == Rewrite(".nv_core.bak", Core(v))
           y3 == << Sync(".nv_core.bak") >>
           r4 == Rewrite(".nv_core.bak.md5", Digest(Core(v)))
           s1 == r1 \o y1
           s2 == s1 \o r2
           s3 == s2 \o y2
           s4 == s3 \o r3
           s5 == s4 \o y3
           s6 == s5 \o r4
           Known == {".nv_data.bak", ".nv_data.bak.md5", ".nv_core.bak", ".nv_core.bak.md5"}
           All(s) == /\ s \in Seq(Instructions) /\ KindlyPuts(s)
                     /\ \A F : F \cap Known = {} => NoPut(s, F)
                     /\ v.core = DefaultValue => \A F : BlankPuts(s, F)
<1>1. BackupNVData(v) = s6
  BY Zenon DEF BackupNVData
<1>2. /\ ".nv_data.bak" \in Files /\ ".nv_data.bak.md5" \in Files
      /\ ".nv_core.bak" \in Files /\ ".nv_core.bak.md5" \in Files
      /\ ".nv_data.bak.md5" \in Digests /\ ".nv_core.bak.md5" \in Digests
  BY DEF Files, Digests, Copies, Backups
<1>3. /\ Fits(Full(v), ".nv_data.bak") /\ Fits(Digest(Full(v)), ".nv_data.bak.md5")
      /\ Fits(Core(v), ".nv_core.bak") /\ Fits(Digest(Core(v)), ".nv_core.bak.md5")
  BY <1>2, FittingContents
<1>4. /\ Full(v).image.core = v.core /\ Digest(Full(v)).image.core = v.core
      /\ Core(v).image.core = v.core /\ Digest(Core(v)).image.core = v.core
  BY DEF Full, Core, Digest, Content, Images
<1>5. All(r1) /\ Ends(r1, ".nv_data.bak", Full(v))
  <2>1. \A F : F \cap Known = {} => ".nv_data.bak" \notin F
    OBVIOUS
  <2> QED
    BY <1>2, <1>3, <1>4, <2>1, Rewriting
<1>6. All(r2) /\ Ends(r2, ".nv_data.bak.md5", Digest(Full(v)))
  <2>1. \A F : F \cap Known = {} => ".nv_data.bak.md5" \notin F
    OBVIOUS
  <2> QED
    BY <1>2, <1>3, <1>4, <2>1, Rewriting
<1>7. All(r3)
  <2>1. \A F : F \cap Known = {} => ".nv_core.bak" \notin F
    OBVIOUS
  <2> QED
    BY <1>2, <1>3, <1>4, <2>1, Rewriting
<1>8. All(r4)
  <2>1. \A F : F \cap Known = {} => ".nv_core.bak.md5" \notin F
    OBVIOUS
  <2> QED
    BY <1>2, <1>3, <1>4, <2>1, Rewriting
<1>9. All(y1) /\ All(y2) /\ All(y3) /\ \A F : NoPut(y1, F) /\ NoPut(y2, F) /\ NoPut(y3, F)
  BY <1>2, OneSync, NoPutIsHarmless
<1>10. /\ NoPut(r1, {".nv_data.bak.md5"}) /\ NoPut(r2, {".nv_data.bak"})
       /\ NoPut(r3, PrimaryFiles) /\ NoPut(r4, PrimaryFiles)
       /\ NoPut(r3, {".nv_data.bak"}) /\ NoPut(r4, {".nv_data.bak"})
       /\ NoPut(r3, {".nv_data.bak.md5"}) /\ NoPut(r4, {".nv_data.bak.md5"})
  BY <1>2, <1>3, Rewriting DEF PrimaryFiles
<1>11. Len(r1) = 2 /\ Len(y1) = 1 /\ y1[1] = Sync(".nv_data.bak")
  BY DEF Rewrite
<1> HIDE DEF r1, r2, r3, r4, y1, y2, y3
<1>12. ASSUME NEW s, NEW t, All(s), All(t) PROVE All(s \o t)
  BY <1>12, Concat, ConcatKindlyPuts, ConcatNoPut, ConcatBlankPuts
<1> HIDE DEF All
<1>13. All(s1) /\ All(s2) /\ All(s3) /\ All(s4) /\ All(s5) /\ All(s6)
  BY <1>5, <1>6, <1>7, <1>8, <1>9, <1>12
<1>14. /\ r1 \in Seq(Instructions) /\ r2 \in Seq(Instructions) /\ r3 \in Seq(Instructions)
       /\ r4 \in Seq(Instructions) /\ y1 \in Seq(Instructions) /\ y2 \in Seq(Instructions)
       /\ y3 \in Seq(Instructions) /\ s1 \in Seq(Instructions) /\ s2 \in Seq(Instructions)
       /\ s3 \in Seq(Instructions) /\ s4 \in Seq(Instructions) /\ s5 \in Seq(Instructions)
  BY <1>5, <1>6, <1>7, <1>8, <1>9, <1>13 DEF All
<1>15. Len(s1) = 3 /\ SyncedAt(s1, 3) /\ NoPut(s1, {".nv_data.bak.md5"}) /\ Ends(s1, ".nv_data.bak", Full(v))
  <2>1. Len(s1) = 3 /\ s1[3] = Sync(".nv_data.bak")
    <3>1. Len(s1) = Len(r1) + Len(y1) /\ \A i \in 1 .. Len(y1) : s1[Len(r1) + i] = y1[i]
      BY <1>14, Concat
    <3> HIDE DEF s1
    <3>2. s1[Len(r1) + 1] = y1[1]
      BY <1>11, <3>1
    <3> QED
      BY <1>11, <3>1, <3>2
  <2>2. NoPut(s1, {".nv_data.bak.md5"}) /\ Ends(s1, ".nv_data.bak", Full(v))
    BY <1>5, <1>9, <1>10, <1>14, ConcatNoPut, ConcatEnds
  <2> HIDE DEF s1
  <2>3. SyncedAt(s1, 3)
    BY <2>1 DEF SyncedAt
  <2> QED
    BY <2>1, <2>2, <2>3
<1>16. Ordered(s2)
  <2> HIDE DEF s1
  <2>1. 3 \in 1 .. Len(s1)
    BY <1>15
  <2>2. Ordered(s1 \o Rewrite(".nv_data.bak.md5", Digest(Full(v))))
    BY <1>3, <1>14, <1>15, <2>1, DigestAfterSync
  <2> QED
    BY <2>2 DEF r2
<1>17. Ends(s2, ".nv_data.bak", Full(v)) /\ Ends(s2, ".nv_data.bak.md5", Digest(Full(v)))
  <2> HIDE DEF s1
  <2> QED
    BY <1>6, <1>10, <1>14, <1>15, ConcatEnds
<1> HIDE DEF s1, s2
<1>18. Ordered(s3) /\ Ends(s3, ".nv_data.bak", Full(v)) /\ Ends(s3, ".nv_data.bak.md5", Digest(Full(v)))
  BY <1>9, <1>14, <1>16, <1>17, ConcatEnds, ConcatOrdered
<1> HIDE DEF s3
<1>19. Ordered(s4) /\ Ends(s4, ".nv_data.bak", Full(v)) /\ Ends(s4, ".nv_data.bak.md5", Digest(Full(v)))
  BY <1>10, <1>14, <1>18, ConcatEnds, ConcatOrdered
<1> HIDE DEF s4
<1>20. Ordered(s5) /\ Ends(s5, ".nv_data.bak", Full(v)) /\ Ends(s5, ".nv_data.bak.md5", Digest(Full(v)))
  BY <1>9, <1>14, <1>19, ConcatEnds, ConcatOrdered
<1> HIDE DEF s5
<1>21. Ordered(s6) /\ Ends(s6, ".nv_data.bak", Full(v)) /\ Ends(s6, ".nv_data.bak.md5", Digest(Full(v)))
  BY <1>10, <1>14, <1>20, ConcatEnds, ConcatOrdered
<1> HIDE DEF s6
<1>22. PrimaryFiles \cup CoreFiles = Known
  BY DEF PrimaryFiles, CoreFiles
<1> QED
  BY <1>1, <1>13, <1>21, <1>22 DEF All

\* What the recovery from the partial backup writes.
LEMMA RecoverFromCoreProgram ==
    ASSUME NEW v \in Images, NEW e
    PROVE  /\ RecoverFromCore(v, e) \in Seq(Instructions) /\ KindlyPuts(RecoverFromCore(v, e))
           /\ Ends(RecoverFromCore(v, e), "nv_data.bin", Full(v))
           /\ Ends(RecoverFromCore(v, e), ".nv_data.bak", Full(v))
           /\ Ends(RecoverFromCore(v, e), ".nv_data.bak.md5", Digest(Full(v)))
           /\ NoPut(RecoverFromCore(v, e), CoreFiles) /\ NoPut(RecoverFromCore(v, e), {".nv_state"})
           /\ Ordered(RecoverFromCore(v, e))
           /\ v.core = DefaultValue => BlankPuts(RecoverFromCore(v, e), PrimaryFiles)
<1> DEFINE p1 == Put("nv_data.bin", Torn)
           p2 == Put(".nv_data.bak", Torn)
           p3 == Put("nv_data.bin", Full(v))
           p4 == Put(".nv_data.bak", Full(v))
           p5 == Sync(".nv_data.bak")
           p6 == Sync("nv_data.bin")
           s0 == << p1, p2, p3, p4, p5, p6 >>
           r2 == Rewrite(".nv_data.bak.md5", Digest(Full(v)))
           y2 == << Sync(".nv_data.bak.md5") >>
           r3 == Rewrite(".nv_data.md5", Digest(Full(v)))
           y3 == << Sync(".nv_data.md5") >>
           s1 == s0 \o r2
           s2 == s1 \o y2
           s3 == s2 \o r3
           s4 == s3 \o y3
           All(s) == /\ s \in Seq(Instructions) /\ KindlyPuts(s)
                     /\ NoPut(s, CoreFiles) /\ NoPut(s, {".nv_state"})
                     /\ v.core = DefaultValue => BlankPuts(s, PrimaryFiles)
<1>1. RecoverFromCore(v, e) = s4
  BY Zenon DEF RecoverFromCore
<1>2. /\ "nv_data.bin" \in Files /\ ".nv_data.bak" \in Files /\ ".nv_data.bak.md5" \in Files
      /\ ".nv_data.md5" \in Files /\ ".nv_data.bak.md5" \in Digests /\ ".nv_data.md5" \in Digests
  BY DEF Files, Digests, Copies, Backups
<1>3. /\ Fits(Full(v), ".nv_data.bak") /\ Fits(Full(v), "nv_data.bin")
      /\ Fits(Torn, ".nv_data.bak") /\ Fits(Torn, "nv_data.bin")
      /\ Fits(Digest(Full(v)), ".nv_data.bak.md5") /\ Fits(Digest(Full(v)), ".nv_data.md5")
  BY <1>2, FittingContents
<1>4. /\ Full(v).image.core = v.core /\ Digest(Full(v)).image.core = v.core
      /\ Torn.image.core = DefaultValue
  BY DEF Full, Digest, Content, Images, Torn, NoImage
<1>5. /\ p1 \in Instructions /\ p1.op = "put" /\ p1.file = "nv_data.bin" /\ p1.content = Torn
      /\ p2 \in Instructions /\ p2.op = "put" /\ p2.file = ".nv_data.bak" /\ p2.content = Torn
      /\ p3 \in Instructions /\ p3.op = "put" /\ p3.file = "nv_data.bin" /\ p3.content = Full(v)
      /\ p4 \in Instructions /\ p4.op = "put" /\ p4.file = ".nv_data.bak" /\ p4.content = Full(v)
  BY <1>2, <1>3 DEF Put, Instructions, Fits
<1>6. /\ p5 \in Instructions /\ p5.op = "sync" /\ p6 \in Instructions /\ p6.op = "sync"
  BY <1>2, ContentTypes DEF Sync, Instructions
<1>7. p3 = Put("nv_data.bin", Full(v)) /\ p4 = Put(".nv_data.bak", Full(v)) /\ p5 = Sync(".nv_data.bak")
  OBVIOUS
<1> HIDE DEF p1, p2, p3, p4, p5, p6
<1>8. /\ Len(s0) = 6 /\ s0[1] = p1 /\ s0[2] = p2 /\ s0[3] = p3 /\ s0[4] = p4 /\ s0[5] = p5 /\ s0[6] = p6
      /\ s0 \in Seq(Instructions)
  BY <1>5, <1>6
<1> HIDE DEF s0
<1>9. ASSUME NEW i \in 1 .. Len(s0)
      PROVE  i \in {1, 2, 3, 4, 5, 6}
  BY <1>8
<1>10. KindlyPuts(s0)
  BY <1>3, <1>5, <1>6, <1>8, <1>9 DEF KindlyPuts, Fits
<1>11. NoPut(s0, CoreFiles) /\ NoPut(s0, {".nv_state"}) /\ NoPut(s0, {".nv_data.bak.md5"})
  BY <1>5, <1>6, <1>8, <1>9 DEF NoPut, PutTo, CoreFiles
<1>12. v.core = DefaultValue => BlankPuts(s0, PrimaryFiles)
  BY <1>4, <1>5, <1>6, <1>8, <1>9 DEF BlankPuts, PutTo, PrimaryFiles
<1>13. All(s0)
  BY <1>8, <1>10, <1>11, <1>12
<1>14. Ends(s0, "nv_data.bin", Full(v))
  <2>1. 3 \in 1 .. Len(s0) /\ s0[3] = Put("nv_data.bin", Full(v))
    BY <1>7, <1>8
  <2>2. \A k \in 3 + 1 .. Len(s0) : ~PutTo(s0[k], {"nv_data.bin"})
    BY <1>5, <1>6, <1>8, <1>9 DEF PutTo
  <2> QED
    BY <2>1, <2>2 DEF Ends
<1>15. Ends(s0, ".nv_data.bak", Full(v))
  <2>1. 4 \in 1 .. Len(s0) /\ s0[4] = Put(".nv_data.bak", Full(v))
    BY <1>7, <1>8
  <2>2. \A k \in 4 + 1 .. Len(s0) : ~PutTo(s0[k], {".nv_data.bak"})
    BY <1>5, <1>6, <1>8, <1>9 DEF PutTo
  <2> QED
    BY <2>1, <2>2 DEF Ends
<1>16. 5 \in 1 .. Len(s0) /\ SyncedAt(s0, 5)
  <2>1. \A k \in 5 + 1 .. Len(s0) : ~PutTo(s0[k], {".nv_data.bak"})
    BY <1>5, <1>6, <1>8, <1>9 DEF PutTo
  <2> QED
    BY <1>7, <1>8, <2>1 DEF SyncedAt
<1>17. All(r2) /\ Ends(r2, ".nv_data.bak.md5", Digest(Full(v)))
  BY <1>2, <1>3, <1>4, Rewriting DEF CoreFiles
<1>18. All(r3)
  BY <1>2, <1>3, <1>4, Rewriting DEF CoreFiles
<1>19. All(y2) /\ All(y3) /\ \A F : NoPut(y2, F) /\ NoPut(y3, F)
  BY <1>2, OneSync, NoPutIsHarmless
<1>20. /\ NoPut(r2, {".nv_data.bak"}) /\ NoPut(r2, {"nv_data.bin"})
       /\ NoPut(r3, {".nv_data.bak"}) /\ NoPut(r3, {"nv_data.bin"}) /\ NoPut(r3, {".nv_data.bak.md5"})
       /\ NoPut(r3, PrimaryFiles)
  BY <1>2, <1>3, Rewriting DEF PrimaryFiles
<1>21. Ordered(s1)
  BY <1>3, <1>8, <1>11, <1>16, DigestAfterSync
<1> HIDE DEF r2, r3, y2, y3
<1>22. ASSUME NEW s, NEW t, All(s), All(t) PROVE All(s \o t)
  BY <1>22, Concat, ConcatKindlyPuts, ConcatNoPut, ConcatBlankPuts
<1> HIDE DEF All
<1>23. All(s1) /\ All(s2) /\ All(s3) /\ All(s4)
  BY <1>13, <1>17, <1>18, <1>19, <1>22
<1>24. /\ r2 \in Seq(Instructions) /\ r3 \in Seq(Instructions) /\ y2 \in Seq(Instructions)
       /\ y3 \in Seq(Instructions) /\ s1 \in Seq(Instructions) /\ s2 \in Seq(Instructions)
       /\ s3 \in Seq(Instructions)
  BY <1>17, <1>18, <1>19, <1>23 DEF All
<1> DEFINE Outcome(s) == /\ Ends(s, "nv_data.bin", Full(v)) /\ Ends(s, ".nv_data.bak", Full(v))
                         /\ Ends(s, ".nv_data.bak.md5", Digest(Full(v)))
<1>25. Outcome(s1)
  BY <1>8, <1>14, <1>15, <1>17, <1>20, <1>24, ConcatEnds
<1> HIDE DEF s1
<1>26. Ordered(s2) /\ Outcome(s2)
  BY <1>19, <1>21, <1>24, <1>25, ConcatEnds, ConcatOrdered
<1> HIDE DEF s2
<1>27. Ordered(s3) /\ Outcome(s3)
  BY <1>20, <1>24, <1>26, ConcatEnds, ConcatOrdered
<1> HIDE DEF s3
<1>28. Ordered(s4) /\ Outcome(s4)
  BY <1>19, <1>24, <1>27, ConcatEnds, ConcatOrdered
<1> HIDE DEF s4
<1> QED
  BY <1>1, <1>23, <1>28 DEF All

\* What the blank start writes.
LEMMA StartBlankProgram ==
    ASSUME NEW e \in BOOLEAN
    PROVE  /\ StartBlank(e) \in Seq(Instructions) /\ KindlyPuts(StartBlank(e))
           /\ Ends(StartBlank(e), "nv_data.bin", Full(DefaultImage))
           /\ Ends(StartBlank(e), "nv_data.bin.md5", Digest(Full(DefaultImage)))
           /\ e => NoPut(StartBlank(e), {".nv_state"})
           /\ ~e => Ends(StartBlank(e), ".nv_state", One)
           /\ Ends(StartBlank(e), ".nv_data.bak", Full(DefaultImage))
           /\ Ends(StartBlank(e), ".nv_data.bak.md5", Digest(Full(DefaultImage)))
           /\ Ordered(StartBlank(e))
           /\ BlankPuts(StartBlank(e), PrimaryFiles) /\ BlankPuts(StartBlank(e), CoreFiles)
<1> DEFINE s == Rewrite("nv_data.bin", Full(DefaultImage)) \o UpdateMD5(Full(DefaultImage), e)
           t == BackupNVData(DefaultImage)
<1>0. DefaultImage \in Images /\ DefaultImage.core = DefaultValue
  BY NVAssumption DEF DefaultImage, Images
<1>1. Updates(s, DefaultImage, e)
  BY <1>0, UpdatePrograms
<1>2. /\ t \in Seq(Instructions) /\ KindlyPuts(t)
      /\ \A F : F \cap (PrimaryFiles \cup CoreFiles) = {} => NoPut(t, F)
      /\ Ends(t, ".nv_data.bak", Full(DefaultImage))
      /\ Ends(t, ".nv_data.bak.md5", Digest(Full(DefaultImage)))
      /\ Ordered(t) /\ \A F : BlankPuts(t, F)
  BY <1>0, BackupProgram
<1>3. StartBlank(e) = s \o t
  BY DEF StartBlank
<1> HIDE DEF s, t
<1>4. NoPut(t, {"nv_data.bin"}) /\ NoPut(t, {"nv_data.bin.md5"}) /\ NoPut(t, {".nv_state"})
  BY <1>2 DEF PrimaryFiles, CoreFiles
<1>5. s \in Seq(Instructions) /\ BlankPuts(s, PrimaryFiles) /\ BlankPuts(s, CoreFiles)
  BY <1>1, NoPutIsHarmless DEF Updates
<1>6. s \o t \in Seq(Instructions) /\ KindlyPuts(s \o t)
  BY <1>1, <1>2, <1>5, Concat, ConcatKindlyPuts DEF Updates
<1>7. /\ Ends(s \o t, "nv_data.bin", Full(DefaultImage))
      /\ Ends(s \o t, "nv_data.bin.md5", Digest(Full(DefaultImage)))
      /\ ~e => Ends(s \o t, ".nv_state", One)
      /\ Ends(s \o t, ".nv_data.bak", Full(DefaultImage))
      /\ Ends(s \o t, ".nv_data.bak.md5", Digest(Full(DefaultImage)))
  BY <1>1, <1>2, <1>4, <1>5, ConcatEnds DEF Updates
<1>8. e => NoPut(s \o t, {".nv_state"})
  BY <1>1, <1>2, <1>4, <1>5, ConcatNoPut DEF Updates
<1>9. Ordered(s \o t)
  BY <1>1, <1>2, <1>5, ConcatOrdered DEF Updates
<1>10. BlankPuts(s \o t, PrimaryFiles) /\ BlankPuts(s \o t, CoreFiles)
  BY <1>2, <1>5, ConcatBlankPuts
<1> QED
  BY <1>3, <1>6, <1>7, <1>8, <1>9, <1>10

-----------------------------------------------------------------------------
(* NV data: types.                                                         *)

NVTypes ==
    /\ files \in [Files -> Contents] /\ disk \in [Files -> Contents]
    /\ \A f \in Files : files[f].kind \in KindsOf(f) /\ disk[f].kind \in KindsOf(f)
    /\ program \in Seq(Instructions) /\ KindlyPuts(program)
    /\ running \in BOOLEAN /\ md5Enabled \in BOOLEAN /\ clean \in BOOLEAN
    /\ want \in Images
    /\ starts \in 0 .. MaxStarts

\* A content is made of its kind and its image.
LEMMA ContentParts ==
    ASSUME NEW c \in Contents
    PROVE  /\ c.image \in Images /\ c.image.core \in Values /\ c.image.rest \in Values
           /\ c.kind \in Kinds
           /\ c.kind = "full" => c = Full(c.image)
BY DEF Contents, Images, Full, Content

\* The digests that tryLoadNV looks at.
LEMMA DigestFiles ==
    /\ DigestFile["nv_data.bin"] = "nv_data.bin.md5"
    /\ DigestFile[".nv_data.bak"] = ".nv_data.bak.md5"
    /\ DigestFile[".nv_core.bak"] = ".nv_core.bak.md5"
<1>1. "nv_data.bin" \in Copies /\ ".nv_data.bak" \in Copies /\ ".nv_core.bak" \in Copies
  BY DEF Copies, Backups
<1> QED
  BY <1>1 DEF DigestFile

LEMMA FileNames ==
    /\ "nv_data.bin" \in Files /\ ".nv_data.bak" \in Files /\ ".nv_core.bak" \in Files
    /\ "nv_data.bin.md5" \in Files /\ ".nv_data.bak.md5" \in Files /\ ".nv_core.bak.md5" \in Files
    /\ ".nv_state" \in Files
BY DEF Files, Digests, Copies, Backups

\* /efs before the first start.
LEMMA InitFiles ==
    ASSUME NVInit
    PROVE  /\ files \in [Files -> Contents]
           /\ \A f \in Files : files[f].kind \in KindsOf(f)
           /\ ~MarkerEnables(files) => ~IsDigest(files[".nv_data.bak.md5"])
<1>1. PICK v \in Images, old \in [core : Values \ {DefaultValue}, rest : Values \ {DefaultValue}],
           digests \in BOOLEAN, state \in {Missing, Zero}, good \in SUBSET Copies :
           files = [f \in Files |->
              IF f \in (Copies \ good) \cup (IF digests THEN {} ELSE Digests) THEN Missing
              ELSE CASE f = "nv_data.bin"      -> Full(v)
                     [] f = ".nv_data.bak"     -> Full(old)
                     [] f = ".nv_core.bak"     -> Core(old)
                     [] f = ".nv_state"        -> IF digests THEN One ELSE state
                     [] f = "nv_data.bin.md5"  -> Digest(Full(v))
                     [] f = ".nv_data.bak.md5" -> Digest(Full(old))
                     [] f = ".nv_core.bak.md5" -> Digest(Core(old))
                     [] f = ".nv_data.md5"     -> Missing]
  BY DEF NVInit
<1> DEFINE Absent == (Copies \ good) \cup (IF digests THEN {} ELSE Digests)
           Held(f) == CASE f = "nv_data.bin"      -> Full(v)
                        [] f = ".nv_data.bak"     -> Full(old)
                        [] f = ".nv_core.bak"     -> Core(old)
                        [] f = ".nv_state"        -> IF digests THEN One ELSE state
                        [] f = "nv_data.bin.md5"  -> Digest(Full(v))
                        [] f = ".nv_data.bak.md5" -> Digest(Full(old))
                        [] f = ".nv_core.bak.md5" -> Digest(Core(old))
                        [] f = ".nv_data.md5"     -> Missing
<1>2. old \in Images
  BY DEF Images
<1>3. /\ Held("nv_data.bin") = Full(v) /\ Held(".nv_data.bak") = Full(old)
      /\ Held(".nv_core.bak") = Core(old) /\ Held("nv_data.bin.md5") = Digest(Full(v))
      /\ Held(".nv_data.bak.md5") = Digest(Full(old)) /\ Held(".nv_core.bak.md5") = Digest(Core(old))
      /\ Held(".nv_data.md5") = Missing /\ Held(".nv_state") \in {One, Missing, Zero}
      /\ digests => Held(".nv_state") = One
  OBVIOUS
<1>4. files = [f \in Files |-> IF f \in Absent THEN Missing ELSE Held(f)]
  BY <1>1
<1> HIDE DEF Absent, Held
<1>5. Zero \in Contents /\ Zero.kind = "0" /\ Missing \in Contents /\ Missing.kind = "missing"
  BY NVAssumption DEF Zero, Missing, Content, Contents, Kinds, NoImage, Images
<1>6. /\ Fits(Full(v), "nv_data.bin") /\ Fits(Full(old), ".nv_data.bak") /\ Fits(Core(old), ".nv_core.bak")
      /\ Fits(Digest(Full(v)), "nv_data.bin.md5") /\ Fits(Digest(Full(old)), ".nv_data.bak.md5")
      /\ Fits(Digest(Core(old)), ".nv_core.bak.md5") /\ Fits(One, ".nv_state")
  <2>1. "nv_data.bin.md5" \in Digests /\ ".nv_data.bak.md5" \in Digests /\ ".nv_core.bak.md5" \in Digests
    BY DEF Digests
  <2> QED
    BY <1>2, <2>1, FittingContents
<1>7. "0" \in KindsOf(".nv_state") /\ \A f \in Files : "missing" \in KindsOf(f)
  BY DEF KindsOf, Digests
<1>8. ASSUME NEW f \in Files PROVE Held(f) \in Contents /\ Held(f).kind \in KindsOf(f)
  <2>1. \/ f = "nv_data.bin" \/ f = ".nv_data.bak" \/ f = ".nv_core.bak" \/ f = ".nv_state"
        \/ f = "nv_data.bin.md5" \/ f = ".nv_data.bak.md5" \/ f = ".nv_core.bak.md5" \/ f = ".nv_data.md5"
    BY DEF Files, Copies, Backups, Digests
  <2> QED
    BY <1>3, <1>5, <1>6, <1>7, <2>1 DEF Fits
<1>9. files \in [Files -> Contents] /\ \A f \in Files : files[f].kind \in KindsOf(f)
  BY <1>4, <1>5, <1>7, <1>8
<1>10. ASSUME ~MarkerEnables(files) PROVE ~IsDigest(files[".nv_data.bak.md5"])
  <2>1. ".nv_state" \notin Absent
    BY DEF Absent, Copies, Backups, Digests
  <2>2. ~digests
    BY <1>3, <1>4, <1>10, <2>1, FileNames DEF MarkerEnables, One, Content
  <2>3. ".nv_data.bak.md5" \in Absent
    BY <2>2 DEF Absent, Digests
  <2> QED
    BY <1>4, <1>5, <2>3, FileNames DEF IsDigest
<1> QED
  BY <1>9, <1>10

-----------------------------------------------------------------------------
(* NV data: what the actions do.                                           *)

\* The four ways to start, and the data that each one serves.
LEMMA StartCases ==
    ASSUME NVTypes, Start
    PROVE  \E v \in Images :
              /\ want' = IF clean THEN want ELSE v
              /\ \/ /\ LoadsData(files) /\ files["nv_data.bin"] = Full(v)
                    /\ program' = << >> /\ md5Enabled' = MarkerEnables(files)
                 \/ /\ ~LoadsData(files) /\ LoadsBackup(files) /\ files[".nv_data.bak"] = Full(v)
                    /\ Updates(program', v, MarkerEnables(files)) /\ md5Enabled' = TRUE
                 \/ /\ ~LoadsData(files) /\ ~LoadsBackup(files) /\ LoadsCore(files)
                    /\ v.core = files[".nv_core.bak"].image.core
                    /\ program' = RecoverFromCore(v, MarkerEnables(files))
                    /\ md5Enabled' = MarkerEnables(files)
                 \/ /\ ~LoadsData(files) /\ ~LoadsBackup(files) /\ ~LoadsCore(files)
                    /\ v = DefaultImage
                    /\ program' = StartBlank(MarkerEnables(files)) /\ md5Enabled' = TRUE
<1> DEFINE e == MarkerEnables(files)
           core == [files[".nv_core.bak"].image EXCEPT !.rest = PaddingValue]
<1>1. files \in [Files -> Contents] /\ e \in BOOLEAN
  BY DEF NVTypes, MarkerEnables
<1>2. /\ files["nv_data.bin"] \in Contents /\ files[".nv_data.bak"] \in Contents
      /\ files[".nv_core.bak"] \in Contents
  BY <1>1, FileNames
<1>3. core \in Images /\ core.core = files[".nv_core.bak"].image.core
  BY <1>2, NVAssumption DEF Contents, Images
<1>4. DefaultImage \in Images
  BY ContentTypes, <1>3
<1> HIDE DEF core, e
<1>5. CASE LoadsData(files)
  <2>1. files["nv_data.bin"] = Full(files["nv_data.bin"].image) /\ files["nv_data.bin"].image \in Images
    BY <1>2, <1>5, ContentParts DEF LoadsData, Loads
  <2>2. /\ program' = << >> /\ md5Enabled' = e
        /\ want' = IF clean THEN want ELSE files["nv_data.bin"].image
    BY <1>5 DEF Start, e
  <2> QED
    BY <1>5, <2>1, <2>2 DEF e
<1>6. CASE ~LoadsData(files) /\ LoadsBackup(files)
  <2> DEFINE v == files[".nv_data.bak"].image
  <2>1. files[".nv_data.bak"] = Full(v) /\ v \in Images
    BY <1>2, <1>6, ContentParts DEF LoadsBackup, Loads
  <2>2. /\ program' = RecoverFromBackup(files[".nv_data.bak"], e) /\ md5Enabled' = TRUE
        /\ want' = IF clean THEN want ELSE v
    BY <1>6 DEF Start, e
  <2> HIDE DEF v
  <2>3. program' = Rewrite("nv_data.bin", Full(v)) \o UpdateMD5(Full(v), e)
    BY <2>1, <2>2 DEF RecoverFromBackup
  <2>4. Updates(program', v, e)
    BY <1>1, <2>1, <2>3, UpdatePrograms
  <2> QED
    BY <1>6, <2>1, <2>2, <2>4 DEF e
<1>7. CASE ~LoadsData(files) /\ ~LoadsBackup(files) /\ LoadsCore(files)
  <2>1. /\ program' = RecoverFromCore(core, e) /\ md5Enabled' = e
        /\ want' = IF clean THEN want ELSE core
    BY <1>7 DEF Start, e, core
  <2> QED
    BY <1>3, <1>7, <2>1 DEF e
<1>8. CASE ~LoadsData(files) /\ ~LoadsBackup(files) /\ ~LoadsCore(files)
  <2>1. /\ program' = StartBlank(e) /\ md5Enabled' = TRUE
        /\ want' = IF clean THEN want ELSE DefaultImage
    BY <1>8 DEF Start, e
  <2> QED
    BY <1>4, <1>8, <2>1 DEF e
<1> QED
  BY <1>5, <1>6, <1>7, <1>8

\* A file that was synced survives a loss of power; any other holds the old or
\* the new content, or is torn, or is a mixture of two full copies.
LEMMA PowerLossFiles ==
    ASSUME NVTypes, PowerLoss
    PROVE  /\ disk' = files' /\ files' \in [Files -> Contents]
           /\ \A f \in Files : files'[f].kind \in KindsOf(f)
           /\ \A f \in Files : disk[f] = files[f] => files'[f] = files[f]
           /\ \A f \in Files : "full" \notin KindsOf(f) => files'[f] \in {disk[f], files[f], Torn}
<1>1. disk' = files'
  BY DEF PowerLoss
<1>2. PICK fate \in [Dirty -> UNION {AfterPowerLoss(f) : f \in Dirty}] :
          /\ \A f \in Dirty : fate[f] \in AfterPowerLoss(f)
          /\ files' = [f \in Files |-> IF f \in Dirty THEN fate[f] ELSE files[f]]
  BY DEF PowerLoss
<1>3. ASSUME NEW f \in Files
      PROVE  /\ files'[f] \in Contents /\ files'[f].kind \in KindsOf(f)
             /\ disk[f] = files[f] => files'[f] = files[f]
             /\ "full" \notin KindsOf(f) => files'[f] \in {disk[f], files[f], Torn}
  <2>1. /\ files[f] \in Contents /\ disk[f] \in Contents
        /\ files[f].kind \in KindsOf(f) /\ disk[f].kind \in KindsOf(f)
    BY DEF NVTypes
  <2>2. CASE f \notin Dirty
    BY <1>2, <2>1, <2>2
  <2>3. CASE f \in Dirty
    <3>1. files'[f] \in AfterPowerLoss(f) /\ disk[f] # files[f]
      BY <1>2, <2>3 DEF Dirty
    <3>2. Torn \in Contents /\ Torn.kind \in KindsOf(f)
      BY NVAssumption DEF Torn, Content, Contents, Kinds, NoImage, Images, KindsOf
    <3>3. CASE files'[f] \in {disk[f], files[f], Torn}
      BY <2>1, <3>1, <3>2, <3>3
    <3>4. CASE files'[f] \notin {disk[f], files[f], Torn}
      <4>1. PICK a, b \in {c \in {disk[f], files[f]} : c.kind = "full"} :
                files'[f] = Full([core |-> a.image.core, rest |-> b.image.rest])
        <5>1. files'[f] \in {Full([core |-> x.image.core, rest |-> y.image.rest]) :
                                x, y \in {c \in {disk[f], files[f]} : c.kind = "full"}}
          BY <3>1, <3>4 DEF AfterPowerLoss
        <5> DEFINE Whole == {c \in {disk[f], files[f]} : c.kind = "full"}
        <5>2. \E x \in Whole, y \in Whole : files'[f] = Full([core |-> x.image.core, rest |-> y.image.rest])
          BY <5>1
        <5> QED
          BY <5>2
      <4>2. "full" \in KindsOf(f) /\ a \in Contents /\ b \in Contents
        BY <2>1, <4>1
      <4>3. [core |-> a.image.core, rest |-> b.image.rest] \in Images
        BY <4>2, ContentParts DEF Images
      <4>4. files'[f] \in Contents /\ files'[f].kind = "full"
        BY <4>1, <4>3, ContentTypes DEF Full, Content
      <4> QED
        BY <3>1, <4>2, <4>4
    <3> QED
      BY <3>3, <3>4
  <2> QED
    BY <2>2, <2>3
<1>4. files' \in [Files -> Contents]
  BY <1>2, <1>3
<1> QED
  BY <1>1, <1>3, <1>4

\* The first instruction is carried out.
LEMMA StepCases ==
    ASSUME NVTypes, Step
    PROVE  /\ program # << >> /\ program' = Tail(program) /\ running /\ running'
           /\ Head(program) \in Instructions
           /\ UNCHANGED << md5Enabled, want, clean, starts >>
           /\ \/ /\ Head(program).op = "put" /\ disk' = disk
                 /\ Fits(Head(program).content, Head(program).file)
                 /\ files' = [files EXCEPT ![Head(program).file] = Head(program).content]
              \/ /\ Head(program).op = "sync" /\ files' = files
                 /\ disk' = [disk EXCEPT ![Head(program).file] = files[Head(program).file]]
<1>1. program # << >> /\ program \in Seq(Instructions) /\ KindlyPuts(program)
  BY DEF NVTypes, Step
<1>2. /\ Head(program) \in Instructions
      /\ Head(program).op = "put" => Fits(Head(program).content, Head(program).file)
  BY <1>1, HeadAndTail, TailPuts
<1> QED
  BY <1>1, <1>2 DEF Step

LEMMA NVTypesInit == NVInit => NVTypes
<1> SUFFICES ASSUME NVInit PROVE NVTypes
  OBVIOUS
<1>1. DefaultImage \in Images
  BY NVAssumption DEF DefaultImage, Images
<1>2. /\ files \in [Files -> Contents]
      /\ \A f \in Files : files[f].kind \in KindsOf(f)
  BY InitFiles
<1>3. /\ disk = files /\ program = << >> /\ running = FALSE /\ md5Enabled = FALSE
      /\ want = DefaultImage /\ clean = FALSE /\ starts = 0
  BY DEF NVInit
<1>4. program \in Seq(Instructions) /\ KindlyPuts(program)
  BY <1>3, EmptyProgram
<1>5. starts \in 0 .. MaxStarts
  BY <1>3, NVAssumption
<1>6. running \in BOOLEAN /\ md5Enabled \in BOOLEAN /\ clean \in BOOLEAN
  BY <1>3, Zenon
<1> QED
  BY <1>1, <1>2, <1>3, <1>4, <1>5, <1>6, Zenon DEF NVTypes

LEMMA NVTypesNext == NVTypes /\ [NVNext]_nvVars => NVTypes'
<1> SUFFICES ASSUME NVTypes, [NVNext]_nvVars PROVE NVTypes'
  OBVIOUS
<1>1. CASE Start
  <2>1. PICK v \in Images :
              /\ want' = IF clean THEN want ELSE v
              /\ \/ program' = << >> /\ md5Enabled' = MarkerEnables(files)
                 \/ Updates(program', v, MarkerEnables(files)) /\ md5Enabled' = TRUE
                 \/ /\ program' = RecoverFromCore(v, MarkerEnables(files))
                    /\ md5Enabled' = MarkerEnables(files)
                 \/ program' = StartBlank(MarkerEnables(files)) /\ md5Enabled' = TRUE
    BY <1>1, StartCases
  <2>2. PICK e \in BOOLEAN : e = MarkerEnables(files)
    BY DEF MarkerEnables
  <2>3. program' \in Seq(Instructions) /\ KindlyPuts(program')
    BY <2>1, <2>2, EmptyProgram, RecoverFromCoreProgram, StartBlankProgram DEF Updates
  <2>4. md5Enabled' \in BOOLEAN /\ want' \in Images
    BY <2>1, <2>2 DEF NVTypes
  <2>5. /\ files' = files /\ disk' = disk /\ running' = TRUE /\ clean' = TRUE
        /\ starts' = starts + 1 /\ starts < MaxStarts
    BY <1>1 DEF Start
  <2> QED
    BY <2>3, <2>4, <2>5, NVAssumption DEF NVTypes, KindlyPuts
<1>2. ASSUME NEW v \in Images, WriteNVData(v) PROVE NVTypes'
  <2>1. Updates(program', v, md5Enabled)
    BY <1>2, UpdatePrograms DEF WriteNVData, NVTypes
  <2>2. program' \in Seq(Instructions) /\ KindlyPuts(program')
    BY <2>1 DEF Updates
  <2> QED
    BY <1>2, <2>2 DEF WriteNVData, NVTypes, KindlyPuts
<1>3. CASE Step
  <2>1. program' \in Seq(Instructions) /\ KindlyPuts(program')
    BY <1>3, StepCases, HeadAndTail, TailPuts DEF NVTypes
  <2>2. PICK i \in Instructions : i = Head(program)
    BY <1>3, StepCases
  <2>3. i.file \in Files /\ i.content \in Contents
    BY DEF Instructions
  <2>4. files' \in [Files -> Contents] /\ \A f \in Files : files'[f].kind \in KindsOf(f)
    BY <1>3, <2>2, <2>3, StepCases DEF NVTypes, Fits
  <2>5. disk' \in [Files -> Contents] /\ \A f \in Files : disk'[f].kind \in KindsOf(f)
    BY <1>3, <2>2, <2>3, StepCases DEF NVTypes
  <2> QED
    BY <1>3, <2>1, <2>4, <2>5 DEF Step, NVTypes, KindlyPuts
<1>4. ASSUME NEW f \in Files, Writeback(f) PROVE NVTypes'
  BY <1>4 DEF Writeback, NVTypes, KindlyPuts
<1>5. CASE Crash
  <2>1. clean' \in BOOLEAN
    BY <1>5, Zenon DEF Crash
  <2> QED
    BY <1>5, <2>1, EmptyProgram DEF Crash, NVTypes, KindlyPuts
<1>6. CASE PowerLoss
  <2>1. clean' \in BOOLEAN
    BY <1>6, Zenon DEF PowerLoss
  <2>2. program' \in Seq(Instructions) /\ KindlyPuts(program')
    BY <1>6, EmptyProgram DEF PowerLoss
  <2>3. /\ files' \in [Files -> Contents] /\ disk' \in [Files -> Contents]
        /\ \A f \in Files : files'[f].kind \in KindsOf(f) /\ disk'[f].kind \in KindsOf(f)
    BY <1>6, PowerLossFiles
  <2>4. running' \in BOOLEAN /\ md5Enabled' \in BOOLEAN /\ want' \in Images /\ starts' \in 0 .. MaxStarts
    BY <1>6 DEF PowerLoss, NVTypes
  <2> QED
    BY <2>1, <2>2, <2>3, <2>4 DEF NVTypes, KindlyPuts
<1>7. CASE UNCHANGED nvVars
  BY <1>7 DEF nvVars, NVTypes, KindlyPuts
<1> QED
  BY <1>1, <1>2, <1>3, <1>4, <1>5, <1>6, <1>7 DEF NVNext

-----------------------------------------------------------------------------
(* NV data: what was written is found again.                               *)

\* File f will hold c when the program has run.
Settles(f, c) ==
    \/ NoPut(program, {f}) /\ files[f] = c
    \/ Ends(program, f, c)

\* When the program has run, nv_data.bin will hold w; if digests count then,
\* so will its digest, or the primary backup and its digest.
SettledFor(w, m) ==
    /\ Settles("nv_data.bin", Full(w))
    /\ \E c \in Contents : Settles(".nv_state", c) /\ (m <=> c.kind \notin {"missing", "0"})
    /\ \/ ~m
       \/ Settles("nv_data.bin.md5", Digest(Full(w)))
       \/ /\ Settles(".nv_data.bak", Full(w))
          /\ Settles(".nv_data.bak.md5", Digest(Full(w)))

\* A start finds w: in nv_data.bin, or in the primary backup if the digest of
\* nv_data.bin is stale.
Restartable(w) ==
    /\ files["nv_data.bin"] = Full(w)
    /\ \/ ~MarkerEnables(files)
       \/ files["nv_data.bin.md5"] = Digest(Full(w))
       \/ /\ files[".nv_data.bak"] = Full(w)
          /\ files[".nv_data.bak.md5"] = Digest(Full(w))

DataInv ==
    /\ running => SettledFor(want, md5Enabled)
    /\ ~running => program = << >> /\ (clean => Restartable(want))

\* A step does what the program was going to do.
LEMMA StepSettles ==
    ASSUME NVTypes, Step, NEW f \in Files, NEW c, Settles(f, c)
    PROVE  Settles(f, c)'
<1> DEFINE i == Head(program)
           t == Tail(program)
<1>1. program \in Seq(Instructions) /\ program # << >> /\ files \in [Files -> Contents]
  BY StepCases DEF NVTypes
<1>2. /\ i \in Instructions /\ program' = t
      /\ \/ i.op = "put" /\ files' = [files EXCEPT ![i.file] = i.content]
         \/ i.op = "sync" /\ files' = files
  BY StepCases
<1>3. NoPut(program, {f}) => ~PutTo(i, {f}) /\ NoPut(t, {f})
  BY <1>1, TailNoPut
<1>4. Ends(program, f, c) => Ends(t, f, c) \/ (i = Put(f, c) /\ NoPut(t, {f}))
  BY <1>1, TailEnds
<1> HIDE DEF i, t
<1>5. CASE NoPut(program, {f}) /\ files[f] = c
  <2>1. files'[f] = c
    BY <1>1, <1>2, <1>3, <1>5 DEF PutTo
  <2> QED
    BY <1>2, <1>3, <1>5, <2>1 DEF Settles, NoPut
<1>6. CASE Ends(t, f, c)
  BY <1>2, <1>6 DEF Settles, Ends
<1>7. CASE i = Put(f, c) /\ NoPut(t, {f})
  <2>1. files'[f] = c
    BY <1>1, <1>2, <1>7 DEF Put
  <2> QED
    BY <1>2, <1>7, <2>1 DEF Settles, NoPut
<1> QED
  BY <1>4, <1>5, <1>6, <1>7 DEF Settles

\* A new program, and files as they were.
LEMMA ProgramSettles ==
    ASSUME UNCHANGED files, NEW f
    PROVE  /\ NoPut(program', {f}) => \A c : files[f] = c => Settles(f, c)'
           /\ \A c : Ends(program', f, c) => Settles(f, c)'
BY DEF Settles, NoPut, Ends

\* When the program is empty, all is settled.
LEMMA RestSettles ==
    ASSUME program = << >>, NEW f, NEW c
    PROVE  Settles(f, c) <=> files[f] = c
<1>1. NoPut(program, {f})
  BY EmptyProgram
<1>2. ~Ends(program, f, c)
  BY DEF Ends
<1> QED
  BY <1>1, <1>2 DEF Settles

LEMMA StepSettledFor ==
    ASSUME NVTypes, Step, NEW w, NEW m, SettledFor(w, m)
    PROVE  SettledFor(w, m)'
<1>1. Settles("nv_data.bin", Full(w))'
  BY StepSettles, FileNames DEF SettledFor
<1>2. PICK c \in Contents : Settles(".nv_state", c) /\ (m <=> c.kind \notin {"missing", "0"})
  BY DEF SettledFor
<1>3. Settles(".nv_state", c)'
  BY <1>2, StepSettles, FileNames
<1>4. \/ ~m
      \/ Settles("nv_data.bin.md5", Digest(Full(w)))'
      \/ Settles(".nv_data.bak", Full(w))' /\ Settles(".nv_data.bak.md5", Digest(Full(w)))'
  BY StepSettles, FileNames DEF SettledFor
<1> QED
  BY <1>1, <1>2, <1>3, <1>4 DEF SettledFor

LEMMA RestSettledFor ==
    ASSUME program = << >>, NEW w, NEW m, SettledFor(w, m)
    PROVE  Restartable(w) /\ (m <=> MarkerEnables(files))
<1>1. \A f, c : Settles(f, c) <=> files[f] = c
  BY RestSettles
<1> QED
  BY <1>1 DEF SettledFor, Restartable, MarkerEnables

\* After an update of nv_data.bin and its digest.
LEMMA UpdatesSettle ==
    ASSUME NVTypes, UNCHANGED files, NEW v \in Images, NEW e \in BOOLEAN, Updates(program', v, e),
           e => MarkerEnables(files)
    PROVE  SettledFor(v, TRUE)'
<1>1. Settles("nv_data.bin", Full(v))' /\ Settles("nv_data.bin.md5", Digest(Full(v)))'
  BY ProgramSettles DEF Updates
<1>2. \E c \in Contents : Settles(".nv_state", c)' /\ c.kind \notin {"missing", "0"}
  <2>1. CASE e
    <3>1. PICK c : c = files[".nv_state"]
      OBVIOUS
    <3>2. c \in Contents /\ c.kind \notin {"missing", "0"}
      BY <2>1, <3>1, FileNames DEF NVTypes, MarkerEnables
    <3>3. Settles(".nv_state", c)'
      BY <2>1, <3>1, ProgramSettles DEF Updates
    <3> QED
      BY <3>2, <3>3
  <2>2. CASE ~e
    <3>1. PICK c : c = One
      OBVIOUS
    <3>2. c \in Contents /\ c.kind \notin {"missing", "0"}
      BY <3>1, ContentTypes DEF One, Content
    <3>3. Settles(".nv_state", c)'
      BY <2>2, <3>1, ProgramSettles DEF Updates
    <3> QED
      BY <3>2, <3>3
  <2> QED
    BY <2>1, <2>2
<1> QED
  BY <1>1, <1>2 DEF SettledFor

\* A start settles for what it found, and for what was wanted if the history
\* goes on.
LEMMA StartSettles ==
    ASSUME NVTypes, DataInv, Start
    PROVE  SettledFor(want, md5Enabled)'
<1>1. PICK v \in Images :
              /\ want' = IF clean THEN want ELSE v
              /\ \/ /\ LoadsData(files) /\ files["nv_data.bin"] = Full(v)
                    /\ program' = << >> /\ md5Enabled' = MarkerEnables(files)
                 \/ /\ ~LoadsData(files) /\ LoadsBackup(files) /\ files[".nv_data.bak"] = Full(v)
                    /\ Updates(program', v, MarkerEnables(files)) /\ md5Enabled' = TRUE
                 \/ /\ ~LoadsData(files) /\ ~LoadsBackup(files) /\ LoadsCore(files)
                    /\ v.core = files[".nv_core.bak"].image.core
                    /\ program' = RecoverFromCore(v, MarkerEnables(files))
                    /\ md5Enabled' = MarkerEnables(files)
                 \/ /\ ~LoadsData(files) /\ ~LoadsBackup(files) /\ ~LoadsCore(files)
                    /\ v = DefaultImage
                    /\ program' = StartBlank(MarkerEnables(files)) /\ md5Enabled' = TRUE
  BY StartCases
<1>2. /\ files' = files /\ ~running /\ files \in [Files -> Contents]
      /\ clean => Restartable(want)
  BY DEF Start, DataInv, NVTypes
<1>3. PICK e \in BOOLEAN : e = MarkerEnables(files)
  BY DEF MarkerEnables
<1>4. clean => LoadsData(files) \/ (~LoadsData(files) /\ LoadsBackup(files))
  <2> SUFFICES ASSUME clean, ~LoadsData(files) PROVE LoadsBackup(files)
    OBVIOUS
  <2>1. Full(want).kind = "full"
    BY DEF Full, Content
  <2>2. files["nv_data.bin"] = Full(want) /\ MarkerEnables(files)
        /\ files["nv_data.bin.md5"] # Digest(Full(want))
    BY <1>2, <2>1, DigestFiles DEF Restartable, LoadsData, Loads
  <2>3. files[".nv_data.bak"] = Full(want) /\ files[".nv_data.bak.md5"] = Digest(Full(want))
    BY <1>2, <2>2 DEF Restartable
  <2> QED
    BY <2>1, <2>3, DigestFiles DEF LoadsBackup, Loads
<1>5. \A u \in Images, x \in Images : Full(u) = Full(x) => u = x
  BY DEF Full, Content
<1>6. want' = v
  <2>1. CASE ~clean
    BY <1>1, <2>1
  <2>2. CASE clean /\ LoadsData(files)
    BY <1>1, <1>2, <1>5, <2>2 DEF Restartable, NVTypes
  <2>3. CASE clean /\ ~LoadsData(files)
    <3>1. files[".nv_data.bak"] = Full(v)
      BY <1>1, <1>4, <2>3
    <3>2. files["nv_data.bin"] = Full(want)
      BY <1>2, <2>3 DEF Restartable
    <3>3. Full(want).kind = "full"
      BY DEF Full, Content
    <3>4. MarkerEnables(files) /\ files["nv_data.bin.md5"] # Digest(Full(want))
      BY <2>3, <3>2, <3>3, DigestFiles DEF LoadsData, Loads
    <3>5. files[".nv_data.bak"] = Full(want)
      BY <1>2, <2>3, <3>4 DEF Restartable
    <3> QED
      BY <1>1, <1>5, <2>3, <3>1, <3>5 DEF NVTypes
  <2> QED
    BY <2>1, <2>2, <2>3
<1>7. PICK m : m = md5Enabled'
  OBVIOUS
<1>8. PICK c : c = files[".nv_state"]
  OBVIOUS
<1>9. c \in Contents /\ (e <=> c.kind \notin {"missing", "0"})
  BY <1>2, <1>3, <1>8, FileNames DEF MarkerEnables
<1>10. CASE LoadsData(files)
  <2>1. files["nv_data.bin"] = Full(v) /\ program' = << >> /\ m = e
    BY <1>1, <1>3, <1>7, <1>10
  <2>2. e => files["nv_data.bin.md5"] = Digest(Full(v))
    BY <1>3, <1>10, <2>1, DigestFiles DEF LoadsData, Loads
  <2>3. \A f : NoPut(program', {f})
    BY <2>1, EmptyProgram
  <2>4. Settles("nv_data.bin", Full(v))' /\ Settles(".nv_state", c)'
    BY <1>2, <1>8, <2>1, <2>3, ProgramSettles
  <2>5. ~m \/ Settles("nv_data.bin.md5", Digest(Full(v)))'
    BY <1>2, <2>1, <2>2, <2>3, ProgramSettles
  <2>6. SettledFor(v, m)'
    BY <1>9, <2>1, <2>4, <2>5 DEF SettledFor
  <2> QED
    BY <1>6, <1>7, <2>6
<1>11. CASE ~LoadsData(files) /\ LoadsBackup(files)
  <2>1. Updates(program', v, e) /\ m = TRUE
    BY <1>1, <1>3, <1>7, <1>11
  <2>2. SettledFor(v, TRUE)'
    BY <1>2, <1>3, <2>1, UpdatesSettle
  <2> QED
    BY <1>6, <1>7, <2>1, <2>2
<1>12. CASE ~LoadsData(files) /\ ~LoadsBackup(files) /\ LoadsCore(files)
  <2>1. program' = RecoverFromCore(v, e) /\ m = e
    BY <1>1, <1>3, <1>7, <1>12
  <2>2. Settles("nv_data.bin", Full(v))' /\ Settles(".nv_state", c)'
    BY <1>2, <1>8, <2>1, RecoverFromCoreProgram, ProgramSettles
  <2>3. Settles(".nv_data.bak", Full(v))' /\ Settles(".nv_data.bak.md5", Digest(Full(v)))'
    BY <1>2, <2>1, RecoverFromCoreProgram, ProgramSettles
  <2>4. SettledFor(v, m)'
    BY <1>9, <2>1, <2>2, <2>3 DEF SettledFor
  <2> QED
    BY <1>6, <1>7, <2>4
<1>13. CASE ~LoadsData(files) /\ ~LoadsBackup(files) /\ ~LoadsCore(files)
  <2>1. program' = StartBlank(e) /\ m = TRUE /\ v = DefaultImage
    BY <1>1, <1>3, <1>7, <1>13
  <2>2. Settles("nv_data.bin", Full(v))' /\ Settles("nv_data.bin.md5", Digest(Full(v)))'
    BY <1>2, <2>1, StartBlankProgram, ProgramSettles
  <2>3. \E d \in Contents : Settles(".nv_state", d)' /\ d.kind \notin {"missing", "0"}
    <3>1. CASE e
      BY <1>2, <1>8, <1>9, <2>1, <3>1, StartBlankProgram, ProgramSettles
    <3>2. CASE ~e
      <4>1. PICK d : d = One
        OBVIOUS
      <4>2. d \in Contents /\ d.kind \notin {"missing", "0"}
        BY <1>1, <4>1, ContentTypes DEF One, Content
      <4>3. Settles(".nv_state", d)'
        BY <1>2, <2>1, <3>2, <4>1, StartBlankProgram, ProgramSettles
      <4> QED
        BY <4>2, <4>3
    <3> QED
      BY <3>1, <3>2
  <2>4. SettledFor(v, m)'
    BY <2>1, <2>2, <2>3 DEF SettledFor
  <2> QED
    BY <1>6, <1>7, <2>4
<1> QED
  BY <1>10, <1>11, <1>12, <1>13

LEMMA DataInvNext == NVTypes /\ DataInv /\ [NVNext]_nvVars => DataInv'
<1> SUFFICES ASSUME NVTypes, DataInv, [NVNext]_nvVars PROVE DataInv'
  OBVIOUS
<1>1. CASE Start
  BY <1>1, StartSettles DEF Start, DataInv
<1>2. ASSUME NEW v \in Images, WriteNVData(v) PROVE DataInv'
  <2>1. PICK e \in BOOLEAN : e = md5Enabled
    BY DEF NVTypes
  <2>2. Updates(program', v, e) /\ files' = files /\ md5Enabled' = TRUE /\ want' = v /\ running'
    BY <1>2, <2>1, UpdatePrograms DEF WriteNVData
  <2>3. e => MarkerEnables(files)
    BY <1>2, <2>1, RestSettledFor DEF WriteNVData, DataInv
  <2>4. SettledFor(v, TRUE)'
    BY <2>2, <2>3, UpdatesSettle
  <2> QED
    BY <2>2, <2>4 DEF DataInv
<1>3. CASE Step
  <2>1. PICK w, m : w = want /\ m = md5Enabled
    OBVIOUS
  <2>2. running /\ running' /\ want' = w /\ md5Enabled' = m
    BY <1>3, <2>1, StepCases
  <2>3. SettledFor(w, m)
    BY <2>1, <2>2 DEF DataInv
  <2>4. SettledFor(w, m)'
    BY <1>3, <2>3, StepSettledFor
  <2> QED
    BY <2>2, <2>4 DEF DataInv
<1>4. ASSUME NEW f \in Files, Writeback(f) PROVE DataInv'
  BY <1>4 DEF Writeback, DataInv, SettledFor, Settles, NoPut, Ends, Restartable, MarkerEnables
<1>5. CASE Crash
  <2>1. /\ running /\ ~running' /\ program' = << >> /\ want' = want /\ files' = files
        /\ clean' => program = << >>
    BY <1>5 DEF Crash
  <2>2. clean' => Restartable(want)
    BY <2>1, RestSettledFor DEF DataInv
  <2> QED
    BY <2>1, <2>2 DEF DataInv, Restartable, MarkerEnables
<1>6. CASE PowerLoss
  <2>1. /\ running /\ ~running' /\ program' = << >> /\ want' = want
        /\ clean' => program = << >> /\ Dirty = {}
    BY <1>6 DEF PowerLoss
  <2>2. clean' => Restartable(want)
    BY <2>1, RestSettledFor DEF DataInv
  <2>3. clean' => \A f \in Files : files'[f] = files[f]
    BY <1>6, <2>1, PowerLossFiles DEF Dirty
  <2> QED
    BY <2>1, <2>2, <2>3, FileNames DEF DataInv, Restartable, MarkerEnables
<1>7. CASE UNCHANGED nvVars
  BY <1>7 DEF nvVars, DataInv, SettledFor, Settles, NoPut, Ends, Restartable, MarkerEnables
<1> QED
  BY <1>1, <1>2, <1>3, <1>4, <1>5, <1>6, <1>7 DEF NVNext

-----------------------------------------------------------------------------
(* NV data: the last backup is never lost.                                 *)

\* Backup f holds more than blank data and has its digest.
Sound(f) ==
    /\ files[f].kind \in {"full", "core"}
    /\ files[f].image.core # DefaultValue
    /\ files[DigestFile[f]] = Digest(files[f])

\* The digest of the primary backup comes last, after the backup is synced.
DigestComesLast ==
    \A i \in 1 .. Len(program) :
        DigestPut(program[i]) =>
            /\ \A k \in i + 1 .. Len(program) : ~PutTo(program[k], PrimaryFiles)
            /\ \/ /\ NoPut(program, {".nv_data.bak"})
                  /\ disk[".nv_data.bak"] = files[".nv_data.bak"]
               \/ \E j \in 1 .. i - 1 : SyncedAt(program, j)

\* The program makes a primary backup that matches its digest.
MakesBackup ==
    \E v \in Images :
        Settles(".nv_data.bak", Full(v)) /\ Settles(".nv_data.bak.md5", Digest(Full(v)))

\* The primary backup has no digest, now and after a loss of power.
NoDigests ==
    ~IsDigest(files[".nv_data.bak.md5"]) /\ ~IsDigest(disk[".nv_data.bak.md5"])

\* The primary backup is synced and has its digest.
PrimaryKept ==
    /\ files[".nv_data.bak"].kind = "full"
    /\ disk[".nv_data.bak"] = files[".nv_data.bak"]
    /\ files[".nv_data.bak.md5"] = Digest(files[".nv_data.bak"])
    /\ disk[".nv_data.bak.md5"] = files[".nv_data.bak.md5"] \/ ~IsDigest(disk[".nv_data.bak.md5"])

\* Only the blank start writes .nv_core.bak, and it has nothing to lose.
CoreInv ==
    /\ BlankPuts(program, CoreFiles)
    /\ ~NoPut(program, CoreFiles) =>
          ~Sound(".nv_data.bak") /\ ~Sound(".nv_core.bak") /\ BlankPuts(program, PrimaryFiles)
    /\ Sound(".nv_core.bak") => \A f \in CoreFiles : disk[f] = files[f]

\* The primary backup is only rewritten when the partial one is sound, or when
\* it is worth nothing itself until its digest is written.
PrimaryInv ==
    /\ ~NoPut(program, PrimaryFiles) =>
          /\ \/ Sound(".nv_core.bak")
             \/ ~Sound(".nv_data.bak") /\ BlankPuts(program, PrimaryFiles)
             \/ ~IsDigest(files[".nv_data.bak.md5"])
          /\ MakesBackup
    /\ DigestComesLast

\* As long as a start may find digests switched off, the primary backup has
\* none, or is whole: it is not rewritten with an old digest beside it.
MarkerInv ==
    /\ MarkerEnables(disk) => MarkerEnables(files)
    /\ ~MarkerEnables(disk) => NoDigests \/ (PrimaryKept /\ NoPut(program, PrimaryFiles))

BackupInv == CoreInv /\ PrimaryInv /\ MarkerInv

LEMMA NoPrimaryWrites ==
    ASSUME NoPut(program, PrimaryFiles)
    PROVE  DigestComesLast
BY DEF DigestComesLast, NoPut, DigestPut, PutTo, PrimaryFiles

LEMMA BackupInvInit == NVInit => BackupInv
<1> SUFFICES ASSUME NVInit PROVE BackupInv
  OBVIOUS
<1>1. disk = files /\ program = << >>
  BY DEF NVInit
<1>2. /\ NoPut(program, CoreFiles) /\ NoPut(program, PrimaryFiles) /\ BlankPuts(program, CoreFiles)
  BY <1>1, EmptyProgram
<1>3. ~MarkerEnables(files) => ~IsDigest(files[".nv_data.bak.md5"])
  BY InitFiles
<1> QED
  BY <1>1, <1>2, <1>3, NoPrimaryWrites DEF BackupInv, CoreInv, PrimaryInv, MarkerInv, NoDigests

\* The order of the writes, as the program runs.
LEMMA StepDigestComesLast ==
    ASSUME NVTypes, Step, DigestComesLast
    PROVE  DigestComesLast'
<1> DEFINE h == Head(program)
           t == Tail(program)
<1>1. program \in Seq(Instructions) /\ program # << >>
  BY StepCases DEF NVTypes
<1>2. /\ h \in Instructions /\ program' = t
      /\ \/ h.op = "put" /\ files' = [files EXCEPT ![h.file] = h.content] /\ disk' = disk
         \/ h.op = "sync" /\ files' = files /\ disk' = [disk EXCEPT ![h.file] = files[h.file]]
  BY StepCases
<1>3. /\ h = program[1] /\ t \in Seq(Instructions)
      /\ Len(program) \in Nat /\ 1 <= Len(program) /\ Len(t) = Len(program) - 1
      /\ \A i \in 1 .. Len(t) : t[i] = program[i + 1] /\ i + 1 \in 2 .. Len(program)
      /\ \A i \in 2 .. Len(program) : program[i] = t[i - 1] /\ i - 1 \in 1 .. Len(t)
  BY <1>1, HeadAndTail
<1>4. NoPut(program, {".nv_data.bak"}) => ~PutTo(h, {".nv_data.bak"}) /\ NoPut(t, {".nv_data.bak"})
  BY <1>1, TailNoPut
<1>5. files \in [Files -> Contents] /\ disk \in [Files -> Contents] /\ h.file \in Files
  BY <1>2 DEF NVTypes, Instructions
<1> HIDE DEF h, t
<1> SUFFICES ASSUME NEW i \in 1 .. Len(t), DigestPut(t[i])
             PROVE  /\ \A k \in i + 1 .. Len(t) : ~PutTo(t[k], PrimaryFiles)
                    /\ \/ /\ NoPut(t, {".nv_data.bak"})
                          /\ disk'[".nv_data.bak"] = files'[".nv_data.bak"]
                       \/ \E j \in 1 .. i - 1 : SyncedAt(t, j)
  BY <1>2 DEF DigestComesLast, NoPut, SyncedAt
<1>6. PICK n : n = i + 1
  OBVIOUS
<1>7. n \in 1 .. Len(program) /\ DigestPut(program[n])
  BY <1>3, <1>6
<1>8. /\ \A k \in n + 1 .. Len(program) : ~PutTo(program[k], PrimaryFiles)
      /\ \/ /\ NoPut(program, {".nv_data.bak"})
            /\ disk[".nv_data.bak"] = files[".nv_data.bak"]
         \/ \E j \in 1 .. n - 1 : SyncedAt(program, j)
  BY <1>7 DEF DigestComesLast
<1>9. ASSUME NEW k \in i + 1 .. Len(t) PROVE ~PutTo(t[k], PrimaryFiles)
  <2>1. k \in 1 .. Len(t) /\ k + 1 \in n + 1 .. Len(program)
    BY <1>3, <1>6
  <2>2. t[k] = program[k + 1]
    BY <1>3, <2>1
  <2> QED
    BY <1>8, <2>1, <2>2
<1>10. CASE NoPut(program, {".nv_data.bak"}) /\ disk[".nv_data.bak"] = files[".nv_data.bak"]
  <2>1. disk'[".nv_data.bak"] = files'[".nv_data.bak"]
    BY <1>2, <1>4, <1>5, <1>10, FileNames DEF PutTo
  <2> QED
    BY <1>4, <1>9, <1>10, <2>1
<1>11. CASE \E j \in 1 .. n - 1 : SyncedAt(program, j)
  <2>1. PICK j \in 1 .. n - 1 : SyncedAt(program, j)
    BY <1>11
  <2>2. CASE j = 1
    <3>1. h = Sync(".nv_data.bak")
      BY <1>3, <2>1, <2>2 DEF SyncedAt
    <3>2. disk'[".nv_data.bak"] = files'[".nv_data.bak"]
      BY <1>2, <1>5, <3>1, FileNames DEF Sync
    <3>3. ASSUME NEW k \in 1 .. Len(t) PROVE ~PutTo(t[k], {".nv_data.bak"})
      <4>1. t[k] = program[k + 1] /\ k + 1 \in j + 1 .. Len(program)
        BY <1>3, <2>2
      <4> QED
        BY <2>1, <4>1 DEF SyncedAt
    <3> QED
      BY <1>9, <3>2, <3>3 DEF NoPut
  <2>3. CASE j # 1
    <3>1. PICK l : l = j - 1
      OBVIOUS
    <3>2. l \in 1 .. i - 1 /\ l \in 1 .. Len(t) /\ j \in 2 .. Len(program)
      BY <1>3, <1>6, <1>7, <2>3, <3>1
    <3>3. t[l] = Sync(".nv_data.bak")
      BY <1>3, <2>1, <3>1, <3>2 DEF SyncedAt
    <3>4. ASSUME NEW k \in l + 1 .. Len(t) PROVE ~PutTo(t[k], {".nv_data.bak"})
      <4>1. k \in 1 .. Len(t) /\ k + 1 \in j + 1 .. Len(program)
        BY <1>3, <3>1, <3>2
      <4>2. t[k] = program[k + 1]
        BY <1>3, <4>1
      <4> QED
        BY <2>1, <4>1, <4>2 DEF SyncedAt
    <3>5. SyncedAt(t, l)
      BY <3>3, <3>4 DEF SyncedAt
    <3> QED
      BY <1>9, <3>2, <3>5
  <2> QED
    BY <2>2, <2>3
<1> QED
  BY <1>8, <1>10, <1>11

\* Whether a backup is sound depends on its two files.
LEMMA SoundFiles ==
    ASSUME NEW f \in {".nv_data.bak", ".nv_core.bak"},
           files'[f] = files[f], files'[DigestFile[f]] = files[DigestFile[f]]
    PROVE  Sound(f)' <=> Sound(f)
BY DEF Sound

\* A blank write makes a backup unsound.
LEMMA BlankUnsound ==
    ASSUME NVTypes, NEW f \in {".nv_data.bak", ".nv_core.bak"}, NEW g \in {f, DigestFile[f]}, NEW c,
           c.image.core = DefaultValue, files' = [files EXCEPT ![g] = c]
    PROVE  ~Sound(f)'
<1>1. /\ f \in Files /\ DigestFile[f] \in Files /\ f # DigestFile[f]
  BY DigestFiles, FileNames
<1>2. files \in [Files -> Contents]
  BY DEF NVTypes
<1>3. CASE g = f
  <2>1. files'[f] = c
    BY <1>1, <1>2, <1>3
  <2> QED
    BY <2>1 DEF Sound
<1>4. CASE g = DigestFile[f]
  <2>1. files'[DigestFile[f]] = c
    BY <1>1, <1>2, <1>4
  <2>2. ASSUME NEW d, c = Digest(d) PROVE d.image.core = DefaultValue
    BY <2>2 DEF Digest, Content
  <2> QED
    BY <2>1, <2>2 DEF Sound
<1> QED
  BY <1>3, <1>4

\* A file that reaches the disk endangers nothing.
LEMMA DiskCatchesUp ==
    ASSUME NVTypes, UNCHANGED files, NEW f \in Files, disk' = [disk EXCEPT ![f] = files[f]],
           MarkerInv
    PROVE  /\ \A g \in Files : disk[g] = files[g] => disk'[g] = files'[g]
           /\ MarkerEnables(disk)' => MarkerEnables(files)'
           /\ ~MarkerEnables(disk)' => ~MarkerEnables(disk)
           /\ NoDigests => NoDigests'
           /\ PrimaryKept => PrimaryKept'
<1>1. /\ disk \in [Files -> Contents]
      /\ \A g \in Files : disk'[g] \in {disk[g], files[g]}
  BY DEF NVTypes
<1>2. \A g \in Files : disk[g] = files[g] => disk'[g] = files'[g]
  BY <1>1
<1>3. /\ MarkerEnables(disk)' => MarkerEnables(files)'
      /\ ~MarkerEnables(disk)' => ~MarkerEnables(disk)
  BY <1>1, FileNames DEF MarkerInv, MarkerEnables
<1>4. NoDigests => NoDigests'
  BY <1>1, FileNames DEF NoDigests
<1>5. PrimaryKept => PrimaryKept'
  BY <1>1, FileNames DEF PrimaryKept
<1> QED
  BY <1>2, <1>3, <1>4, <1>5

\* A sync.
LEMMA SyncBackupInv ==
    ASSUME NVTypes, BackupInv, Step, Head(program).op = "sync"
    PROVE  BackupInv'
<1>1. /\ program \in Seq(Instructions) /\ program # << >> /\ program' = Tail(program)
      /\ Head(program) \in Instructions /\ files' = files
      /\ disk' = [disk EXCEPT ![Head(program).file] = files[Head(program).file]]
  BY StepCases DEF NVTypes
<1>2. \A F : ~PutTo(Head(program), F)
  BY DEF PutTo
<1>3. \A F : NoPut(program', F) <=> NoPut(program, F)
  BY <1>1, <1>2, TailNoPut
<1>4. \A F : BlankPuts(program, F) => BlankPuts(program', F)
  BY <1>1, TailPuts
<1>5. Head(program).file \in Files
  BY <1>1 DEF Instructions
<1>6. /\ \A g \in Files : disk[g] = files[g] => disk'[g] = files'[g]
      /\ MarkerEnables(disk)' => MarkerEnables(files)'
      /\ ~MarkerEnables(disk)' => ~MarkerEnables(disk)
      /\ NoDigests => NoDigests'
      /\ PrimaryKept => PrimaryKept'
  BY <1>1, <1>5, DiskCatchesUp DEF BackupInv
<1>7. \A f : Sound(f)' <=> Sound(f)
  BY <1>1 DEF Sound
<1>8. MakesBackup => MakesBackup'
  <2> SUFFICES ASSUME MakesBackup PROVE MakesBackup'
    OBVIOUS
  <2>1. PICK v \in Images :
            Settles(".nv_data.bak", Full(v)) /\ Settles(".nv_data.bak.md5", Digest(Full(v)))
    BY DEF MakesBackup
  <2>2. Settles(".nv_data.bak", Full(v))' /\ Settles(".nv_data.bak.md5", Digest(Full(v)))'
    BY <2>1, StepSettles, FileNames
  <2> QED
    BY <2>2 DEF MakesBackup
<1>9. CoreInv'
  <2>1. \A f \in CoreFiles : f \in Files
    BY FileNames DEF CoreFiles
  <2>2. BlankPuts(program', CoreFiles)
    BY <1>4 DEF BackupInv, CoreInv
  <2>3. ~NoPut(program', CoreFiles) =>
          ~Sound(".nv_data.bak")' /\ ~Sound(".nv_core.bak")' /\ BlankPuts(program', PrimaryFiles)
    BY <1>3, <1>4, <1>7 DEF BackupInv, CoreInv
  <2>4. Sound(".nv_core.bak")' => \A f \in CoreFiles : disk'[f] = files'[f]
    BY <1>6, <1>7, <2>1 DEF BackupInv, CoreInv
  <2> QED
    BY <2>2, <2>3, <2>4 DEF CoreInv, BlankPuts, NoPut
<1>10. PrimaryInv'
  <2>1. ~NoPut(program', PrimaryFiles) =>
          /\ \/ Sound(".nv_core.bak")'
             \/ ~Sound(".nv_data.bak")' /\ BlankPuts(program', PrimaryFiles)
             \/ ~IsDigest(files'[".nv_data.bak.md5"])
          /\ MakesBackup'
    BY <1>1, <1>3, <1>4, <1>7, <1>8 DEF BackupInv, PrimaryInv
  <2>2. DigestComesLast'
    BY StepDigestComesLast DEF BackupInv, PrimaryInv
  <2> QED
    BY <2>1, <2>2 DEF PrimaryInv, BlankPuts, NoPut
<1>11. MarkerInv'
  BY <1>3, <1>6 DEF BackupInv, MarkerInv, NoPut
<1> QED
  BY <1>9, <1>10, <1>11 DEF BackupInv

\* A write.
LEMMA PutBackupInv ==
    ASSUME NVTypes, BackupInv, Step, Head(program).op = "put"
    PROVE  /\ BackupInv'
           /\ DurableBackup => DurableBackup'
<1> DEFINE h == Head(program)
           t == Tail(program)
           bak == ".nv_data.bak"
           md5 == ".nv_data.bak.md5"
<1>1. /\ program \in Seq(Instructions) /\ program # << >> /\ program' = t
      /\ h \in Instructions /\ disk' = disk /\ Fits(h.content, h.file)
      /\ files' = [files EXCEPT ![h.file] = h.content]
  BY StepCases DEF NVTypes
<1>2. h.file \in Files /\ h.content \in Contents /\ h.op = "put" /\ files \in [Files -> Contents]
  BY <1>1 DEF Instructions, NVTypes
<1>3. \A F : NoPut(program, F) <=> h.file \notin F /\ NoPut(t, F)
  BY <1>1, <1>2, TailNoPut DEF PutTo
<1>4. \A F : BlankPuts(program, F) =>
                /\ BlankPuts(t, F)
                /\ h.file \in F => h.content.image.core = DefaultValue
  BY <1>1, <1>2, TailPuts DEF PutTo
<1>5. h = program[1] /\ 1 \in 1 .. Len(program) /\ DigestComesLast'
  BY <1>1, HeadAndTail, StepDigestComesLast DEF BackupInv, PrimaryInv
<1>6. MakesBackup => MakesBackup'
  <2> SUFFICES ASSUME MakesBackup PROVE MakesBackup'
    OBVIOUS
  <2>1. PICK v \in Images : Settles(bak, Full(v)) /\ Settles(md5, Digest(Full(v)))
    BY DEF MakesBackup
  <2>2. Settles(bak, Full(v))' /\ Settles(md5, Digest(Full(v)))'
    BY <2>1, StepSettles, FileNames
  <2> QED
    BY <2>2 DEF MakesBackup
<1>7. \A f \in Files : f # h.file => files'[f] = files[f]
  BY <1>1, <1>2
<1>8. files'[h.file] = h.content
  BY <1>1, <1>2
<1> HIDE DEF h, t
<1>9. DigestFile[bak] = md5 /\ DigestFile[".nv_core.bak"] = ".nv_core.bak.md5"
  BY DigestFiles
<1>10. h.file \notin PrimaryFiles => (Sound(bak)' <=> Sound(bak))
  BY <1>7, <1>9, SoundFiles, FileNames DEF PrimaryFiles
<1>11. h.file \notin CoreFiles => (Sound(".nv_core.bak")' <=> Sound(".nv_core.bak"))
  BY <1>7, <1>9, SoundFiles, FileNames DEF CoreFiles
<1>12. h.file \in PrimaryFiles /\ h.content.image.core = DefaultValue => ~Sound(bak)'
  BY <1>1, <1>9, BlankUnsound DEF PrimaryFiles
<1>13. h.file \in CoreFiles /\ h.content.image.core = DefaultValue => ~Sound(".nv_core.bak")'
  BY <1>1, <1>9, BlankUnsound DEF CoreFiles
<1>14. h.file \in PrimaryFiles => h.file \notin CoreFiles
  BY DEF PrimaryFiles, CoreFiles
<1>15. MarkerEnables(disk)' => MarkerEnables(files)'
  <2>1. CASE h.file = ".nv_state"
    <3>1. MarkerEnables(files)'
      BY <1>1, <1>8, <2>1 DEF MarkerEnables, Fits
    <3> QED
      BY <3>1
  <2>2. CASE h.file # ".nv_state"
    BY <1>1, <1>7, <2>2, FileNames DEF MarkerEnables, BackupInv, MarkerInv
  <2> QED
    BY <2>1, <2>2
\* The digest of the primary backup is written.
<1>16. ASSUME DigestPut(h)
       PROVE  /\ NoPut(t, PrimaryFiles) /\ disk[bak] = files[bak] /\ h.file = md5
              /\ files'[bak] = files[bak] /\ files'[bak].kind = "full"
              /\ files'[md5] = Digest(files'[bak])
  <2>1. /\ \A k \in 1 + 1 .. Len(program) : ~PutTo(program[k], PrimaryFiles)
        /\ \/ /\ NoPut(program, {bak})
              /\ disk[bak] = files[bak]
           \/ \E j \in 1 .. 1 - 1 : SyncedAt(program, j)
    BY <1>5, <1>16 DEF BackupInv, PrimaryInv, DigestComesLast
  <2>2. NoPut(program, {bak}) /\ disk[bak] = files[bak]
    BY <2>1
  <2>3. h.file = md5
    BY <1>16 DEF DigestPut, PutTo
  <2>4. NoPut(t, PrimaryFiles)
    <3>1. \A k \in 1 .. Len(t) : t[k] = program[k + 1] /\ k + 1 \in 1 + 1 .. Len(program)
      BY <1>1, HeadAndTail DEF t
    <3> QED
      BY <2>1, <3>1 DEF NoPut
  <2>5. ~NoPut(program, PrimaryFiles)
    BY <1>3, <2>3 DEF PrimaryFiles
  <2>6. MakesBackup'
    BY <1>6, <2>5 DEF BackupInv, PrimaryInv
  <2>7. PICK v \in Images : Settles(bak, Full(v))' /\ Settles(md5, Digest(Full(v)))'
    BY <2>6 DEF MakesBackup
  <2>8. NoPut(t, {bak}) /\ NoPut(t, {md5})
    BY <2>4, FewerNoPut DEF PrimaryFiles
  <2>9. ASSUME NEW f, NEW c, NoPut(t, {f}), Settles(f, c)' PROVE files'[f] = c
    <3>1. ~Ends(t, f, c)
      BY <2>9 DEF Ends, NoPut, PutTo, Put
    <3> QED
      BY <1>1, <2>9, <3>1 DEF Settles, Ends
  <2>10. files'[bak] = Full(v) /\ files'[md5] = Digest(Full(v))
    BY <2>7, <2>8, <2>9
  <2>11. Full(v).kind = "full"
    BY DEF Full, Content
  <2>12. files'[bak] = files[bak]
    BY <1>7, <2>3, FileNames
  <2> QED
    BY <2>2, <2>3, <2>4, <2>10, <2>11, <2>12
<1>17. ASSUME h.file \in PrimaryFiles
       PROVE  /\ ~NoPut(program, PrimaryFiles)
              /\ \/ Sound(".nv_core.bak")
                 \/ ~Sound(bak) /\ BlankPuts(program, PrimaryFiles)
                 \/ ~IsDigest(files[md5])
              /\ MakesBackup'
  BY <1>3, <1>6, <1>17 DEF BackupInv, PrimaryInv
<1>18. CoreInv'
  <2>1. BlankPuts(t, CoreFiles)
    BY <1>4 DEF BackupInv, CoreInv
  <2>2. ~NoPut(t, CoreFiles) =>
          ~Sound(bak)' /\ ~Sound(".nv_core.bak")' /\ BlankPuts(t, PrimaryFiles)
    BY <1>3, <1>4, <1>10, <1>11, <1>12, <1>13 DEF BackupInv, CoreInv
  <2>3. Sound(".nv_core.bak")' => \A f \in CoreFiles : disk'[f] = files'[f]
    <3>1. CASE h.file \in CoreFiles
      BY <1>4, <1>13, <3>1 DEF BackupInv, CoreInv
    <3>2. CASE h.file \notin CoreFiles
      <4>1. \A f \in CoreFiles : files'[f] = files[f] /\ disk'[f] = disk[f]
        BY <1>1, <1>7, <3>2, FileNames DEF CoreFiles
      <4> QED
        BY <1>11, <3>2, <4>1 DEF BackupInv, CoreInv
    <3> QED
      BY <3>1, <3>2
  <2> QED
    BY <1>1, <2>1, <2>2, <2>3 DEF CoreInv, BlankPuts, NoPut
<1>19. PrimaryInv'
  <2>1. ASSUME ~NoPut(t, PrimaryFiles)
        PROVE  /\ \/ Sound(".nv_core.bak")'
                  \/ ~Sound(bak)' /\ BlankPuts(t, PrimaryFiles)
                  \/ ~IsDigest(files'[md5])
               /\ MakesBackup'
    <3>1. ~DigestPut(h)
      BY <1>16, <2>1
    <3>2. /\ \/ Sound(".nv_core.bak")
             \/ ~Sound(bak) /\ BlankPuts(program, PrimaryFiles)
             \/ ~IsDigest(files[md5])
          /\ MakesBackup'
      BY <1>3, <1>6, <2>1 DEF BackupInv, PrimaryInv
    <3>3. CASE Sound(".nv_core.bak")
      <4>1. h.file \notin CoreFiles
        BY <1>3, <3>3 DEF BackupInv, CoreInv
      <4> QED
        BY <1>11, <3>2, <3>3, <4>1
    <3>4. CASE ~Sound(bak) /\ BlankPuts(program, PrimaryFiles)
      BY <1>4, <1>10, <1>12, <3>2, <3>4
    <3>5. CASE ~IsDigest(files[md5])
      <4>1. ~IsDigest(files'[md5])
        BY <1>2, <1>7, <1>8, <3>1, <3>5, FileNames DEF DigestPut, PutTo
      <4> QED
        BY <3>2, <4>1
    <3> QED
      BY <3>2, <3>3, <3>4, <3>5
  <2> QED
    BY <1>1, <1>5, <2>1 DEF PrimaryInv, BlankPuts, NoPut
<1>20. MarkerInv'
  <2>1. ASSUME ~MarkerEnables(disk)'
        PROVE  NoDigests' \/ (PrimaryKept' /\ NoPut(t, PrimaryFiles))
    <3>1. ~MarkerEnables(disk)
      BY <1>1, <2>1 DEF MarkerEnables
    <3>2. NoDigests \/ (PrimaryKept /\ NoPut(program, PrimaryFiles))
      BY <3>1 DEF BackupInv, MarkerInv
    <3>3. CASE h.file \notin PrimaryFiles
      <4>1. files'[bak] = files[bak] /\ files'[md5] = files[md5]
        BY <1>7, <3>3, FileNames DEF PrimaryFiles
      <4> QED
        BY <1>1, <1>3, <3>2, <3>3, <4>1 DEF NoDigests, PrimaryKept
    <3>4. CASE h.file \in PrimaryFiles
      <4>1. NoDigests
        BY <1>17, <3>2, <3>4
      <4>2. CASE DigestPut(h)
        BY <1>1, <1>16, <4>1, <4>2 DEF NoDigests, PrimaryKept
      <4>3. CASE ~DigestPut(h)
        BY <1>1, <1>2, <1>7, <1>8, <4>1, <4>3, FileNames DEF NoDigests, DigestPut, PutTo
      <4> QED
        BY <4>2, <4>3
    <3> QED
      BY <3>3, <3>4
  <2> QED
    BY <1>1, <1>15, <2>1 DEF MarkerInv, NoPut
<1>21. ASSUME DurableBackup PROVE DurableBackup'
  <2>1. PICK f \in Backups :
            /\ files[f].kind \in {"full", "core"}
            /\ files[f].image.core # DefaultValue
            /\ files[DigestFile[f]] = Digest(files[f])
            /\ {f, DigestFile[f]} \cap Dirty = {}
    BY <1>21 DEF DurableBackup
  <2>2. Sound(f) /\ f \in {bak, ".nv_core.bak"} /\ f \in Files /\ DigestFile[f] \in Files
    BY <1>9, <2>1, FileNames DEF Sound, Backups
  <2>3. disk[f] = files[f] /\ disk[DigestFile[f]] = files[DigestFile[f]]
    BY <2>1, <2>2 DEF Dirty
  <2>4. ASSUME NEW g \in {bak, ".nv_core.bak"}, Sound(g)', disk'[g] = files'[g],
               disk'[DigestFile[g]] = files'[DigestFile[g]]
        PROVE  DurableBackup'
    <3>1. g \in Backups /\ {g, DigestFile[g]} \cap Dirty' = {}
      BY <2>4 DEF Backups, Dirty
    <3> QED
      BY <2>4, <3>1 DEF DurableBackup, Sound
  <2>5. h.file \notin CoreFiles
    BY <1>3, <2>2 DEF BackupInv, CoreInv
  <2>6. CASE f = ".nv_core.bak"
    <3>1. Sound(f)' /\ files'[f] = files[f] /\ files'[DigestFile[f]] = files[DigestFile[f]]
      BY <1>7, <1>9, <1>11, <2>2, <2>5, <2>6, FileNames DEF CoreFiles
    <3> QED
      BY <1>1, <2>2, <2>3, <2>4, <3>1
  <2>7. CASE f = bak /\ h.file \notin PrimaryFiles
    <3>1. Sound(f)' /\ files'[f] = files[f] /\ files'[DigestFile[f]] = files[DigestFile[f]]
      BY <1>7, <1>9, <1>10, <2>2, <2>7, FileNames DEF PrimaryFiles
    <3> QED
      BY <1>1, <2>2, <2>3, <2>4, <3>1
  <2>8. CASE f = bak /\ h.file \in PrimaryFiles
    <3>1. IsDigest(files[md5])
      <4>1. IsDigest(Digest(files[f]))
        BY DEF IsDigest, Digest, Content
      <4> QED
        BY <1>9, <2>1, <2>8, <4>1
    <3>2. Sound(".nv_core.bak")
      BY <1>17, <2>2, <2>8, <3>1
    <3>3. disk[".nv_core.bak"] = files[".nv_core.bak"] /\ disk[".nv_core.bak.md5"] = files[".nv_core.bak.md5"]
      BY <3>2 DEF BackupInv, CoreInv, CoreFiles
    <3>4. /\ Sound(".nv_core.bak")' /\ files'[".nv_core.bak"] = files[".nv_core.bak"]
          /\ files'[".nv_core.bak.md5"] = files[".nv_core.bak.md5"]
      BY <1>7, <1>11, <2>5, <3>2, FileNames DEF CoreFiles
    <3> QED
      BY <1>1, <1>9, <2>4, <3>3, <3>4
  <2> QED
    BY <2>2, <2>6, <2>7, <2>8
<1> QED
  BY <1>18, <1>19, <1>20, <1>21 DEF BackupInv

\* A start would take a sound backup.
LEMMA SoundLoads ==
    ASSUME NVTypes
    PROVE  /\ Sound(".nv_data.bak") => LoadsBackup(files)
           /\ Sound(".nv_core.bak") => LoadsCore(files)
           /\ PrimaryKept => LoadsBackup(files)
<1>1. files[".nv_data.bak"].kind # "core"
  <2>1. files[".nv_data.bak"].kind \in KindsOf(".nv_data.bak")
    BY FileNames DEF NVTypes
  <2>2. KindsOf(".nv_data.bak") = {"missing", "torn"} \cup {"full"}
    BY DEF KindsOf, Digests
  <2> QED
    BY <2>1, <2>2
<1>2. files[".nv_core.bak"].kind # "full"
  <2>1. files[".nv_core.bak"].kind \in KindsOf(".nv_core.bak")
    BY FileNames DEF NVTypes
  <2>2. KindsOf(".nv_core.bak") = {"missing", "torn"} \cup {"core"}
    BY DEF KindsOf, Digests
  <2> QED
    BY <2>1, <2>2
<1>3. Sound(".nv_data.bak") => LoadsBackup(files)
  BY <1>1, DigestFiles DEF Sound, LoadsBackup, Loads
<1>4. Sound(".nv_core.bak") => LoadsCore(files)
  BY <1>2, DigestFiles DEF Sound, LoadsCore, Loads
<1>5. PrimaryKept => LoadsBackup(files)
  BY DigestFiles DEF PrimaryKept, LoadsBackup, Loads
<1> QED
  BY <1>3, <1>4, <1>5

\* A program that leaves the backups alone.
LEMMA HarmlessProgram ==
    ASSUME BackupInv, UNCHANGED << files, disk >>,
           NoPut(program', PrimaryFiles), NoPut(program', CoreFiles)
    PROVE  BackupInv'
<1>1. CoreInv'
  <2>1. BlankPuts(program', CoreFiles)
    BY NoPutIsHarmless
  <2> QED
    BY <2>1 DEF BackupInv, CoreInv, Sound, NoPut, BlankPuts
<1>2. PrimaryInv'
  BY DEF PrimaryInv, DigestComesLast, NoPut, DigestPut, PutTo, PrimaryFiles
<1>3. MarkerInv'
  BY DEF BackupInv, MarkerInv, MarkerEnables, NoDigests, PrimaryKept, NoPut
<1> QED
  BY <1>1, <1>2, <1>3 DEF BackupInv

\* A program that makes the backups anew.
LEMMA RebuildingProgram ==
    ASSUME NVTypes, BackupInv, UNCHANGED << files, disk >>, ~LoadsBackup(files),
           NEW v \in Images, Ordered(program'),
           Ends(program', ".nv_data.bak", Full(v)), Ends(program', ".nv_data.bak.md5", Digest(Full(v))),
           BlankPuts(program', CoreFiles),
           ~NoPut(program', CoreFiles) => ~Sound(".nv_core.bak") /\ BlankPuts(program', PrimaryFiles),
           \/ Sound(".nv_core.bak")
           \/ BlankPuts(program', PrimaryFiles)
           \/ ~MarkerEnables(files)
    PROVE  BackupInv'
<1>1. ~Sound(".nv_data.bak") /\ ~PrimaryKept
  BY SoundLoads
<1>2. ~MarkerEnables(disk) => NoDigests
  BY <1>1 DEF BackupInv, MarkerInv
<1>3. ~MarkerEnables(files) => ~IsDigest(files[".nv_data.bak.md5"])
  BY <1>2 DEF BackupInv, MarkerInv, NoDigests
<1>4. \A f : Sound(f)' <=> Sound(f)
  BY DEF Sound
<1>5. MakesBackup'
  <2>1. Settles(".nv_data.bak", Full(v))' /\ Settles(".nv_data.bak.md5", Digest(Full(v)))'
    BY ProgramSettles
  <2> QED
    BY <2>1 DEF MakesBackup
<1>6. DigestComesLast'
  BY DEF Ordered, DigestComesLast, SyncedAt
<1>7. CoreInv'
  BY <1>1, <1>4 DEF BackupInv, CoreInv, BlankPuts, NoPut
<1>8. PrimaryInv'
  <2>1. \/ Sound(".nv_core.bak")'
        \/ ~Sound(".nv_data.bak")' /\ BlankPuts(program', PrimaryFiles)
        \/ ~IsDigest(files'[".nv_data.bak.md5"])
    BY <1>1, <1>3, <1>4
  <2> QED
    BY <1>5, <1>6, <2>1 DEF PrimaryInv, BlankPuts
<1>9. MarkerInv'
  BY <1>2 DEF BackupInv, MarkerInv, MarkerEnables, NoDigests
<1> QED
  BY <1>7, <1>8, <1>9 DEF BackupInv

LEMMA StartBackupInv ==
    ASSUME NVTypes, BackupInv, Start
    PROVE  BackupInv'
<1>1. PICK v \in Images :
          \/ program' = << >>
          \/ Updates(program', v, MarkerEnables(files))
          \/ /\ ~LoadsBackup(files) /\ LoadsCore(files)
             /\ v.core = files[".nv_core.bak"].image.core
             /\ program' = RecoverFromCore(v, MarkerEnables(files))
          \/ /\ ~LoadsBackup(files) /\ ~LoadsCore(files)
             /\ program' = StartBlank(MarkerEnables(files))
  BY StartCases
<1>2. UNCHANGED << files, disk >>
  BY DEF Start
<1>3. PICK e \in BOOLEAN : e = MarkerEnables(files)
  BY DEF MarkerEnables
<1>4. CASE program' = << >>
  <2>1. NoPut(program', PrimaryFiles) /\ NoPut(program', CoreFiles)
    BY <1>4, EmptyProgram
  <2> QED
    BY <1>2, <2>1, HarmlessProgram
<1>5. CASE Updates(program', v, MarkerEnables(files))
  BY <1>2, <1>5, HarmlessProgram DEF Updates
<1>6. CASE /\ ~LoadsBackup(files) /\ LoadsCore(files)
           /\ v.core = files[".nv_core.bak"].image.core
           /\ program' = RecoverFromCore(v, MarkerEnables(files))
  <2>1. /\ Ends(program', ".nv_data.bak", Full(v)) /\ Ends(program', ".nv_data.bak.md5", Digest(Full(v)))
        /\ NoPut(program', CoreFiles) /\ Ordered(program')
        /\ v.core = DefaultValue => BlankPuts(program', PrimaryFiles)
    BY <1>6, RecoverFromCoreProgram
  <2>2. BlankPuts(program', CoreFiles)
    BY <2>1, NoPutIsHarmless
  <2>3. v.core # DefaultValue /\ MarkerEnables(files) => Sound(".nv_core.bak")
    BY <1>6, DigestFiles DEF LoadsCore, Loads, Sound
  <2> QED
    BY <1>2, <1>6, <2>1, <2>2, <2>3, RebuildingProgram
<1>7. CASE /\ ~LoadsBackup(files) /\ ~LoadsCore(files)
           /\ program' = StartBlank(MarkerEnables(files))
  <2>1. /\ Ends(program', ".nv_data.bak", Full(DefaultImage))
        /\ Ends(program', ".nv_data.bak.md5", Digest(Full(DefaultImage)))
        /\ Ordered(program')
        /\ BlankPuts(program', PrimaryFiles) /\ BlankPuts(program', CoreFiles)
    BY <1>3, <1>7, StartBlankProgram
  <2>2. ~Sound(".nv_core.bak")
    BY <1>7, SoundLoads
  <2>3. DefaultImage \in Images
    BY ContentTypes
  <2> QED
    BY <1>2, <1>7, <2>1, <2>2, <2>3, RebuildingProgram
<1> QED
  BY <1>1, <1>4, <1>5, <1>6, <1>7

LEMMA PowerLossBackupInv ==
    ASSUME NVTypes, BackupInv, PowerLoss
    PROVE  BackupInv'
<1>1. /\ disk' = files' /\ program' = << >>
      /\ \A f \in Files : disk[f] = files[f] => files'[f] = files[f]
      /\ \A f \in Files : "full" \notin KindsOf(f) => files'[f] \in {disk[f], files[f], Torn}
  BY PowerLossFiles DEF PowerLoss
<1>2. NoPut(program', PrimaryFiles) /\ NoPut(program', CoreFiles) /\ BlankPuts(program', CoreFiles)
  BY <1>1, EmptyProgram
<1>3. CoreInv'
  BY <1>1, <1>2 DEF CoreInv, NoPut, BlankPuts
<1>4. PrimaryInv'
  BY <1>2 DEF PrimaryInv, DigestComesLast, NoPut, DigestPut, PutTo, PrimaryFiles
<1>5. "full" \notin KindsOf(".nv_state") /\ "full" \notin KindsOf(".nv_data.bak.md5")
  BY DEF KindsOf, Digests
<1>6. /\ files'[".nv_state"] \in {disk[".nv_state"], files[".nv_state"], Torn}
      /\ files'[".nv_data.bak.md5"] \in {disk[".nv_data.bak.md5"], files[".nv_data.bak.md5"], Torn}
  BY <1>1, <1>5, FileNames
<1>7. Torn.kind = "torn"
  BY DEF Torn, Content
<1>8. ASSUME ~MarkerEnables(disk)' PROVE NoDigests' \/ PrimaryKept'
  <2>1. ~MarkerEnables(disk)
    BY <1>1, <1>6, <1>7, <1>8 DEF MarkerEnables, BackupInv, MarkerInv
  <2>2. CASE NoDigests
    BY <1>1, <1>6, <1>7, <2>2 DEF NoDigests, IsDigest
  <2>3. CASE PrimaryKept
    <3>1. files'[".nv_data.bak"] = files[".nv_data.bak"]
      BY <1>1, <2>3, FileNames DEF PrimaryKept
    <3>2. CASE files'[".nv_data.bak.md5"] = files[".nv_data.bak.md5"]
      BY <1>1, <2>3, <3>1, <3>2 DEF PrimaryKept
    <3>3. CASE files'[".nv_data.bak.md5"] # files[".nv_data.bak.md5"]
      BY <1>1, <1>6, <1>7, <2>3, <3>3 DEF PrimaryKept, NoDigests, IsDigest
    <3> QED
      BY <3>2, <3>3
  <2> QED
    BY <2>1, <2>2, <2>3 DEF BackupInv, MarkerInv
<1>9. MarkerInv'
  BY <1>1, <1>2, <1>8 DEF MarkerInv, MarkerEnables, NoPut
<1> QED
  BY <1>3, <1>4, <1>9 DEF BackupInv

LEMMA BackupInvNext == NVTypes /\ BackupInv /\ [NVNext]_nvVars => BackupInv'
<1> SUFFICES ASSUME NVTypes, BackupInv, [NVNext]_nvVars PROVE BackupInv'
  OBVIOUS
<1>1. CASE Start
  BY <1>1, StartBackupInv
<1>2. ASSUME NEW v \in Images, WriteNVData(v) PROVE BackupInv'
  <2>1. Updates(program', v, md5Enabled)
    BY <1>2, UpdatePrograms DEF WriteNVData, NVTypes
  <2> QED
    BY <1>2, <2>1, HarmlessProgram DEF Updates, WriteNVData
<1>3. CASE Step
  <2>1. Head(program).op = "put" \/ Head(program).op = "sync"
    BY <1>3, StepCases
  <2> QED
    BY <1>3, <2>1, SyncBackupInv, PutBackupInv
<1>4. ASSUME NEW f \in Files, Writeback(f) PROVE BackupInv'
  <2>1. files' = files /\ program' = program /\ disk' = [disk EXCEPT ![f] = files[f]]
    BY <1>4 DEF Writeback
  <2>2. /\ \A g \in Files : disk[g] = files[g] => disk'[g] = files'[g]
        /\ MarkerEnables(disk)' => MarkerEnables(files)'
        /\ ~MarkerEnables(disk)' => ~MarkerEnables(disk)
        /\ NoDigests => NoDigests'
        /\ PrimaryKept => PrimaryKept'
    BY <2>1, DiskCatchesUp DEF BackupInv
  <2>3. CoreInv'
    <3>1. \A g \in CoreFiles : g \in Files
      BY FileNames DEF CoreFiles
    <3> QED
      BY <2>1, <2>2, <3>1 DEF BackupInv, CoreInv, Sound, BlankPuts, NoPut
  <2>4. DigestComesLast'
    BY <2>1, <2>2, FileNames DEF BackupInv, PrimaryInv, DigestComesLast, NoPut, SyncedAt
  <2>5. PrimaryInv'
    BY <2>1, <2>4 DEF BackupInv, PrimaryInv, Sound, BlankPuts, NoPut, MakesBackup, Settles, Ends
  <2>6. MarkerInv'
    BY <2>1, <2>2 DEF BackupInv, MarkerInv, NoPut
  <2> QED
    BY <2>3, <2>5, <2>6 DEF BackupInv
<1>5. CASE Crash
  <2>1. NoPut(program', PrimaryFiles) /\ NoPut(program', CoreFiles)
    BY <1>5, EmptyProgram DEF Crash
  <2> QED
    BY <1>5, <2>1, HarmlessProgram DEF Crash
<1>6. CASE PowerLoss
  BY <1>6, PowerLossBackupInv
<1>7. CASE UNCHANGED nvVars
  <2>1. CoreInv'
    BY <1>7 DEF nvVars, BackupInv, CoreInv, Sound, BlankPuts, NoPut
  <2>2. PrimaryInv'
    BY <1>7 DEF nvVars, BackupInv, PrimaryInv, DigestComesLast, SyncedAt, Sound,
                    BlankPuts, NoPut, MakesBackup,
                Settles, Ends
  <2>3. MarkerInv'
    BY <1>7 DEF nvVars, BackupInv, MarkerInv, MarkerEnables, NoDigests, PrimaryKept, NoPut
  <2> QED
    BY <2>1, <2>2, <2>3 DEF BackupInv
<1> QED
  BY <1>1, <1>2, <1>3, <1>4, <1>5, <1>6, <1>7 DEF NVNext

\* No step takes the last durable backup.
LEMMA KeepsDurableBackup ==
    NVTypes /\ BackupInv /\ [NVNext]_nvVars => [DurableBackup => DurableBackup']_nvVars
<1> SUFFICES ASSUME NVTypes, BackupInv, NVNext, DurableBackup PROVE DurableBackup'
  OBVIOUS
<1>1. PICK f \in Backups :
          /\ files[f].kind \in {"full", "core"}
          /\ files[f].image.core # DefaultValue
          /\ files[DigestFile[f]] = Digest(files[f])
          /\ {f, DigestFile[f]} \cap Dirty = {}
  BY DEF DurableBackup
<1>2. f \in Files /\ DigestFile[f] \in Files
  BY DigestFiles, FileNames DEF Backups
<1>3. disk[f] = files[f] /\ disk[DigestFile[f]] = files[DigestFile[f]]
  BY <1>1, <1>2 DEF Dirty
<1>4. ASSUME files'[f] = files[f], files'[DigestFile[f]] = files[DigestFile[f]],
             disk'[f] = files[f], disk'[DigestFile[f]] = files[DigestFile[f]]
      PROVE  DurableBackup'
  <2>1. {f, DigestFile[f]} \cap Dirty' = {}
    BY <1>4 DEF Dirty
  <2> QED
    BY <1>1, <1>4, <2>1 DEF DurableBackup
<1>5. CASE Start
  BY <1>3, <1>4, <1>5 DEF Start
<1>6. ASSUME NEW v \in Images, WriteNVData(v) PROVE DurableBackup'
  BY <1>3, <1>4, <1>6 DEF WriteNVData
<1>7. CASE Step
  <2>1. CASE Head(program).op = "put"
    BY <1>7, <2>1, PutBackupInv
  <2>2. CASE Head(program).op = "sync"
    <3>1. files' = files /\ disk' = [disk EXCEPT ![Head(program).file] = files[Head(program).file]]
      BY <1>7, <2>2, StepCases
    <3> QED
      BY <1>2, <1>3, <1>4, <3>1 DEF NVTypes
  <2> QED
    BY <1>7, <2>1, <2>2, StepCases
<1>8. ASSUME NEW g \in Files, Writeback(g) PROVE DurableBackup'
  BY <1>2, <1>3, <1>4, <1>8 DEF Writeback, NVTypes
<1>9. CASE Crash
  BY <1>3, <1>4, <1>9 DEF Crash
<1>10. CASE PowerLoss
  BY <1>2, <1>3, <1>4, <1>10, PowerLossFiles
<1> QED
  BY <1>5, <1>6, <1>7, <1>8, <1>9, <1>10 DEF NVNext
-----------------------------------------------------------------------------
(* NV data: the theorems.                                                  *)

\* The variables keep their types: /efs holds NV data only in the copies,
\* digests only in the .md5 files and a flag in .nv_state, whatever is cut
\* short.
THEOREM NVTypeCorrect == NVSpec => []NVTypeOK
<1>1. NVTypes => NVTypeOK
  <2> SUFFICES ASSUME NVTypes PROVE NVTypeOK
    OBVIOUS
  <2>1. \A i \in 1 .. Len(program) : program[i] \in Instructions
    BY ElementOfSeq, Zenon DEF NVTypes
  <2>2. \A i \in 1 .. Len(program) : program[i].op \in {"put", "sync"} /\ program[i].file \in Files
    BY <2>1 DEF Instructions
  <2>3. \A f \in Files : files[f].image \in Images /\ disk[f].image \in Images
    BY ContentParts DEF NVTypes
  <2>4. DOMAIN files = Files /\ DOMAIN disk = Files
    BY DEF NVTypes
  <2> QED
    BY <2>2, <2>3, <2>4 DEF NVTypes, NVTypeOK
<1> QED
  BY <1>1, NVTypesInit, NVTypesNext, PTL DEF NVSpec

\* A start after a stop between two calls serves the data last written.
THEOREM RestartFindsData == NVSpec => []DataSurvivesRestart
<1>1. NVInit => DataInv
  BY DEF NVInit, DataInv
<1>2. NVTypes /\ DataInv => DataSurvivesRestart
  <2> SUFFICES ASSUME NVTypes, DataInv, running, program = << >>
               PROVE  files["nv_data.bin"].image = want
    BY DEF DataSurvivesRestart
  <2>1. files["nv_data.bin"] = Full(want)
    BY RestSettledFor DEF DataInv, Restartable
  <2> QED
    BY <2>1 DEF Full, Content
<1> QED
  BY <1>1, <1>2, NVTypesInit, NVTypesNext, DataInvNext, PTL DEF NVSpec

\* No file operation, kill or loss of power takes the last backup that has its
\* digest.
THEOREM LastBackupSurvives == NVSpec => NeverDoomed
<1> QED
  BY NVTypesInit, NVTypesNext, BackupInvInit, BackupInvNext, KeepsDurableBackup, PTL
     DEF NVSpec, NeverDoomed
=============================================================================
