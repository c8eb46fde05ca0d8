-------------------------- MODULE StorageCollector -------------------------
(***************************************************************************)
(* The storage provider: a call reads /proc/self/mountinfo, then asks for  *)
(* the statistics of the configured mounts one after the other; mounts     *)
(* come and go in between.  A path is a sequence of characters by name,    *)
(* plain ones and those that the kernel escapes; a type stands for the     *)
(* filesystem type and the mode of the topmost mount.                      *)
(***************************************************************************)
EXTENDS Integers, Sequences, ProviderCall, SamplePipeline

CONSTANTS
    Mount,         \* configured mount paths, sequences of characters
    FsType,        \* filesystem types
    Absent,        \* nothing is mounted, nothing is known
    BlockCount,    \* values of f_blocks, f_bfree and f_bavail
    FragmentSize,  \* values of f_frsize
    MaxU64         \* the largest value of the code's integers

\* The characters that the kernel escapes in mountinfo, and the octal escape
\* (a backslash and three digits) that stands for each.
Escape == [space |-> "040", tab |-> "011", newline |-> "012", backslash |-> "134"]

ASSUME StorageAssumption ==
    /\ BlockCount \subseteq Nat /\ FragmentSize \subseteq Nat /\ MaxU64 \in Nat
    /\ \A p \in Mount : /\ p \in Seq(STRING)
                        /\ \A i \in DOMAIN p : p[i] \notin {"040", "011", "012", "134"}

VARIABLES
    mounted,       \* by path, the filesystem type mounted there
    mountInfo,     \* what this call made of mountinfo, Absent between calls
    mountedThen,   \* what was mounted when mountinfo was read
    remaining,     \* the mounts this call has still to look at
    statted        \* by path, the samples of this or the last call

storageVars == <<mounted, mountInfo, mountedThen, remaining, statted>>

StorageInit ==
    /\ mounted \in [Mount -> FsType \cup {Absent}]
    /\ name # "storage" => mounted = [p \in Mount |-> Absent]
    /\ mountInfo = Absent
    /\ mountedThen = mounted
    /\ remaining = {}
    /\ statted = <<>>

\* A filesystem is mounted or unmounted.
Remount(p, t) ==
    /\ name = "storage"
    /\ mounted[p] # t
    /\ mounted' = [mounted EXCEPT ![p] = t]
    /\ UNCHANGED <<mountInfo, mountedThen, remaining, statted, callVars>>

----------------------------------------------------------------------------
\* The mount point field of a line of mountinfo.
Escaped(path) ==
    [i \in DOMAIN path |-> IF path[i] \in DOMAIN Escape THEN Escape[path[i]] ELSE path[i]]

\* Mutant: the field is taken as it stands.
DecodeNothing(value) == value

\* decode_mountinfo_path.  A backslash with fewer than three digits behind it, or
\* with a number above 255, would be copied; the kernel writes neither.
DecodeMountinfoPath(value) ==
    [i \in DOMAIN value |->
        IF \E ch \in DOMAIN Escape : Escape[ch] = value[i]
        THEN CHOOSE ch \in DOMAIN Escape : Escape[ch] = value[i]
        ELSE value[i]]

SatMul(a, b) == IF a * b > MaxU64 THEN MaxU64 ELSE a * b
SatSub(a, b) == IF a < b THEN 0 ELSE a - b

\* filesystem_bytes_from_blocks.
FilesystemBytes(v) ==
    [limit |-> SatMul(v.blocks, v.size),
     used |-> SatSub(SatMul(v.blocks, v.size), SatMul(v.bfree, v.size)),
     free |-> SatMul(v.bavail, v.size),
     reserved |-> SatMul(SatSub(v.bfree, v.bavail), v.size)]

\* What statvfs can answer; some filesystems report counts that do not nest.
StatVfs == [size : FragmentSize, blocks : BlockCount, bfree : BlockCount, bavail : BlockCount]

----------------------------------------------------------------------------
\* read_mount_info, or its failure: unreadable, or a line that does not parse.
ReadMountInfo ==
    LET lines == {p \in Mount : mounted[p] # Absent} IN
    /\ Running("storage") /\ mountInfo = Absent
    /\ statted' = <<>>
    /\ UNCHANGED mounted
    /\ \/ /\ mountInfo' = [q \in {DecodeMountinfoPath(Escaped(p)) : p \in lines} |->
                mounted[CHOOSE p \in lines : DecodeMountinfoPath(Escaped(p)) = q]]
          /\ mountedThen' = mounted
          /\ remaining' = Mount
          /\ UNCHANGED callVars
       \/ Fail /\ UNCHANGED <<mountInfo, mountedThen, remaining>>

\* collect_filesystem for one mount.  statvfs may fail for any path, and
\* answers for the filesystem below when nothing is mounted there.
StatMount(p) ==
    /\ Running("storage") /\ mountInfo # Absent
    /\ p \in remaining
    /\ remaining' = remaining \ {p}
    /\ \/ \E v \in StatVfs :
            statted' = [q \in DOMAIN statted \cup {p} |->
                IF q # p THEN statted[q]
                ELSE [stat |-> v,
                      type |-> IF p \in DOMAIN mountInfo THEN mountInfo[p] ELSE Absent]]
       \/ UNCHANGED statted
    /\ UNCHANGED <<mounted, mountInfo, mountedThen, callVars>>

\* collect_filesystems returns: an error only if no mount could be looked at.
StorageReturns ==
    /\ Running("storage") /\ mountInfo # Absent
    /\ remaining = {}
    /\ mountInfo' = Absent
    /\ IF statted = <<>> /\ Mount # {} THEN Fail
       ELSE Return(IF statted = <<>> THEN {} ELSE StorageSamples)
    /\ UNCHANGED <<mounted, mountedThen, remaining, statted>>

StorageCall ==
    \/ ReadMountInfo
    \/ \E p \in Mount : StatMount(p)
    \/ StorageReturns

StorageNext == StorageCall \/ \E p \in Mount, t \in FsType \cup {Absent} : Remount(p, t)

\* A filesystem sample is true of its mount: its type is the one that was
\* mounted at that path when the call read mountinfo, also when the path has
\* characters that mountinfo escapes; its used bytes are within the limit whatever
\* statvfs answers; and its used, free and reserved bytes add up to the limit
\* unless the limit does not fit or the block counts do not nest.
StorageSamplesTrue ==
    \A p \in DOMAIN statted :
        LET v == statted[p].stat
            bytes == FilesystemBytes(v)
        IN  /\ statted[p].type = mountedThen[p]
            /\ v.blocks * v.size <= MaxU64 /\ v.bavail <= v.bfree /\ v.bfree <= v.blocks =>
                bytes.used + bytes.free + bytes.reserved = bytes.limit
            /\ bytes.used <= bytes.limit
============================================================================
