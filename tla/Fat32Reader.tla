----------------------------- MODULE Fat32Reader ----------------------------
(***************************************************************************)
(* labs/16-fat32-readonly/code/fat32.c: the read-only FAT32 driver, one    *)
(* loop iteration at a time, on disks that need not be well formed.        *)
(*                                                                         *)
(* A disk is a file allocation table, a root cluster and what each cluster *)
(* holds when it is read as a directory.  The data of a file is the list   *)
(* of its clusters, and its size a number of clusters; the sector of a     *)
(* cluster is left out.  The 28 bits of a table entry are scaled down to   *)
(* 0..Hi-1: Hi is the first of the upper four bits.                        *)
(***************************************************************************)
EXTENDS Integers, Sequences

CONSTANTS
    NEntries,   \* entries of the file allocation table
    Hi,         \* 2^28, scaled down
    Name,       \* file names
    MaxCount,   \* bound: clusters that get_cluster_chain_length counts
    Wrap,       \* clusters in 2^32 bytes: 2^32 / cluster_nbytes, which is a power of two
    Disks       \* the disks that may be in the card reader

Cluster == 0..(NEntries - 1)
Kind == {"end", "deleted", "lfn", "label", "file", "dir"}
Dirent == [kind : Kind, name : Name, start : Nat, nbytes : Nat]
Disk == [fat : [Cluster -> Nat], root : Nat, dents : [Cluster -> Seq(Dirent)]]

ASSUME DiskAssumption ==
    /\ Name # {} /\ NEntries \in Nat \ {0} /\ MaxCount \in Nat
    /\ Wrap \in Nat /\ Wrap > 1 /\ Disks \subseteq Disk
    /\ Hi \in Nat /\ Hi > 17 /\ NEntries <= Hi    \* clusters have numbers of 28 bits

VARIABLES
    disk,
    opened,         \* the directories the caller holds: their first clusters
    pc,             \* "idle", "length" and "read" (the two walks), "scan"; for good:
                    \* "halted" (an assert), "failed" (no card, no heap), "overrun"
    op, dir, want,  \* the routine called, its directory and file name
    file,           \* the directory entry being read (none: <<>>)
    cluster, n,     \* the local variables of a walk
    alloc, buf,     \* clusters that fit in the buffer, clusters read into it
    res             \* what the last call returned

vars == <<disk, opened, pc, op, dir, want, file, cluster, n, alloc, buf, res>>

----------------------------------------------------------------------------
EntryTypeOffByOne(x) == \* mutant: 0xFFFFFF8 is not a last cluster
    LET low == x % Hi IN
    CASE low = 0 -> "FREE"
      [] low \in 2..(Hi - 17) -> "USED"
      [] low > Hi - 8 -> "LAST"
      [] OTHER -> "panic"
\* fat32_fat_entry_type: what an entry says once its upper bits are removed.
fat32_fat_entry_type(x) ==
    LET low == x % Hi IN
    CASE low = 0 -> "FREE"
      [] low = 1 -> "RESERVED"
      [] low \in 2..(Hi - 17) -> "USED"
      [] low \in (Hi - 16)..(Hi - 10) -> "panic"
      [] low = Hi - 9 -> "BAD"
      [] OTHER -> "LAST"

Type(c) == fat32_fat_entry_type(disk.fat[c])

\* The cluster a walk starts from: of the directory, or of the file found in it.
Start == IF file = <<>> THEN dir ELSE file[1].start

Stop(at) ==
    /\ pc' = at
    /\ UNCHANGED <<disk, opened, op, dir, want, file, cluster, n, alloc, buf, res>>

\* fat32_mk: the first table is copied into memory; fat32_get_root.
fat32_mk ==
    /\ opened = {} /\ opened' = {disk.root}
    /\ UNCHANGED <<disk, pc, op, dir, want, file, cluster, n, alloc, buf, res>>

\* fat32_readdir, fat32_stat or fat32_read of a directory that was returned before.
Call ==
    /\ pc = "idle" /\ dir' \in opened
    /\ op' \in {"readdir", "stat", "read"} /\ want' \in Name
    /\ pc' = "length" /\ cluster' = dir' /\ n' = 0 /\ file' = <<>>
    /\ alloc' = 0 /\ buf' = <<>> /\ res' = <<>>
    /\ UNCHANGED <<disk, opened>>

\* get_cluster_chain_length has returned k: k * cluster_nbytes, in 32 bits, are allocated.
\* Nothing is read from cluster 0, nor for a directory whose size is, or has wrapped to, 0.
Allocate(k) ==
    /\ alloc' = k % Wrap /\ buf' = <<>> /\ cluster' = Start /\ n' = k
    /\ pc' = IF Start = 0 \/ (file = <<>> /\ alloc' = 0) THEN "scan" ELSE "read"
    /\ UNCHANGED <<disk, opened, op, dir, want, file, res>>

LengthZero == pc = "length" /\ Start = 0 /\ Allocate(0)

CountUsed ==            \* mutant: the last cluster is not counted
    /\ pc = "length" /\ Start # 0 /\ cluster \in Cluster
    /\ Type(cluster) = "LAST" /\ Allocate(n)
\* One iteration of get_cluster_chain_length.
LengthLast ==
    /\ pc = "length" /\ Start # 0 /\ cluster \in Cluster
    /\ Type(cluster) = "LAST" /\ Allocate(n + 1)

LengthStuck ==          \* mutant: the walk does not move
    /\ pc = "length" /\ Start # 0 /\ cluster \in Cluster
    /\ Type(cluster) = "USED" /\ n < MaxCount /\ n' = n + 1
    /\ UNCHANGED <<disk, opened, pc, op, dir, want, file, cluster, alloc, buf, res>>
LengthNext ==
    /\ pc = "length" /\ Start # 0 /\ cluster \in Cluster
    /\ Type(cluster) = "USED" /\ n < MaxCount
    /\ cluster' = disk.fat[cluster] /\ n' = n + 1
    /\ UNCHANGED <<disk, opened, pc, op, dir, want, file, alloc, buf, res>>

LengthAssert ==
    /\ pc = "length" /\ Start # 0
    /\ cluster \in Cluster => Type(cluster) \notin {"LAST", "USED"}
    /\ Stop("halted")

ReadNextFirst ==        \* mutant: the next cluster is copied in place of this one
    /\ pc = "read" /\ cluster >= 2 /\ Len(buf) < alloc /\ cluster \in Cluster
    /\ Type(cluster) \in {"LAST", "USED"}
    /\ buf' = Append(buf, disk.fat[cluster])
    /\ IF Type(cluster) = "LAST"
       THEN pc' = "scan" /\ UNCHANGED cluster
       ELSE cluster' = disk.fat[cluster] /\ UNCHANGED pc
    /\ UNCHANGED <<disk, opened, op, dir, want, file, n, alloc, res>>
\* One iteration of read_cluster_chain; cluster_to_lba asserts that there is such a
\* cluster, and nothing checks that it is an entry of the table or fits in the buffer.
ReadCluster ==
    /\ pc = "read" /\ cluster >= 2 /\ Len(buf) < alloc /\ cluster \in Cluster
    /\ Type(cluster) \in {"LAST", "USED"}
    /\ buf' = Append(buf, cluster)
    /\ IF Type(cluster) = "LAST"
       THEN pc' = "scan" /\ UNCHANGED cluster
       ELSE cluster' = disk.fat[cluster] /\ UNCHANGED pc
    /\ UNCHANGED <<disk, opened, op, dir, want, file, n, alloc, res>>

ReadAssert ==
    /\ pc = "read"
    /\ cluster >= 2 => /\ Len(buf) < alloc /\ cluster \in Cluster
                       /\ Type(cluster) \notin {"LAST", "USED"}
    /\ Stop("halted")

\* A cluster is read to where no room is left for it: anything may follow.
Overrun ==
    /\ pc = "read" /\ cluster >= 2 /\ Len(buf) >= alloc
    /\ Stop("overrun")

\* The card gives an error (pi_sd_read panics), or kmalloc has no memory left.
Fail ==
    /\ pc \in {"length", "read", "scan"}
    /\ Stop("failed")

----------------------------------------------------------------------------
(* The directory, once it is read                                          *)

RawDirents ==           \* the clusters of a directory, one after the other
    LET Read[i \in 0..Len(buf)] == IF i = 0 THEN <<>> ELSE Read[i - 1] \o disk.dents[buf[i]]
    IN Read[Len(buf)]

GetDirentsAll == RawDirents     \* mutant: an end mark is not heeded
\* get_dirents: what comes before the first entry that was never used.
get_dirents ==
    LET all == RawDirents
        k == CHOOSE i \in 0..Len(all) : /\ \A j \in 1..i : all[j].kind # "end"
                                        /\ i < Len(all) => all[i + 1].kind = "end"
    IN SubSeq(all, 1, k)

Valid(d) == d.kind \in {"file", "dir"}      \* neither free, nor an LFN, nor a volume label

Live(ds) ==             \* the valid entries, in the order of the directory
    LET out[i \in 0..Len(ds)] == IF i = 0 THEN <<>>
                                 ELSE IF Valid(ds[i]) THEN Append(out[i - 1], ds[i]) ELSE out[i - 1]
    IN out[Len(ds)]

\* The first valid entry of that name, from 1; 0 stands for -1, none.
find_dirent_with_name(ds) ==
    LET found == {i \in 1..Len(ds) : Valid(ds[i]) /\ ds[i].name = want}
    IN IF found = {} THEN 0 ELSE CHOOSE i \in found : \A j \in found : i <= j

Return(r) ==
    /\ res' = r /\ pc' = "idle"
    /\ UNCHANGED <<disk, op, dir, want, file, cluster, n, alloc, buf>>

Directories(ds) == {ds[i].start : i \in {j \in 1..Len(ds) : ds[j].kind = "dir"}}

\* fat32_readdir: every valid entry; the caller may open the directories among them.
ReturnDirents ==
    /\ pc = "scan" /\ file = <<>> /\ op = "readdir"
    /\ Return(Live(get_dirents))
    /\ opened' = opened \cup Directories(res')

\* fat32_stat: the entry of that name; NULL if there is none, as for fat32_read.
ReturnDirent ==
    /\ pc = "scan" /\ file = <<>> /\ op \in {"stat", "read"}
    /\ LET ds == get_dirents
           i == find_dirent_with_name(ds) IN
          /\ op = "read" => i = 0
          /\ Return(IF i = 0 THEN <<>> ELSE <<ds[i]>>)
    /\ opened' = opened \cup Directories(res')

Contents(data, nbytes) == <<[data |-> data, n_data |-> nbytes]>>

\* fat32_read of an entry of size 0, whatever its first cluster.
ReturnEmpty ==
    /\ pc = "scan" /\ file = <<>> /\ op = "read"
    /\ LET ds == get_dirents
           i == find_dirent_with_name(ds) IN
          i # 0 /\ ds[i].nbytes = 0 /\ Return(Contents(<<>>, 0))
    /\ UNCHANGED opened

ReadFound ==
    /\ pc = "scan" /\ file = <<>> /\ op = "read"
    /\ LET ds == get_dirents
           i == find_dirent_with_name(ds) IN
          /\ i # 0 /\ ds[i].nbytes # 0
          /\ file' = <<ds[i]>> /\ cluster' = ds[i].start /\ n' = 0 /\ pc' = "length"
    /\ UNCHANGED <<disk, opened, op, dir, want, alloc, buf, res>>

ReturnFile ==
    /\ pc = "scan" /\ file # <<>>
    /\ Return(Contents(buf, file[1].nbytes))
    /\ UNCHANGED opened

----------------------------------------------------------------------------
Init ==
    /\ disk \in Disks
    /\ opened = {} /\ pc = "idle" /\ op = "none" /\ dir = 0 /\ want = CHOOSE w \in Name : TRUE
    /\ file = <<>> /\ cluster = 0 /\ n = 0 /\ alloc = 0 /\ buf = <<>> /\ res = <<>>

Length == LengthZero \/ LengthLast \/ LengthNext \/ LengthAssert
Scan == ReturnDirents \/ ReturnDirent \/ ReturnEmpty \/ ReadFound \/ ReturnFile
Step == Length \/ ReadCluster \/ ReadAssert \/ Overrun \/ Scan

Next == fat32_mk \/ Call \/ Step \/ Fail

Spec == Init /\ [][Next]_vars
FairSpec == Spec /\ WF_vars(Step)

----------------------------------------------------------------------------
(* Properties                                                              *)

TypeOK ==
    /\ disk \in Disk /\ opened \subseteq Nat
    /\ pc \in {"idle", "length", "read", "scan", "halted", "failed", "overrun"}
    /\ op \in {"none", "readdir", "stat", "read"} /\ dir \in Nat /\ want \in Name
    /\ file \in Seq(Dirent) /\ Len(file) <= 1
    /\ cluster \in Nat /\ n \in Nat /\ alloc \in Nat /\ buf \in Seq(Cluster)

\* What the table says, from the format: p is the chain of clusters that starts at c.
Low(c) == disk.fat[c] % Hi
Used(c) == Low(c) \in 2..(Hi - 17)
Paths == UNION {[1..k -> Cluster \ {0, 1}] : k \in 1..(NEntries - 2)}
Follows(p, c) == p[1] = c /\ \A i \in 1..(Len(p) - 1) : Used(p[i]) /\ Low(p[i]) = p[i + 1]
IsChain(p, c) ==
    IF c = 0 \/ p = <<>> THEN c = 0 /\ p = <<>> ELSE Follows(p, c) /\ Low(p[Len(p)]) >= Hi - 8
Loops(c) ==
    \E p \in Paths : /\ Follows(p, c) /\ Used(p[Len(p)])
                     /\ \E i \in DOMAIN p : Low(p[Len(p)]) = p[i]

\* read_cluster_chain, which is not told the size of its buffer, stays inside the table and
\* inside what fat32_read and get_dirents allocate for what get_cluster_chain_length counted,
\* and fills it, unless the table has a chain there of 2^32 bytes or more, whose size is
\* computed in 32 bits.
FitsUnlessWrapped ==
    /\ pc = "read" => cluster \in Cluster
    /\ pc = "scan" => Len(buf) = alloc
    /\ pc = "overrun" => \E p \in Paths : IsChain(p, Start) /\ Len(p) >= Wrap

\* The entries in use of the directory with chain p: none is hidden by an end mark.
Slots(p) == UNION {{<<i, j>> : j \in DOMAIN disk.dents[p[i]]} : i \in DOMAIN p}
At(p, s) == disk.dents[p[s[1]]][s[2]]
Before(r, s) == r[1] < s[1] \/ (r[1] = s[1] /\ r[2] < s[2])
Hidden(p, s) == \E e \in Slots(p) : At(p, e).kind = "end" /\ Before(e, s)
Listing(p) == {At(p, s) : s \in {t \in Slots(p) : At(p, t).kind \in {"file", "dir"} /\ ~Hidden(p, t)}}
Shown(p) == IF Len(p) < Wrap THEN Listing(p) ELSE {}

\* A call that returns has read the right thing: the entries of the directory, the one of
\* that name, or the clusters of that file, in the order of its chain.  A directory whose
\* size is a multiple of 2^32 reads as an empty one (Shown).
ReturnsContents ==
    pc = "idle" /\ op # "none" =>
        \E p \in Paths \cup {<<>>} :
            /\ IsChain(p, dir)
            /\ LET found == {d \in Shown(p) : d.name = want} IN
               CASE op = "readdir" -> {res[i] : i \in DOMAIN res} = Shown(p)
                 [] op # "readdir" /\ found = {} -> res = <<>>
                 [] op = "stat" /\ found # {} -> \E d \in found : res = <<d>>
                 [] op = "read" /\ found # {} ->
                      \E d \in found, q \in Paths \cup {<<>>} :
                          /\ res = Contents(q, d.nbytes)
                          /\ IF d.nbytes = 0 THEN q = <<>>
                             ELSE IsChain(q, d.start) /\ Len(q) < Wrap

\* The driver gives up (a failed assert or a panic) only where the table has no chain.
HaltsOnlyIfCorrupt ==
    pc = "halted" => ~\E p \in Paths \cup {<<>>} : IsChain(p, Start)

\* Nothing but a chain that bites its tail keeps a call from coming to an end: the walks have
\* no bound of their own.
Returns == (pc = "length") ~> (pc \in {"idle", "halted", "failed", "overrun"} \/ Loops(Start))
=============================================================================
