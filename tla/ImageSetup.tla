----------------------------- MODULE ImageSetup -----------------------------
(***************************************************************************)
(* setup_luks.sh and setup_verity.sh, with common.sh: each copies the root *)
(* file system of a source image to a new image, through two network block *)
(* devices whose names, like that of the mapper device, are fixed, so that *)
(* runs on one host share them.  Whatever ends a script, its exit trap     *)
(* clean_up() then unmounts and disconnects what is there, whoever put it  *)
(* there.                                                                  *)
(***************************************************************************)
EXTENDS Naturals, Sequences, FiniteSets

CONSTANTS
    Run,        \* runs of the scripts, each with images of its own
    Luks,       \* those of setup_luks.sh; the others are of setup_verity.sh
    Lvm,        \* those whose source image has its root on a logical volume
    HostVolume, \* the logical volumes that the host itself may have
    MaxStarts,  \* bound: how many are begun in all
    None        \* "nothing"

ASSUME RunAssumption == Luks \subseteq Run /\ Lvm \subseteq Run
ASSUME HostVolumeAssumption == IsFiniteSet(HostVolume) /\ Run \cap HostVolume = {}
ASSUME MaxStartsAssumption == MaxStarts \in Nat

\* A volume is named by the run whose image it is in, unless it is the host's.
Volume == Lvm \cup HostVolume
Partition == {"partition", "other"}     \* the root's, and any other one

ASSUME NamesAssumption ==
    /\ None \notin Run \cup HostVolume \cup Nat
    /\ (Partition \cup {"nbd0", "nbd1", "mapper"}) \cap (Run \cup HostVolume) = {}

VARIABLES
    host,   \* the nbd module; the images behind its devices (src: /dev/nbd0,
            \*   dst: /dev/nbd1), and the one that snpguard_root maps, each
            \*   named by its run; the host's own volumes (own), the image
            \*   whose volume lvdisplay lists too (lv), the volumes that are
            \*   deactivated (off); the devices mounted in folders of earlier
            \*   runs (held); history: what a trap failed to free (refused)
    run,    \* per run: pc; the number of volumes before it (lvm); the device
            \*   it takes for the root; where the file systems mounted at
            \*   SRC_FOLDER and DST_FOLDER lie; whether it said it is done
    disk,   \* per run: whether its source was damaged, its output, the source
            \*   the output is a copy of ("other": of another file system than
            \*   a root), whether that was damaged (lost), the root hash file
    starts, \* the number of runs begun so far
    busy,   \* history: the runs of which a umount was refused
    shared  \* history: the runs that another one overlapped

vars == <<host, run, disk, starts, busy, shared>>

------------------------------------------------------------------------------
(* Where a run is.                                                         *)

Preparing == <<"create", "check_lvm", "connect_src", "connect_dst", "find_root">>
Cleaning == <<"rm_src", "rm_dst", "close", "unmount_lvm",
              "disconnect_src", "disconnect_dst", "rmmod", "gone">>

\* Mutant: the output is not unmounted before its hash tree is computed.
Script_StillMounted(r) ==
    Preparing \o (IF r \in Luks
                  THEN <<"luks_format", "luks_open", "mkfs", "mount_src", "mount_dst",
                         "rsync", "copying">>
                  ELSE <<"mkfs", "mount_src", "mount_dst", "rsync", "copying",
                         "prepare", "umount_src", "verity_format">>)

Script(r) ==
    Preparing \o (IF r \in Luks
                  THEN <<"luks_format", "luks_open", "mkfs", "mount_src", "mount_dst",
                         "rsync", "copying">>
                  ELSE <<"mkfs", "mount_src", "mount_dst", "rsync", "copying",
                         "prepare", "umount_src", "umount_dst", "verity_format">>)

Scripted(r) == {Script(r)[i] : i \in 1 .. Len(Script(r))}
Trapped == {Cleaning[i] : i \in 1 .. Len(Cleaning)} \ {"gone"}
Active(r) == run[r].pc \in Scripted(r) \cup Trapped

\* What follows on a command that succeeds.
After(r) ==
    LET all == Script(r) \o Cleaning
    IN all[1 + CHOOSE i \in 1 .. Len(all) : all[i] = run[r].pc]

\* Run r succeeds in step `at`, leaving the host h and the disks d, with its
\* record changed to `to` apart from where it goes on.
Do(r, at, h, d, to) ==
    /\ run[r].pc = at
    /\ host' = h
    /\ disk' = d
    /\ run' = [run EXCEPT ![r] = [to EXCEPT !.pc = After(r)]]
    /\ UNCHANGED <<starts, busy, shared>>

OnHost(r, at, h) == Do(r, at, h, disk, run[r])
OnDisk(r, at, d) == Do(r, at, host, d, run[r])
OnRun(r, at, to) == Do(r, at, host, disk, to)

\* The devices that run r has mounted.
Mounts(r) ==
    (IF run[r].src = None THEN {}
     ELSE {IF run[r].root \in Partition THEN "nbd0" ELSE run[r].root})
    \cup (IF run[r].dst = None THEN {} ELSE {IF r \in Luks THEN "mapper" ELSE "nbd1"})

InUse(device) == device \in host.held \/ \E r \in Run : device \in Mounts(r)

\* Run r begins, in the script or, with wrong options, in its exit trap.  Its
\* folders are new: what is mounted in those of the run before stays there.
Begin(r, at) ==
    /\ ~Active(r) /\ starts < MaxStarts /\ starts' = starts + 1
    /\ host' = [host EXCEPT !.held = host.held \cup Mounts(r)]
    /\ run' = [run EXCEPT ![r] = [pc |-> at, lvm |-> None, root |-> None,
                                  src |-> None, dst |-> None, said |-> FALSE]]
    /\ LET others == {q \in Run \ {r} : Active(q)}
       IN shared' = IF others = {} THEN shared \ {r} ELSE shared \cup others \cup {r}
    /\ busy' = busy \ {r}
    /\ UNCHANGED disk

Start(r) == Begin(r, "create")
Usage(r) == Begin(r, "rm_src")

------------------------------------------------------------------------------
(* The script: a command that cannot succeed is left to CommandFails.      *)

\* The image behind what the output is made on, if it can be reached: a mapper
\* device that is open keeps /dev/nbd1 for itself.
Target(r) == IF host.mapper = (IF r \in Luks THEN host.dst ELSE None) THEN host.dst ELSE None

CreateOutput(r) ==
    /\ host.dst # r
    /\ OnDisk(r, "create",
              [disk EXCEPT ![r] = [@ EXCEPT !.dst = "blank", !.from = None, !.lost = FALSE]])

\* What lvdisplay lists.
Listed == host.own \cup (IF host.lv = None THEN {} ELSE {host.lv})

CheckLvm(r) ==
    Do(r, "check_lvm", [host EXCEPT !.module = TRUE], disk,
       [run[r] EXCEPT !.lvm = Cardinality(Listed)])

ConnectSrc(r) ==
    /\ host.module /\ host.src = None
    /\ OnHost(r, "connect_src", [host EXCEPT !.src = r])

\* Mutant: a volume is taken to be there whatever the image holds.
VolumeAppears_Any ==
    /\ host.src # None /\ host.lv = None
    /\ host' = [host EXCEPT !.lv = host.src]
    /\ UNCHANGED <<run, disk, starts, busy, shared>>

\* The kernel reads the partition table of what was connected some time later;
\* lvdisplay lists a volume in it from then on.
VolumeAppears ==
    /\ host.src \in Lvm /\ host.lv = None
    /\ host' = [host EXCEPT !.lv = host.src]
    /\ UNCHANGED <<run, disk, starts, busy, shared>>

ConnectDst(r) ==
    /\ host.module /\ host.dst = None
    /\ OnHost(r, "connect_dst", [host EXCEPT !.dst = r])

\* There are more volumes than before.  Without a number to compare with, the
\* test fails.
NewVolume(r) == run[r].lvm # None /\ Cardinality(Listed) > run[r].lvm

\* The root is on the volume listed last, whichever that is, or else on the
\* device that fdisk's output or the user names.
FindRoot(r) ==
    \E device \in Listed \cup (IF NewVolume(r) THEN {} ELSE Partition) :
      OnRun(r, "find_root", [run[r] EXCEPT !.root = device])

LuksFormat(r) ==
    LET q == host.dst IN
    /\ q # None /\ host.mapper = None /\ ~InUse("nbd1")
    /\ OnDisk(r, "luks_format",
              [disk EXCEPT ![q] = [@ EXCEPT !.dst = "luks", !.from = None, !.lost = FALSE]])

LuksOpen(r) ==
    /\ host.mapper = None /\ ~InUse("nbd1")
    /\ host.dst # None /\ disk[host.dst].dst = "luks"
    /\ OnHost(r, "luks_open", [host EXCEPT !.mapper = host.dst])

Mkfs(r) ==
    LET q == Target(r) IN
    /\ q # None /\ ~InUse(IF r \in Luks THEN "mapper" ELSE "nbd1")
    /\ OnDisk(r, "mkfs",
              [disk EXCEPT ![q] = [@ EXCEPT !.dst = "fs", !.from = None, !.lost = FALSE]])

\* Where the device taken for the root lies, if it can be mounted.
Source(r) ==
    LET device == run[r].root IN
    IF device \in Listed \ host.off THEN device
    ELSE IF device = "other" \/ (device = "partition" /\ host.src \notin Lvm) THEN host.src
    ELSE None

MountSrc(r) ==
    /\ Source(r) # None
    /\ OnRun(r, "mount_src", [run[r] EXCEPT !.src = Source(r)])

MountDst(r) ==
    /\ Target(r) # None /\ disk[Target(r)].dst \notin {"absent", "blank", "luks"}
    /\ OnRun(r, "mount_dst", [run[r] EXCEPT !.dst = Target(r)])

\* Both folders hold file systems that can be reached.
Mounted(r) ==
    /\ run[r].src \in HostVolume \cup ({host.src} \ {None})
    /\ run[r].dst # None /\ run[r].dst = host.dst

\* The source whose root is mounted at SRC_FOLDER.
RootOf(r) ==
    IF run[r].src \in Run /\ run[r].root # "other" THEN run[r].src ELSE "other"

\* Whether files of the root at SRC_FOLDER have been deleted.
Damaged(r) == RootOf(r) \in Run /\ disk[RootOf(r)].damaged

\* What is copied stays in memory until it is unmounted.
Rsync(r) ==
    /\ Mounted(r)
    /\ OnDisk(r, "rsync", [disk EXCEPT ![run[r].dst] =
                             [@ EXCEPT !.dst = "part", !.from = RootOf(r), !.lost = Damaged(r)]])

\* What is deleted from the source meanwhile may have been copied before.
Copied(r) ==
    /\ Mounted(r)
    /\ \E lost \in {disk[run[r].dst].lost, Damaged(r)} :
         Do(r, "copying", host,
            [disk EXCEPT ![run[r].dst] = [@ EXCEPT !.dst = "cached", !.lost = lost]],
            [run[r] EXCEPT !.said = r \in Luks])

PrepareVerity(r) ==
    /\ Mounted(r) /\ disk[host.dst].dst = "cached"
    /\ OnDisk(r, "prepare", [disk EXCEPT ![host.dst].dst = "prepared"])

UmountSrc(r) == OnRun(r, "umount_src", [run[r] EXCEPT !.src = None])

\* The output once DST_FOLDER is unmounted: what was in memory is on it.
Flushed(r) ==
    LET q == run[r].dst IN
    IF q = None \/ q # host.dst THEN disk
    ELSE [disk EXCEPT ![q].dst = CASE @ = "cached" -> "whole"
                                   [] @ = "prepared" -> "ready"
                                   [] OTHER -> @]

UmountDst(r) ==
    Do(r, "umount_dst", host, Flushed(r), [run[r] EXCEPT !.dst = None])

\* veritysetup writes the hash tree, and its output becomes the root hash file.
\* No failure of it ends the script: a pipeline has the status of its last.
VerityFormat(r) ==
    \E hash \in {"empty"} \cup
          (IF host.dst = r /\ disk[r].dst = "ready" THEN {"right"} ELSE {"other"}) :
      Do(r, "verity_format", host, [disk EXCEPT ![r].hash = hash],
         [run[r] EXCEPT !.said = TRUE])

\* set -e, or Ctrl-C: the exit trap is next.  The volumes have been counted when
\* modprobe fails.
CommandFails(r) ==
    /\ run[r].pc \in Scripted(r)
    /\ \E lvm \in {run[r].lvm} \cup
            (IF run[r].pc = "check_lvm" THEN {Cardinality(Listed)} ELSE {}) :
         run' = [run EXCEPT ![r] = [@ EXCEPT !.pc = "rm_src", !.lvm = lvm]]
    /\ UNCHANGED <<host, disk, starts, busy, shared>>

------------------------------------------------------------------------------
(* clean_up(), under set -e like the rest.                                 *)

RmSrc(r) == OnRun(r, "rm_src", [run[r] EXCEPT !.src = None])
RmDst(r) == Do(r, "rm_dst", host, Flushed(r), [run[r] EXCEPT !.dst = None])

\* umount is refused, which is ignored; rm -rf then deletes what it can reach,
\* fails on the mount point, and the trap ends there.
RmMounted(r) ==
    /\ \/ run[r].pc = "rm_src" /\ run[r].src # None
          /\ disk' = IF RootOf(r) # host.src THEN disk
                     ELSE [disk EXCEPT ![host.src].damaged = TRUE]
       \/ run[r].pc = "rm_dst" /\ run[r].dst # None
          /\ disk' = IF run[r].dst # host.dst THEN disk
                     ELSE [disk EXCEPT ![run[r].dst].dst = "part"]
    /\ run' = [run EXCEPT ![r].pc = "aborted"]
    /\ busy' = busy \cup {r}
    /\ UNCHANGED <<host, starts, shared>>

\* luksClose is refused while the device is mounted, as far as TrapRefused goes.
Close(r) ==
    /\ host.mapper # None => ~InUse("mapper")
    /\ OnHost(r, "close", [host EXCEPT !.mapper = None, !.refused = @ \ {"mapper"}])

\* The volume listed last is deactivated: any, if several are listed.
Idle == {volume \in Listed : ~InUse(volume)}

UnmountLvm(r) ==
    \/ NewVolume(r)
       /\ \E volume \in Idle :
            OnHost(r, "unmount_lvm", [host EXCEPT !.off = @ \cup {volume}])
    \/ ~NewVolume(r) /\ OnHost(r, "unmount_lvm", host)

\* lvchange fails, as it does while the volume is in use, or else vgchange, which
\* is not ignored.
UnmountLvmFails(r) ==
    /\ run[r].pc = "unmount_lvm"
    /\ NewVolume(r)
    /\ \E volumes \in {{}} \cup {{volume} : volume \in Idle} :
         host' = [host EXCEPT !.off = @ \cup volumes]
    /\ run' = [run EXCEPT ![r].pc = "aborted"]
    /\ UNCHANGED <<disk, starts, busy, shared>>

DisconnectSrc(r) ==
    OnHost(r, "disconnect_src",
           [host EXCEPT !.src = None, !.lv = None, !.off = @ \ {host.src},
                        !.refused = @ \ {"src"}])

\* Mutant: the output's device stays connected.
DisconnectDst_Kept(r) == OnHost(r, "disconnect_dst", host)

\* What was in memory only is lost.
DisconnectDst(r) ==
    LET q == host.dst IN
    Do(r, "disconnect_dst", [host EXCEPT !.dst = None, !.refused = @ \ {"dst"}],
       IF q # None /\ disk[q].dst \in {"cached", "prepared"}
       THEN [disk EXCEPT ![q].dst = "part"] ELSE disk, run[r])

\* luksClose or qemu-nbd fails, which is ignored: the trap goes on.
TrapRefused(r) ==
    \E kept \in {<<"close", "mapper">>, <<"disconnect_src", "src">>,
                 <<"disconnect_dst", "dst">>} :
      /\ host[kept[2]] # None
      /\ OnHost(r, kept[1], [host EXCEPT !.refused = @ \cup {kept[2]}])

\* modprobe -r: refused while a device is in use; any failure is ignored.
Rmmod(r) ==
    \E module \in {host.module} \cup
          (IF {host.src, host.dst, host.mapper} = {None}
                /\ host.held = {} /\ \A q \in Run : Mounts(q) = {}
           THEN {FALSE} ELSE {}) :
      OnHost(r, "rmmod", [host EXCEPT !.module = module])

\* SIGKILL: no trap runs.
Kill(r) ==
    /\ Active(r)
    /\ run' = [run EXCEPT ![r].pc = "killed"]
    /\ UNCHANGED <<host, disk, starts, busy, shared>>

Booted(own) ==
    [module |-> FALSE, src |-> None, dst |-> None, mapper |-> None,
     own |-> own, lv |-> None, off |-> {}, held |-> {}, refused |-> {}]

\* The host crashes: files remain, as far as they were written.
Crash ==
    /\ host' = Booted(host.own)
    /\ run' = [r \in Run |->
                 [run[r] EXCEPT !.src = None, !.dst = None,
                                !.pc = IF Active(r) THEN "killed" ELSE @]]
    /\ disk' = [r \in Run |->
                  [disk[r] EXCEPT !.dst = IF @ \in {"cached", "prepared"} THEN "part" ELSE @]]
    /\ UNCHANGED <<starts, busy, shared>>

------------------------------------------------------------------------------
Init ==
    /\ \E own \in SUBSET HostVolume : host = Booted(own)
    /\ run = [r \in Run |-> [pc |-> "gone", lvm |-> None, root |-> None,
                             src |-> None, dst |-> None, said |-> FALSE]]
    /\ disk = [r \in Run |-> [damaged |-> FALSE, dst |-> "absent", from |-> None,
                              lost |-> FALSE, hash |-> "none"]]
    /\ starts = 0 /\ busy = {} /\ shared = {}

Proceed(r) ==
    \/ CreateOutput(r) \/ CheckLvm(r) \/ ConnectSrc(r) \/ ConnectDst(r) \/ FindRoot(r)
    \/ LuksFormat(r) \/ LuksOpen(r) \/ Mkfs(r) \/ MountSrc(r) \/ MountDst(r)
    \/ Rsync(r) \/ Copied(r) \/ PrepareVerity(r)
    \/ UmountSrc(r) \/ UmountDst(r) \/ VerityFormat(r)
    \/ CommandFails(r)

CleanUp(r) ==
    \/ RmSrc(r) \/ RmDst(r) \/ RmMounted(r) \/ Close(r)
    \/ UnmountLvm(r) \/ UnmountLvmFails(r)
    \/ DisconnectSrc(r) \/ DisconnectDst(r) \/ TrapRefused(r) \/ Rmmod(r)

Next ==
    \/ Crash
    \/ VolumeAppears
    \/ \E r \in Run : Start(r) \/ Usage(r) \/ Proceed(r) \/ CleanUp(r) \/ Kill(r)

Spec == Init /\ [][Next]_vars

------------------------------------------------------------------------------
(* Properties.                                                             *)

\* Every variable has its type.
TypeOK ==
    /\ host \in [module : BOOLEAN, src : Run \cup {None}, dst : Run \cup {None},
                 mapper : Run \cup {None}, own : SUBSET HostVolume,
                 lv : Lvm \cup {None}, off : SUBSET Volume,
                 held : SUBSET (Volume \cup {"nbd0", "nbd1", "mapper"}),
                 refused : SUBSET {"src", "dst", "mapper"}]
    /\ DOMAIN run = Run /\ \A r \in Run :
         run[r] \in [pc : Scripted(r) \cup Trapped \cup {"gone", "aborted", "killed"},
                     lvm : Nat \cup {None}, root : Volume \cup Partition \cup {None},
                     src : Run \cup HostVolume \cup {None}, dst : Run \cup {None},
                     said : BOOLEAN]
    /\ disk \in [Run -> [damaged : BOOLEAN,
                         dst : {"absent", "blank", "luks", "fs", "part", "cached",
                                "prepared", "whole", "ready"},
                         from : Run \cup {None, "other"}, lost : BOOLEAN,
                         hash : {"none", "empty", "right", "other"}]]
    /\ starts \in 0 .. MaxStarts /\ busy \subseteq Run /\ shared \subseteq Run

\* A run that had the host to itself and whose folders could be unmounted has
\* not said it is done in vain, whatever earlier runs left behind: its output is
\* a whole copy of the root of its own source, as that is, and a root hash, if
\* the file holds one, is that of the output.  Another file system was copied
\* only if the script had warned that the host has volumes itself, or if the
\* partition that fdisk or the user named was another one.
DoneMeansCopied ==
    \A r \in Run \ (busy \cup shared) :
      run[r].said /\ run[r].pc = "gone" =>
        /\ disk[r].dst = (IF r \in Luks THEN "whole" ELSE "ready")
        /\ \/ disk[r].from = r /\ disk[r].lost = disk[r].damaged
           \/ disk[r].from = "other" /\ (run[r].root = "other" \/ run[r].lvm > 0)
        /\ r \notin Luks => disk[r].hash \in {"right", "empty"}

\* No interleaving of scripts and traps leaves a device behind, nor do runs that
\* were killed before: once every run has got to the end of its trap, a device
\* in use is one that a trap has tried to free, and was refused.
FreeInTheEnd ==
    (\A r \in Run : run[r].pc = "gone") =>
      \A device \in {"src", "dst", "mapper"} : host[device] # None => device \in host.refused
==============================================================================
