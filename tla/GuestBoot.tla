------------------------------ MODULE GuestBoot ------------------------------
(***************************************************************************)
(* The early user space of a VM, from the start of init.sh as PID 1 to     *)
(* switch_root: the normal, the encrypted and the verity boot.  The script *)
(* runs under set -e: a command that fails ends PID 1 and with it the VM.  *)
(*                                                                         *)
(* The encrypted boot is composed with the exchange of the disk key.  Of   *)
(* server and clients only their promise is used, KeyDelivery, which       *)
(* SecretInjection implements: the server exits with success if a whole    *)
(* key was delivered and with an error if it has died.                     *)
(***************************************************************************)
EXTENDS Naturals, Sequences

CONSTANTS
    Client,     \* the client runs of guest owners
    Image,      \* root file systems; an image also names its root hash
    Word,       \* passphrases up to the escapes in them
    Device,     \* the VM's disks
    DefaultRoot,\* /dev/sda
    SshKey,     \* the keys ssh-keygen may make
    Cmdlines,   \* the kernel command lines, as sequences of options
    Disks,      \* what the disks may hold
    None        \* "nothing"

ASSUME DefaultRootAssumption == DefaultRoot \in Device
ASSUME NoneAssumption == None \notin Client \cup Image \cup Word \cup Device \cup SshKey

\* The options init.sh knows; a root hash is one of some image.
Option ==
    [opt : {"root", "verity_disk"}, val : Device]
      \cup [opt : {"verity_roothash"}, val : Image]
      \cup [opt : {"boot"}, val : STRING]

ASSUME CmdlinesAssumption == Cmdlines \subseteq Seq(Option)

\* A passphrase; escape: it holds a backslash sequence that echo replaces.
Passphrase == [word : Word, escape : BOOLEAN]
NoKey == [word |-> None, escape |-> FALSE]
Truncated == [word |-> None, escape |-> TRUE]

\* A disk: a file system, a LUKS volume with one in it, a hash tree of one.
Disk == [kind : {"fs", "luks", "tree"}, image : Image, pass : Passphrase \cup {NoKey}]

ASSUME DisksAssumption == Disks \subseteq [Device -> Disk]

VARIABLES
    cmdline,    \* /proc/cmdline
    disks,      \* the disks QEMU attached
    key,        \* the passphrase each client run would deliver
    expected,   \* the command line of the vm config of each client run
    phase, approved, owner,     \* see KeyDelivery
    init        \* init.sh: where it is (pc), disk_key.txt and what it read
                \*   from there (PW), the mapper's device (mapped: an image, or
                \*   the root hash that every block read is checked against),
                \*   the image at /root, the SSH key in its /etc, and the key
                \*   that the report.json there vouches for

given == <<cmdline, disks, key, expected>>
deliveryVars == <<phase, approved, owner>>
vars == <<given, deliveryVars, init>>

Delivery == INSTANCE KeyDelivery

------------------------------------------------------------------------------
(* The command line.                                                       *)

\* The value of an option: the last one given counts.
Given(opt, default) ==
    LET at == {i \in 1 .. Len(cmdline) : cmdline[i].opt = opt}
    IN IF at = {} THEN default
       ELSE cmdline[CHOOSE i \in at : \A j \in at : j <= i].val

ROOT == Given("root", DefaultRoot)
BOOT == Given("boot", "normal")
VERITY_DISK == Given("verity_disk", None)
VERITY_ROOT_HASH == Given("verity_roothash", None)

\* init.sh goes from one command to another; Then says what else it changed.
Step(from, Then) ==
    /\ init.pc = from
    /\ init' = Then
    /\ UNCHANGED <<given, deliveryVars>>

Goto(to) == [init EXCEPT !.pc = to]

\* set -e, or PID 1 exits: the kernel panics.
Panic == Goto("panic")

Dispatch ==
    Step("dispatch",
         Goto(CASE BOOT = "normal" -> "mount_plain"
                [] BOOT = "encrypted" -> "server"
                [] BOOT = "verity" -> "verity_open"
                [] OTHER -> "panic"))

MountPlain ==
    Step("mount_plain",
         IF disks[ROOT].kind = "fs"
         THEN [Goto("switch") EXCEPT !.root = disks[ROOT].image] ELSE Panic)

------------------------------------------------------------------------------
(* The encrypted boot.                                                     *)

\* A run approves this VM: it was launched as the run's vm config says.
Approve(c) ==
    /\ init.pc = "server"
    /\ phase = "open"
    /\ expected[c] = cmdline
    /\ Delivery!Approve(c)
    /\ UNCHANGED <<given, init>>

Withdraw(c) ==
    /\ Delivery!Withdraw(c)
    /\ UNCHANGED <<given, init>>

\* The server writes the key out and ends.
Deliver(c) ==
    /\ init.pc = "server"
    /\ Delivery!Deliver(c)
    /\ init' = [init EXCEPT !.disk_key = key[c]]
    /\ UNCHANGED given

\* The server dies; an attempt that failed may have left a truncated file.
ServerDies ==
    /\ init.pc = "server"
    /\ Delivery!Lose
    /\ \E left \in {init.disk_key, Truncated} : init' = [init EXCEPT !.disk_key = left]
    /\ UNCHANGED given

\* /bin/server || exit 1
ServerExits ==
    /\ phase # "open"
    /\ Step("server", IF phase = "delivered" THEN Goto("read_key") ELSE Panic)

\* Mutant: the file is shredded before it is read.
ReadKey_Shredded ==
    Step("read_key", [Goto("shred") EXCEPT !.disk_key = NoKey, !.PW = NoKey])

\* PW=$(cat ./disk_key.txt)
ReadKey ==
    Step("read_key", [Goto("shred") EXCEPT !.PW = init.disk_key])

\* Mutant: the file is left to switch_root.
Shred_Later == Step("shred", Goto("luks_open"))

\* shred -u ./disk_key.txt
Shred == Step("shred", [Goto("luks_open") EXCEPT !.disk_key = NoKey])

\* What reaches cryptsetup: the echo of dash replaces backslash sequences.
Echoed(p) == [p EXCEPT !.escape = FALSE]

\* The passphrase opens a key slot, or not: the script then ends.
LuksOpen ==
    Step("luks_open",
         IF disks[ROOT].kind = "luks" /\ disks[ROOT].pass = Echoed(init.PW)
         THEN [Goto("mount_mapped") EXCEPT !.mapped = disks[ROOT].image]
         ELSE Goto("locked"))

\* Mutant: the disk itself is mounted, not the mapper's device.
MountMapped_Raw ==
    Step("mount_mapped", [Goto("switch") EXCEPT !.root = ROOT])

MountMapped ==
    Step("mount_mapped", [Goto("switch") EXCEPT !.root = init.mapped])

------------------------------------------------------------------------------
(* The verity boot.                                                        *)

\* veritysetup open: an option without a value shifts its arguments, and too
\* few of them are an error.  The root hash is not checked here.
VerityOpen ==
    Step("verity_open",
         IF None \notin {VERITY_DISK, VERITY_ROOT_HASH}
              /\ disks[VERITY_DISK].kind = "tree"
         THEN [Goto("verity_mount") EXCEPT !.mapped = VERITY_ROOT_HASH]
         ELSE Panic)

\* Mutant: the tree is taken for the root hash's, whatever it was made of.
Reads_AnyTree(h) ==
    /\ disks[ROOT].kind = "fs"
    /\ disks[ROOT].image = disks[VERITY_DISK].image

\* Every block read hashes, with the tree, up to the root hash.
Reads(h) ==
    /\ disks[ROOT].kind = "fs"
    /\ disks[ROOT].image = h
    /\ disks[VERITY_DISK].image = h

\* The root is mounted read-only, and RAM file systems are filled from it.
VerityMount ==
    Step("verity_mount",
         IF Reads(init.mapped)
         THEN [Goto("keygen") EXCEPT !.root = disks[ROOT].image] ELSE Panic)

SshKeygen(k) ==
    Step("keygen", [Goto("get_report") EXCEPT !.etc = k])

\* Mutant: /etc is filled after the report was made.
GetReport_ThenCopy ==
    \E k \in SshKey :
      Step("get_report", [Goto("switch") EXCEPT !.report = init.etc, !.etc = k])

\* get_report puts the fingerprint of the key just made into the report.
GetReport ==
    Step("get_report", [Goto("switch") EXCEPT !.report = init.etc])

------------------------------------------------------------------------------
\* /proc and /sys move and the root file system's init takes over.
SwitchRoot == Step("switch", Goto("up"))

Underway == {"dispatch", "mount_plain", "read_key", "shred", "luks_open",
             "mount_mapped", "verity_open", "verity_mount", "keygen",
             "get_report", "switch"}

\* Any command may fail: PID 1 exits, and what it did before stays.
CommandFails == \E from \in Underway : Step(from, Panic)

Init ==
    /\ cmdline \in Cmdlines
    /\ disks \in Disks
    /\ key \in [Client -> Passphrase]
    /\ expected \in [Client -> Cmdlines]
    /\ Delivery!Init
    /\ init = [pc |-> "dispatch", disk_key |-> NoKey, PW |-> NoKey, mapped |-> None,
               root |-> None, etc |-> None, report |-> None]

\* init.sh goes on.
Proceed ==
    \/ Dispatch
    \/ MountPlain
    \/ ServerExits
    \/ ReadKey
    \/ Shred
    \/ LuksOpen
    \/ MountMapped
    \/ VerityOpen
    \/ VerityMount
    \/ \E k \in SshKey : SshKeygen(k)
    \/ GetReport
    \/ SwitchRoot

Exchange ==
    \/ ServerDies
    \/ \E c \in Client : Approve(c) \/ Withdraw(c) \/ Deliver(c)

Next == Proceed \/ Exchange \/ CommandFails

Spec == Init /\ [][Next]_vars

\* The kernel runs PID 1, and its commands return.
FairSpec == Spec /\ WF_vars(Proceed)
------------------------------------------------------------------------------
(* Properties.                                                             *)

Stopped == {"up", "panic", "locked"}

\* Every variable has its type.
TypeOK ==
    /\ cmdline \in Cmdlines
    /\ disks \in [Device -> Disk]
    /\ key \in [Client -> Passphrase]
    /\ expected \in [Client -> Cmdlines]
    /\ phase \in {"open", "delivered", "lost"}
    /\ approved \subseteq Client
    /\ owner \in Client \cup {None}
    /\ init \in [pc : Underway \cup Stopped \cup {"server"},
                 disk_key : Passphrase \cup {NoKey, Truncated},
                 PW : Passphrase \cup {NoKey, Truncated},
                 mapped : Image \cup {None}, root : Image \cup {None},
                 etc : SshKey \cup {None}, report : SshKey \cup {None}]

\* What takes over is what the command line asks for: the image with the root
\* hash named there, or the one in the volume that the passphrase of an owner
\* who expects this command line opens.
RootAsOrdered ==
    init.pc = "up" =>
      /\ BOOT = "verity" => init.root = VERITY_ROOT_HASH
      /\ BOOT = "encrypted" =>
           /\ owner # None
           /\ expected[owner] = cmdline
           /\ Echoed(key[owner]) = disks[ROOT].pass
           /\ init.root = disks[ROOT].image

\* The passphrase is in no file from before a device is opened with it, on
\* every path: a whole disk_key.txt exists only between server and shred, or in
\* a VM that panicked there.
KeyFileIsBrief ==
    init.disk_key \in Passphrase => init.pc \in {"server", "read_key", "shred", "panic"}

\* A report vouches for the SSH key that the VM it lies in serves with, and a
\* verity boot never takes over without one.
ReportVouchesForKey ==
    /\ init.report # None => init.report = init.etc
    /\ init.pc = "up" /\ BOOT = "verity" => init.report \in SshKey

\* Once an owner has delivered the passphrase of the disk, one that echo leaves
\* as it is, the VM comes up unless a command fails.
RightKeyGetsIn ==
    /\ phase = "delivered"
    /\ disks[ROOT].kind = "luks"
    /\ disks[ROOT].pass = key[owner]
    /\ ~key[owner].escape
    ~> init.pc \in {"up", "panic"}
==============================================================================
