--------------------------- MODULE GuestBootProofs ---------------------------
(***************************************************************************)
(* Proofs about GuestBoot, for any disks, passphrases, command lines and   *)
(* number of client runs.                                                  *)
(***************************************************************************)
EXTENDS GuestBoot, WellFoundedInduction, TLAPS

\* Of some positions one is the last.
LEMMA Last ==
    ASSUME NEW n \in Nat, NEW T \in SUBSET (1 .. n), T # {}
    PROVE  \E i \in T : \A j \in T : j <= i
<1> DEFINE U == {n - i : i \in T}
<1>1. U \subseteq Nat /\ U # {}
  <2>1. \A i \in T : n - i \in Nat
    OBVIOUS
  <2>2. U \subseteq Nat
    BY <2>1
  <2>3. PICK i \in T : TRUE
    OBVIOUS
  <2>4. n - i \in U
    BY <2>3
  <2> QED
    BY <2>2, <2>4
<1>2. \E x \in U : \A y \in U : ~(<<y, x>> \in OpToRel(<, Nat))
  BY <1>1, NatLessThanWellFounded, WFMin
<1>3. \E x \in U : \A y \in U : ~(y < x)
  BY <1>1, <1>2 DEF OpToRel
<1> QED
  BY <1>3

\* An option has its default, or a value that was given for it.
LEMMA GivenValue ==
    ASSUME cmdline \in Cmdlines, NEW opt, NEW default
    PROVE  \/ Given(opt, default) = default
           \/ \E o \in Option : o.opt = opt /\ Given(opt, default) = o.val
<1> DEFINE at == {i \in 1 .. Len(cmdline) : cmdline[i].opt = opt}
           last == CHOOSE i \in at : \A j \in at : j <= i
<1>1. CASE at = {}
  BY <1>1 DEF Given
<1>2. CASE at # {}
  <2>1. cmdline \in Seq(Option) /\ Len(cmdline) \in Nat
    BY CmdlinesAssumption
  <2>2. \E i \in at : \A j \in at : j <= i
    BY <1>2, <2>1, Last
  <2>3. last \in at
    BY <2>2
  <2>4. cmdline[last] \in Option /\ cmdline[last].opt = opt
    BY <2>1, <2>3
  <2>5. Given(opt, default) = cmdline[last].val
    BY <1>2 DEF Given
  <2> QED
    BY <2>4, <2>5
<1> QED
  BY <1>1, <1>2

LEMMA OptionTypes ==
    ASSUME cmdline \in Cmdlines
    PROVE  /\ ROOT \in Device
           /\ VERITY_DISK \in Device \cup {None}
           /\ VERITY_ROOT_HASH \in Image \cup {None}
<1>1. ROOT \in Device
  BY GivenValue, DefaultRootAssumption DEF ROOT, Option
<1>2. VERITY_DISK \in Device \cup {None}
  BY GivenValue DEF VERITY_DISK, Option
<1>3. VERITY_ROOT_HASH \in Image \cup {None}
  BY GivenValue DEF VERITY_ROOT_HASH, Option
<1> QED
  BY <1>1, <1>2, <1>3

\* The command line and the disks stay what they were at boot.
LEMMA OptionsStay ==
    ASSUME UNCHANGED given
    PROVE  /\ ROOT' = ROOT /\ BOOT' = BOOT
           /\ VERITY_DISK' = VERITY_DISK /\ VERITY_ROOT_HASH' = VERITY_ROOT_HASH
BY DEF given, ROOT, BOOT, VERITY_DISK, VERITY_ROOT_HASH, Given

------------------------------------------------------------------------------
(* Types.                                                                  *)

InitRecord ==
    [pc : Underway \cup Stopped \cup {"server"},
     disk_key : Passphrase \cup {NoKey, Truncated},
     PW : Passphrase \cup {NoKey, Truncated},
     mapped : Image \cup {None}, root : Image \cup {None},
     etc : SshKey \cup {None}, report : SshKey \cup {None}]

LEMMA InitType == Init => TypeOK
BY DisksAssumption DEF Init, TypeOK, Delivery!Init, Underway, NoKey

\* A step of init.sh keeps the types if it leaves init.sh a record.
LEMMA StepType ==
    ASSUME TypeOK, init' \in InitRecord, UNCHANGED <<given, deliveryVars>>
    PROVE  TypeOK'
BY DEF TypeOK, InitRecord, given, deliveryVars

LEMMA ProceedType == TypeOK /\ Proceed => TypeOK'
<1> SUFFICES ASSUME TypeOK, Proceed
             PROVE  TypeOK'
  OBVIOUS
<1> USE DEF Step, Goto, Panic, InitRecord, Underway, Stopped
<1>1. init \in InitRecord /\ disks[ROOT].image \in Image
  BY OptionTypes DEF TypeOK, Disk
<1>2. CASE Dispatch
  <2>1. init'.pc \in Underway \cup Stopped \cup {"server"}
    BY <1>1, <1>2 DEF Dispatch
  <2>2. init' = [init EXCEPT !.pc = init'.pc]
    BY <1>1, <1>2 DEF Dispatch
  <2> QED
    BY <1>1, <1>2, <2>1, <2>2, StepType DEF Dispatch
<1>3. CASE MountPlain
  BY <1>1, <1>3, StepType DEF MountPlain
<1>4. CASE ServerExits \/ ReadKey \/ Shred \/ SwitchRoot
  BY <1>1, <1>4, StepType DEF ServerExits, ReadKey, Shred, SwitchRoot
<1>5. CASE LuksOpen
  BY <1>1, <1>5, StepType DEF LuksOpen
<1>6. CASE MountMapped
  BY <1>1, <1>6, StepType DEF MountMapped
<1>7. CASE VerityOpen
  <2>1. VERITY_ROOT_HASH \in Image \cup {None}
    BY OptionTypes DEF TypeOK
  <2> QED
    BY <1>1, <1>7, <2>1, StepType DEF VerityOpen
<1>8. CASE VerityMount
  BY <1>1, <1>8, StepType DEF VerityMount
<1>9. CASE \E k \in SshKey : SshKeygen(k)
  BY <1>1, <1>9, StepType DEF SshKeygen
<1>10. CASE GetReport
  BY <1>1, <1>10, StepType DEF GetReport
<1> QED
  BY <1>2, <1>3, <1>4, <1>5, <1>6, <1>7, <1>8, <1>9, <1>10, Proceed DEF Proceed

LEMMA NextType == TypeOK /\ [Next]_vars => TypeOK'
<1> SUFFICES ASSUME TypeOK, [Next]_vars
             PROVE  TypeOK'
  OBVIOUS
<1> USE DEF given, deliveryVars
<1>1. CASE UNCHANGED vars
  BY <1>1 DEF vars, TypeOK
<1>2. CASE CommandFails
  BY <1>2, StepType DEF CommandFails, Step, Panic, Goto, TypeOK, InitRecord, Stopped
<1>3. CASE ServerDies
  BY <1>3 DEF ServerDies, Delivery!Lose, TypeOK
<1>4. ASSUME NEW c \in Client, Approve(c) \/ Withdraw(c) \/ Deliver(c)
      PROVE  TypeOK'
  BY <1>4 DEF Approve, Withdraw, Deliver, TypeOK, Delivery!Approve, Delivery!Withdraw,
              Delivery!Deliver
<1> QED
  BY <1>1, <1>2, <1>3, <1>4, ProceedType DEF Next, Exchange

\* Every variable has its type in every behaviour.
THEOREM TypeCorrect == Spec => []TypeOK
<1> QED
  BY InitType, NextType, PTL DEF Spec

------------------------------------------------------------------------------
(* What init.sh relies on at each of its commands.                         *)

\* The boot that the command line asks for is the one that goes on.
OnItsBranch ==
    /\ init.pc = "mount_plain" => BOOT = "normal"
    /\ init.pc \in {"server", "read_key", "shred", "luks_open", "mount_mapped"}
         => BOOT = "encrypted"
    /\ init.pc \in {"verity_open", "verity_mount", "keygen", "get_report"}
         => BOOT = "verity"

\* Only an owner who expects this command line approves, and so delivers.
OwnerExpects ==
    /\ \A c \in approved : expected[c] = cmdline
    /\ phase = "delivered" => owner \in Client /\ expected[owner] = cmdline

\* The key on its way from the server to cryptsetup is the owner's.
KeyOnItsWay ==
    /\ init.pc = "dispatch" => phase # "delivered"
    /\ init.pc \in {"read_key", "shred", "luks_open", "mount_mapped"} => phase = "delivered"
    /\ init.pc \in {"server", "read_key"} /\ phase = "delivered" => init.disk_key = key[owner]
    /\ init.pc \in {"shred", "luks_open"} => init.PW = key[owner]
    /\ init.pc = "mount_mapped" =>
         /\ Echoed(key[owner]) = disks[ROOT].pass
         /\ init.mapped = disks[ROOT].image

\* The root hash on its way from the command line to the mounted root.
HashOnItsWay ==
    /\ init.pc = "verity_mount" => init.mapped = VERITY_ROOT_HASH
    /\ init.pc \in {"keygen", "get_report"} => init.root = VERITY_ROOT_HASH

\* What RootAsOrdered asks for, and what takes over is ready for it.
Ordered ==
    /\ BOOT = "verity" => init.root = VERITY_ROOT_HASH
    /\ BOOT = "encrypted" =>
         /\ phase = "delivered"
         /\ Echoed(key[owner]) = disks[ROOT].pass
         /\ init.root = disks[ROOT].image

\* The report is made last, from the key that was made.
ReportLast ==
    /\ init.pc \notin {"switch", "up", "panic"} => init.report = None
    /\ init.pc = "get_report" => init.etc \in SshKey
    /\ init.report # None => init.report = init.etc
    /\ init.pc \in {"switch", "up"} /\ BOOT = "verity" => init.report \in SshKey

IInv ==
    /\ TypeOK
    /\ OnItsBranch
    /\ OwnerExpects
    /\ KeyOnItsWay
    /\ HashOnItsWay
    /\ init.pc \in {"switch", "up"} => Ordered
    /\ KeyFileIsBrief
    /\ ReportLast

LEMMA NoKeyIsNone == NoKey \notin Passphrase /\ Truncated \notin Passphrase
BY NoneAssumption DEF NoKey, Truncated, Passphrase

LEMMA InitInv == Init => IInv
<1> SUFFICES ASSUME Init
             PROVE  IInv
  OBVIOUS
<1>1. TypeOK
  BY InitType
<1>2. init.pc = "dispatch" /\ init.disk_key = NoKey /\ init.report = None
  BY DEF Init
<1>3. approved = {} /\ phase = "open"
  BY DEF Init, Delivery!Init
<1> QED
  BY <1>1, <1>2, <1>3, NoKeyIsNone
  DEF IInv, OnItsBranch, OwnerExpects, KeyOnItsWay, HashOnItsWay, KeyFileIsBrief, ReportLast

\* init.sh keeps it.
LEMMA ProceedInv == IInv /\ Proceed => IInv'
<1> SUFFICES ASSUME IInv, Proceed
             PROVE  IInv'
  OBVIOUS
<1> USE DEF Step, Goto, Panic
<1>1. TypeOK /\ TypeOK'
  BY ProceedType DEF IInv
<1>2. init \in InitRecord
  BY <1>1 DEF TypeOK, InitRecord
<1>3. UNCHANGED <<given, deliveryVars>>
  BY DEF Proceed, Dispatch, MountPlain, ServerExits, ReadKey, Shred, LuksOpen, MountMapped,
         VerityOpen, VerityMount, SshKeygen, GetReport, SwitchRoot
<1>4. /\ ROOT' = ROOT /\ BOOT' = BOOT /\ VERITY_ROOT_HASH' = VERITY_ROOT_HASH
      /\ disks' = disks /\ key' = key /\ expected' = expected /\ cmdline' = cmdline
      /\ phase' = phase /\ owner' = owner /\ approved' = approved
  BY <1>3, OptionsStay DEF given, deliveryVars
<1>5. OwnerExpects'
  BY <1>4 DEF IInv, OwnerExpects
<1> DEFINE Rest == /\ OnItsBranch' /\ KeyOnItsWay' /\ HashOnItsWay'
                   /\ (init.pc \in {"switch", "up"} => Ordered)'
                   /\ KeyFileIsBrief' /\ ReportLast'
<1> USE DEF IInv, OnItsBranch, KeyOnItsWay, HashOnItsWay, Ordered, KeyFileIsBrief, ReportLast,
            InitRecord
<1>6. CASE Dispatch
  <2>1. init' = [init EXCEPT !.pc = init'.pc] /\ init.pc = "dispatch"
    BY <1>2, <1>6 DEF Dispatch
  <2>2. \/ init'.pc = "mount_plain" /\ BOOT = "normal"
        \/ init'.pc = "server" /\ BOOT = "encrypted"
        \/ init'.pc = "verity_open" /\ BOOT = "verity"
        \/ init'.pc = "panic"
    BY <1>2, <1>6 DEF Dispatch
  <2> QED
    BY <1>1, <1>2, <1>4, <1>5, <2>1, <2>2
<1>7. CASE MountPlain
  BY <1>1, <1>2, <1>4, <1>5, <1>7 DEF MountPlain
<1>8. CASE ServerExits
  BY <1>1, <1>2, <1>4, <1>5, <1>8 DEF ServerExits
<1>9. CASE ReadKey
  BY <1>1, <1>2, <1>4, <1>5, <1>9 DEF ReadKey
<1>10. CASE Shred
  BY <1>1, <1>2, <1>4, <1>5, <1>10, NoKeyIsNone DEF Shred
<1>11. CASE LuksOpen
  BY <1>1, <1>2, <1>4, <1>5, <1>11 DEF LuksOpen
<1>12. CASE MountMapped
  BY <1>1, <1>2, <1>4, <1>5, <1>12 DEF MountMapped
<1>13. CASE VerityOpen
  BY <1>1, <1>2, <1>4, <1>5, <1>13 DEF VerityOpen
<1>14. CASE VerityMount
  BY <1>1, <1>2, <1>4, <1>5, <1>14 DEF VerityMount, Reads
<1>15. CASE \E k \in SshKey : SshKeygen(k)
  BY <1>1, <1>2, <1>4, <1>5, <1>15 DEF SshKeygen
<1>16. CASE GetReport
  BY <1>1, <1>2, <1>4, <1>5, <1>16 DEF GetReport
<1>17. CASE SwitchRoot
  BY <1>1, <1>2, <1>4, <1>5, <1>17 DEF SwitchRoot
<1> QED
  BY <1>6, <1>7, <1>8, <1>9, <1>10, <1>11, <1>12, <1>13, <1>14, <1>15, <1>16, <1>17, Proceed
  DEF Proceed

\* So do the exchange of the key and commands that fail.
LEMMA NextInv == IInv /\ [Next]_vars => IInv'
<1> SUFFICES ASSUME IInv, [Next]_vars
             PROVE  IInv'
  OBVIOUS
<1>1. TypeOK /\ TypeOK' /\ init \in InitRecord
  BY NextType DEF IInv, TypeOK, InitRecord
<1> USE DEF IInv, OnItsBranch, OwnerExpects, KeyOnItsWay, HashOnItsWay, Ordered,
            KeyFileIsBrief, ReportLast, InitRecord
<1>3. CASE UNCHANGED vars
  <2>1. UNCHANGED <<given, deliveryVars, init>>
    BY <1>3 DEF vars
  <2> QED
    BY <1>1, <2>1, OptionsStay DEF given, deliveryVars
<1>4. CASE CommandFails
  <2>1. init'.pc = "panic" /\ init'.report = init.report /\ init'.etc = init.etc
    BY <1>1, <1>4 DEF CommandFails, Step, Panic, Goto
  <2>2. UNCHANGED <<given, deliveryVars>>
    BY <1>4 DEF CommandFails, Step
  <2> QED
    BY <1>1, <2>1, <2>2, OptionsStay DEF given, deliveryVars
<1>5. CASE ServerDies
  <2>1. /\ init.pc = "server" /\ init'.pc = "server" /\ init'.report = init.report
        /\ phase' = "lost" /\ approved' \subseteq approved
        /\ init'.disk_key \in {init.disk_key, Truncated}
    BY <1>1, <1>5 DEF ServerDies, Delivery!Lose
  <2>2. UNCHANGED given
    BY <1>5 DEF ServerDies
  <2> QED
    BY <1>1, <2>1, <2>2, OptionsStay DEF given
<1>6. ASSUME NEW c \in Client, Approve(c)
      PROVE  IInv'
  <2>1. approved' = approved \cup {c} /\ expected[c] = cmdline
    BY <1>6 DEF Approve, Delivery!Approve
  <2>2. UNCHANGED <<given, phase, owner, init>>
    BY <1>6 DEF Approve, Delivery!Approve
  <2> QED
    BY <1>1, <2>1, <2>2, OptionsStay DEF given
<1>7. ASSUME NEW c \in Client, Withdraw(c)
      PROVE  IInv'
  <2>1. approved' \subseteq approved /\ UNCHANGED <<given, phase, owner, init>>
    BY <1>7 DEF Withdraw, Delivery!Withdraw
  <2> QED
    BY <1>1, <2>1, OptionsStay DEF given
<1>8. ASSUME NEW c \in Client, Deliver(c)
      PROVE  IInv'
  <2>1. /\ phase' = "delivered" /\ owner' = c /\ c \in approved
        /\ approved' \subseteq approved
    BY <1>8 DEF Deliver, Delivery!Deliver
  <2>2. /\ init.pc = "server" /\ init' = [init EXCEPT !.disk_key = key[c]]
        /\ UNCHANGED given
    BY <1>8 DEF Deliver
  <2> QED
    BY <1>1, <2>1, <2>2, OptionsStay DEF given
<1> QED
  BY <1>3, <1>4, <1>5, <1>6, <1>7, <1>8, ProceedInv DEF Next, Exchange

LEMMA Invariance == Spec => []IInv
<1> QED
  BY InitInv, NextInv, PTL DEF Spec

\* What takes over is what the command line asks for, unlocked with the key of
\* an owner who expects that command line.
THEOREM TakesOverAsOrdered == Spec => []RootAsOrdered
<1>1. IInv => RootAsOrdered
  BY NoneAssumption DEF IInv, Ordered, OwnerExpects, RootAsOrdered
<1> QED
  BY <1>1, Invariance, PTL

\* The passphrase is in a file only from the server's success to shred.
THEOREM KeyFileBrief == Spec => []KeyFileIsBrief
<1>1. IInv => KeyFileIsBrief
  BY DEF IInv
<1> QED
  BY <1>1, Invariance, PTL

\* A stored report vouches for the SSH key of its own VM, and no verity boot
\* goes without one.
THEOREM ReportVouches == Spec => []ReportVouchesForKey
<1>1. IInv => ReportVouchesForKey
  BY DEF IInv, ReportLast, ReportVouchesForKey
<1> QED
  BY <1>1, Invariance, PTL
==============================================================================
