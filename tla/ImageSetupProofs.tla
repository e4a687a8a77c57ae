--------------------------- MODULE ImageSetupProofs ---------------------------
(***************************************************************************)
(* Proofs about ImageSetup, for any number of runs of the two scripts.     *)
(***************************************************************************)
EXTENDS ImageSetup, SequenceTheorems, FiniteSetTheorems, TLAPS

------------------------------------------------------------------------------
(* The inductive invariants.                                               *)

\* Where a run has left a device behind it, in the order of clean_up().
PastClose == {"unmount_lvm", "disconnect_src", "disconnect_dst", "rmmod", "gone"}
PastSrc == {"disconnect_dst", "rmmod", "gone"}
PastDst == {"rmmod", "gone"}

\* Somebody is left who has still to free what is in use, or was kept from it.
Freeing ==
    /\ host.mapper # None => "mapper" \in host.refused \/ \E r \in Run : run[r].pc \notin PastClose
    /\ host.src # None => "src" \in host.refused \/ \E r \in Run : run[r].pc \notin PastSrc
    /\ host.dst # None => "dst" \in host.refused \/ \E r \in Run : run[r].pc \notin PastDst

\* A volume is listed as long as its image is connected.
Listing == host.lv \in {None, host.src}

\* What is mounted at SRC_FOLDER was a device.
Rooted == \A r \in Run : run[r].src # None => run[r].root \in Volume \cup Partition

\* Where a run has still to connect a device.
BeforeSrc == {"create", "check_lvm", "connect_src"}
BeforeDst == {"create", "check_lvm", "connect_src", "connect_dst"}

\* What the output of run r is a copy of.
CopyOf(r) ==
    \/ disk[r].from = r /\ disk[r].lost = disk[r].damaged
    \/ disk[r].from = "other" /\ (run[r].root = "other" \/ run[r].lvm > 0)

\* What a run that has the host to itself has achieved, by where it is.
InScript(r) ==
    LET pc == run[r].pc IN
    /\ ~run[r].said
    /\ run[r].src \in {None, r} \cup host.own /\ run[r].dst \in {None, r}
    /\ pc \notin {"create", "check_lvm"} =>
         run[r].lvm \in Nat /\ (host.own # {} => run[r].lvm > 0)
    /\ pc \notin BeforeSrc => host.src = r
    /\ pc \notin BeforeDst => host.dst = r
    /\ pc \notin BeforeDst \cup {"find_root"} => run[r].root \in Partition \cup {r} \cup host.own
    /\ pc \in {"copying", "prepare", "umount_src", "umount_dst", "verity_format"} => CopyOf(r)
    /\ pc = "copying" => disk[r].from = RootOf(r)
    /\ pc \in {"umount_src", "umount_dst"} => disk[r].dst = "prepared" /\ run[r].dst = r
    /\ pc = "verity_format" => disk[r].dst = "ready" /\ run[r].dst = None

Finished(r) ==
    LET pc == run[r].pc IN
    /\ CopyOf(r)
    /\ IF r \in Luks /\ pc \in {"rm_src", "rm_dst"}
       THEN disk[r].dst = "cached" /\ run[r].dst = r /\ host.dst = r
       ELSE /\ disk[r].dst = (IF r \in Luks THEN "whole" ELSE "ready")
            /\ run[r].dst = None
    /\ r \notin Luks => disk[r].hash \in {"right", "empty"}

\* Run p has nothing to do with the images of run r.
Elsewhere(p, r) ==
    /\ run[p].src # r /\ run[p].dst # r
    /\ run[p].pc \in Scripted(p) \ BeforeSrc => host.src # r
    /\ run[p].pc \in Scripted(p) \ BeforeDst => host.dst # r

Lone(r) ==
    /\ Active(r) => \A q \in Run \ {r} : ~Active(q)
    /\ \A q \in Run \ {r} : Active(q) => Elsewhere(q, r)
    /\ run[r].pc \in Scripted(r) => InScript(r)
    /\ run[r].said /\ run[r].pc \in Trapped \cup {"gone"} => Finished(r)

Copying == \A r \in Run \ (busy \cup shared) : Lone(r)

IInv == TypeOK /\ Freeing /\ Listing /\ Rooted /\ Copying

------------------------------------------------------------------------------
(* The order of the commands.                                              *)

Step == {"create", "check_lvm", "connect_src", "connect_dst", "find_root", "luks_format",
         "luks_open", "mkfs", "mount_src", "mount_dst", "rsync", "copying", "prepare",
         "umount_src", "umount_dst", "verity_format", "rm_src", "rm_dst", "close",
         "unmount_lvm", "disconnect_src", "disconnect_dst", "rmmod", "gone"}

LuksOrder == <<"create", "check_lvm", "connect_src", "connect_dst", "find_root",
               "luks_format", "luks_open", "mkfs", "mount_src", "mount_dst", "rsync",
               "copying", "rm_src", "rm_dst", "close", "unmount_lvm", "disconnect_src",
               "disconnect_dst", "rmmod", "gone">>

VerityOrder == <<"create", "check_lvm", "connect_src", "connect_dst", "find_root",
                 "mkfs", "mount_src", "mount_dst", "rsync", "copying", "prepare",
                 "umount_src", "umount_dst", "verity_format", "rm_src", "rm_dst", "close",
                 "unmount_lvm", "disconnect_src", "disconnect_dst", "rmmod", "gone">>

\* v is the lists s, t and u, one after the other.
Three(s, t, u, v) ==
    /\ Len(v) = Len(s) + Len(t) + Len(u)
    /\ \A i \in 1 .. Len(s) : v[i] = s[i]
    /\ \A i \in 1 .. Len(t) : v[Len(s) + i] = t[i]
    /\ \A i \in 1 .. Len(u) : v[Len(s) + Len(t) + i] = u[i]

LEMMA Joined ==
    ASSUME NEW s \in Seq(Step), NEW t \in Seq(Step), NEW u \in Seq(Step), NEW v \in Seq(Step),
           Three(s, t, u, v)
    PROVE  (s \o t) \o u = v
<1> USE DEF Three
<1>1. /\ s \o t \in Seq(Step) /\ Len(s \o t) = Len(s) + Len(t)
      /\ \A i \in 1 .. Len(s) + Len(t) :
           (s \o t)[i] = IF i <= Len(s) THEN s[i] ELSE t[i - Len(s)]
  BY ConcatProperties
<1>2. /\ (s \o t) \o u \in Seq(Step) /\ Len((s \o t) \o u) = Len(v)
      /\ \A i \in 1 .. Len(v) : ((s \o t) \o u)[i] =
           IF i <= Len(s) + Len(t) THEN (s \o t)[i] ELSE u[i - (Len(s) + Len(t))]
  BY <1>1, ConcatProperties
<1>3. Len(s) \in Nat /\ Len(t) \in Nat /\ Len(u) \in Nat
  OBVIOUS
<1>4. ASSUME NEW i \in 1 .. Len(v)
      PROVE  ((s \o t) \o u)[i] = v[i]
  <2>1. CASE i <= Len(s)
    BY <1>1, <1>2, <1>3, <2>1
  <2>2. CASE ~(i <= Len(s)) /\ i <= Len(s) + Len(t)
    <3>1. i - Len(s) \in 1 .. Len(t) /\ Len(s) + (i - Len(s)) = i
      BY <1>3, <2>2
    <3>2. v[i] = t[i - Len(s)]
      BY <3>1
    <3> QED
      BY <1>1, <1>2, <1>3, <2>2, <3>2
  <2>3. CASE ~(i <= Len(s) + Len(t))
    <3>1. /\ i - (Len(s) + Len(t)) \in 1 .. Len(u)
          /\ Len(s) + Len(t) + (i - (Len(s) + Len(t))) = i
      BY <1>3, <2>3
    <3>2. v[i] = u[i - (Len(s) + Len(t))]
      BY <3>1
    <3> QED
      BY <1>2, <1>3, <2>3, <3>2
  <2> QED
    BY <2>1, <2>2, <2>3
<1> QED
  BY <1>2, <1>4, SeqEqual

LEMMA PartsOf ==
    /\ Preparing \in Seq(Step) /\ Len(Preparing) = 5
    /\ Cleaning \in Seq(Step) /\ Len(Cleaning) = 8
    /\ LuksOrder \in Seq(Step) /\ Len(LuksOrder) = 20
    /\ VerityOrder \in Seq(Step) /\ Len(VerityOrder) = 22
<1>1. Preparing \in Seq(Step) /\ Len(Preparing) = 5
  BY DEF Preparing, Step
<1>2. Cleaning \in Seq(Step) /\ Len(Cleaning) = 8
  BY DEF Cleaning, Step
<1>3. LuksOrder \in Seq(Step) /\ Len(LuksOrder) = 20
  BY DEF LuksOrder, Step
<1>4. VerityOrder \in Seq(Step) /\ Len(VerityOrder) = 22
  BY DEF VerityOrder, Step
<1> QED
  BY <1>1, <1>2, <1>3, <1>4

LEMMA LuksSteps ==
    ASSUME NEW r \in Luks
    PROVE  /\ Script(r) \o Cleaning = LuksOrder
           /\ Script(r) \in Seq(Step) /\ Len(Script(r)) = 12
<1> DEFINE rest == <<"luks_format", "luks_open", "mkfs", "mount_src", "mount_dst",
                     "rsync", "copying">>
<1>1. rest \in Seq(Step) /\ Len(rest) = 7
  BY DEF Step
<1>2. Script(r) = Preparing \o rest
  BY DEF Script
<1>3. \A i \in 1 .. 5 : LuksOrder[i] = Preparing[i]
  BY DEF LuksOrder, Preparing
<1>4. \A i \in 1 .. 7 : LuksOrder[5 + i] = rest[i]
  BY DEF LuksOrder
<1>5. \A i \in 1 .. 8 : LuksOrder[5 + 7 + i] = Cleaning[i]
  BY DEF LuksOrder, Cleaning
<1> HIDE DEF rest
<1>6. (Preparing \o rest) \o Cleaning = LuksOrder
  <2>1. /\ Len(Preparing) = 5 /\ Len(rest) = 7 /\ Len(Cleaning) = 8 /\ Len(LuksOrder) = 20
        /\ Preparing \in Seq(Step) /\ Cleaning \in Seq(Step) /\ LuksOrder \in Seq(Step)
    BY <1>1, PartsOf
  <2>2. Three(Preparing, rest, Cleaning, LuksOrder)
    BY <1>3, <1>4, <1>5, <2>1 DEF Three
  <2> QED
    BY <1>1, <2>1, <2>2, Joined
<1>7. Preparing \o rest \in Seq(Step) /\ Len(Preparing \o rest) = 12
  <2>1. /\ Preparing \o rest \in Seq(Step)
        /\ Len(Preparing \o rest) = Len(Preparing) + Len(rest)
    BY <1>1, PartsOf, ConcatProperties
  <2> QED
    BY <1>1, <2>1, PartsOf
<1> QED
  BY <1>2, <1>6, <1>7

LEMMA VeritySteps ==
    ASSUME NEW r, r \notin Luks
    PROVE  /\ Script(r) \o Cleaning = VerityOrder
           /\ Script(r) \in Seq(Step) /\ Len(Script(r)) = 14
<1> DEFINE rest == <<"mkfs", "mount_src", "mount_dst", "rsync", "copying", "prepare",
                     "umount_src", "umount_dst", "verity_format">>
<1>1. rest \in Seq(Step) /\ Len(rest) = 9
  BY DEF Step
<1>2. Script(r) = Preparing \o rest
  BY DEF Script
<1>3. \A i \in 1 .. 5 : VerityOrder[i] = Preparing[i]
  BY DEF VerityOrder, Preparing
<1>4. \A i \in 1 .. 9 : VerityOrder[5 + i] = rest[i]
  BY DEF VerityOrder
<1>5. \A i \in 1 .. 8 : VerityOrder[5 + 9 + i] = Cleaning[i]
  BY DEF VerityOrder, Cleaning
<1> HIDE DEF rest
<1>6. (Preparing \o rest) \o Cleaning = VerityOrder
  <2>1. /\ Len(Preparing) = 5 /\ Len(rest) = 9 /\ Len(Cleaning) = 8 /\ Len(VerityOrder) = 22
        /\ Preparing \in Seq(Step) /\ Cleaning \in Seq(Step) /\ VerityOrder \in Seq(Step)
    BY <1>1, PartsOf
  <2>2. Three(Preparing, rest, Cleaning, VerityOrder)
    BY <1>3, <1>4, <1>5, <2>1 DEF Three
  <2> QED
    BY <1>1, <2>1, <2>2, Joined
<1>7. Preparing \o rest \in Seq(Step) /\ Len(Preparing \o rest) = 14
  <2>1. /\ Preparing \o rest \in Seq(Step)
        /\ Len(Preparing \o rest) = Len(Preparing) + Len(rest)
    BY <1>1, PartsOf, ConcatProperties
  <2> QED
    BY <1>1, <2>1, PartsOf
<1> QED
  BY <1>2, <1>6, <1>7

\* Where each of them stands.
Place(order, i) == \A j \in 1 .. Len(order) : order[j] = order[i] => j = i

LEMMA LuksPlaces == \A i \in 1 .. 20 : Place(LuksOrder, i)
<1> DEFINE at == [x \in Step |->
                    CASE x = "create" -> 1 [] x = "check_lvm" -> 2 [] x = "connect_src" -> 3
                      [] x = "connect_dst" -> 4 [] x = "find_root" -> 5
                      [] x = "luks_format" -> 6 [] x = "luks_open" -> 7 [] x = "mkfs" -> 8
                      [] x = "mount_src" -> 9 [] x = "mount_dst" -> 10 [] x = "rsync" -> 11
                      [] x = "copying" -> 12 [] x = "rm_src" -> 13 [] x = "rm_dst" -> 14
                      [] x = "close" -> 15 [] x = "unmount_lvm" -> 16
                      [] x = "disconnect_src" -> 17 [] x = "disconnect_dst" -> 18
                      [] x = "rmmod" -> 19 [] OTHER -> 20]
<1>1. \A i \in 1 .. 20 : at[LuksOrder[i]] = i
  BY DEF LuksOrder, Step
<1> HIDE DEF at
<1> QED
  BY <1>1, PartsOf DEF Place

LEMMA VerityPlaces == \A i \in 1 .. 22 : Place(VerityOrder, i)
<1> DEFINE at == [x \in Step |->
                    CASE x = "create" -> 1 [] x = "check_lvm" -> 2 [] x = "connect_src" -> 3
                      [] x = "connect_dst" -> 4 [] x = "find_root" -> 5
                      [] x = "mkfs" -> 6 [] x = "mount_src" -> 7 [] x = "mount_dst" -> 8
                      [] x = "rsync" -> 9 [] x = "copying" -> 10 [] x = "prepare" -> 11
                      [] x = "umount_src" -> 12 [] x = "umount_dst" -> 13
                      [] x = "verity_format" -> 14 [] x = "rm_src" -> 15 [] x = "rm_dst" -> 16
                      [] x = "close" -> 17 [] x = "unmount_lvm" -> 18
                      [] x = "disconnect_src" -> 19 [] x = "disconnect_dst" -> 20
                      [] x = "rmmod" -> 21 [] OTHER -> 22]
<1>1. \A i \in 1 .. 22 : at[VerityOrder[i]] = i
  BY DEF VerityOrder, Step
<1> HIDE DEF at
<1> QED
  BY <1>1, PartsOf DEF Place

\* What follows on a command is the next of them.
LEMMA Following ==
    ASSUME NEW r \in Run, NEW order, order = Script(r) \o Cleaning,
           NEW i \in 1 .. Len(order), Place(order, i), run[r].pc = order[i]
    PROVE  After(r) = order[1 + i]
<1>1. (CHOOSE j \in 1 .. Len(order) : order[j] = run[r].pc) = i
  BY DEF Place
<1> QED
  BY <1>1 DEF After

LEMMA LuksAfter ==
    ASSUME NEW r \in Run, r \in Luks, NEW i \in 1 .. 19, run[r].pc = LuksOrder[i]
    PROVE  After(r) = LuksOrder[1 + i]
<1>1. LuksOrder = Script(r) \o Cleaning
  BY LuksSteps
<1>2. i \in 1 .. 20 /\ Len(LuksOrder) = 20
  BY PartsOf
<1>3. Place(LuksOrder, i)
  BY <1>2, LuksPlaces
<1> QED
  BY <1>1, <1>2, <1>3, Following

LEMMA VerityAfter ==
    ASSUME NEW r \in Run, r \notin Luks, NEW i \in 1 .. 21, run[r].pc = VerityOrder[i]
    PROVE  After(r) = VerityOrder[1 + i]
<1>1. VerityOrder = Script(r) \o Cleaning
  BY VeritySteps
<1>2. i \in 1 .. 22 /\ Len(VerityOrder) = 22
  BY PartsOf
<1>3. Place(VerityOrder, i)
  BY <1>2, VerityPlaces
<1> QED
  BY <1>1, <1>2, <1>3, Following

LEMMA ScriptedSteps ==
    ASSUME NEW r
    PROVE  Scripted(r) =
             {"create", "check_lvm", "connect_src", "connect_dst", "find_root",
              "mkfs", "mount_src", "mount_dst", "rsync", "copying"}
             \cup (IF r \in Luks THEN {"luks_format", "luks_open"}
                   ELSE {"prepare", "umount_src", "umount_dst", "verity_format"})
<1>1. CASE r \in Luks
  <2>1. Script(r) \in Seq(Step) /\ Len(Script(r)) = 12 /\ Script(r) \o Cleaning = LuksOrder
    BY <1>1, LuksSteps
  <2>2. \A i \in 1 .. 12 : Script(r)[i] = LuksOrder[i]
    <3>1. \A i \in 1 .. Len(Script(r)) + Len(Cleaning) : (Script(r) \o Cleaning)[i] =
            IF i <= Len(Script(r)) THEN Script(r)[i] ELSE Cleaning[i - Len(Script(r))]
      BY <2>1, PartsOf, ConcatProperties
    <3>2. Len(Script(r)) = 12 /\ Len(Cleaning) = 8
      BY <2>1, PartsOf
    <3> QED
      BY <2>1, <3>1, <3>2, SMTT(30)
  <2>3. Scripted(r) = {LuksOrder[i] : i \in 1 .. 12}
    BY <2>1, <2>2 DEF Scripted
  <2>4. \A i \in 1 .. 12 : LuksOrder[i] \in
           {"create", "check_lvm", "connect_src", "connect_dst", "find_root", "mkfs",
            "mount_src", "mount_dst", "rsync", "copying", "luks_format", "luks_open"}
    BY DEF LuksOrder
  <2>5. \A x \in {"create", "check_lvm", "connect_src", "connect_dst", "find_root", "mkfs",
                  "mount_src", "mount_dst", "rsync", "copying", "luks_format", "luks_open"} :
           \E i \in 1 .. 12 : LuksOrder[i] = x
    <3>1. /\ LuksOrder[1] = "create" /\ LuksOrder[2] = "check_lvm"
          /\ LuksOrder[3] = "connect_src" /\ LuksOrder[4] = "connect_dst"
          /\ LuksOrder[5] = "find_root" /\ LuksOrder[6] = "luks_format"
          /\ LuksOrder[7] = "luks_open" /\ LuksOrder[8] = "mkfs"
          /\ LuksOrder[9] = "mount_src" /\ LuksOrder[10] = "mount_dst"
          /\ LuksOrder[11] = "rsync" /\ LuksOrder[12] = "copying"
      BY DEF LuksOrder
    <3> QED
      BY <3>1
  <2> QED
    BY <1>1, <2>3, <2>4, <2>5
<1>2. CASE r \notin Luks
  <2>1. Script(r) \in Seq(Step) /\ Len(Script(r)) = 14 /\ Script(r) \o Cleaning = VerityOrder
    BY <1>2, VeritySteps
  <2>2. \A i \in 1 .. 14 : Script(r)[i] = VerityOrder[i]
    <3>1. \A i \in 1 .. Len(Script(r)) + Len(Cleaning) : (Script(r) \o Cleaning)[i] =
            IF i <= Len(Script(r)) THEN Script(r)[i] ELSE Cleaning[i - Len(Script(r))]
      BY <2>1, PartsOf, ConcatProperties
    <3>2. Len(Script(r)) = 14 /\ Len(Cleaning) = 8
      BY <2>1, PartsOf
    <3> QED
      BY <2>1, <3>1, <3>2, SMTT(30)
  <2>3. Scripted(r) = {VerityOrder[i] : i \in 1 .. 14}
    BY <2>1, <2>2 DEF Scripted
  <2>4. \A i \in 1 .. 14 : VerityOrder[i] \in
           {"create", "check_lvm", "connect_src", "connect_dst", "find_root", "mkfs",
            "mount_src", "mount_dst", "rsync", "copying", "prepare", "umount_src",
            "umount_dst", "verity_format"}
    BY DEF VerityOrder
  <2>5. \A x \in {"create", "check_lvm", "connect_src", "connect_dst", "find_root", "mkfs",
                  "mount_src", "mount_dst", "rsync", "copying", "prepare", "umount_src",
                  "umount_dst", "verity_format"} :
           \E i \in 1 .. 14 : VerityOrder[i] = x
    <3>1. /\ VerityOrder[1] = "create" /\ VerityOrder[2] = "check_lvm"
          /\ VerityOrder[3] = "connect_src" /\ VerityOrder[4] = "connect_dst"
          /\ VerityOrder[5] = "find_root" /\ VerityOrder[6] = "mkfs"
          /\ VerityOrder[7] = "mount_src" /\ VerityOrder[8] = "mount_dst"
          /\ VerityOrder[9] = "rsync" /\ VerityOrder[10] = "copying"
          /\ VerityOrder[11] = "prepare" /\ VerityOrder[12] = "umount_src"
          /\ VerityOrder[13] = "umount_dst" /\ VerityOrder[14] = "verity_format"
      BY DEF VerityOrder
    <3> QED
      BY <3>1
  <2>6. {VerityOrder[i] : i \in 1 .. 14} =
          {"create", "check_lvm", "connect_src", "connect_dst", "find_root", "mkfs",
           "mount_src", "mount_dst", "rsync", "copying", "prepare", "umount_src",
           "umount_dst", "verity_format"}
    BY <2>4, <2>5
  <2> QED
    BY <1>2, <2>3, <2>6
<1> QED
  BY <1>1, <1>2

LEMMA TrappedSteps ==
    Trapped = {"rm_src", "rm_dst", "close", "unmount_lvm", "disconnect_src",
               "disconnect_dst", "rmmod"}
<1>1. /\ Cleaning[1] = "rm_src" /\ Cleaning[2] = "rm_dst" /\ Cleaning[3] = "close"
      /\ Cleaning[4] = "unmount_lvm" /\ Cleaning[5] = "disconnect_src"
      /\ Cleaning[6] = "disconnect_dst" /\ Cleaning[7] = "rmmod" /\ Cleaning[8] = "gone"
  BY DEF Cleaning
<1>2. \A i \in 1 .. 8 : Cleaning[i] \in
        {"rm_src", "rm_dst", "close", "unmount_lvm", "disconnect_src", "disconnect_dst",
         "rmmod", "gone"}
  BY DEF Cleaning
<1>3. \A x \in {"rm_src", "rm_dst", "close", "unmount_lvm", "disconnect_src",
                "disconnect_dst", "rmmod", "gone"} : \E i \in 1 .. 8 : Cleaning[i] = x
  BY <1>1
<1>4. {Cleaning[i] : i \in 1 .. 8} =
        {"rm_src", "rm_dst", "close", "unmount_lvm", "disconnect_src", "disconnect_dst",
         "rmmod", "gone"}
  BY <1>2, <1>3
<1> QED
  BY <1>4, PartsOf DEF Trapped

\* What follows on each command of a script and of its exit trap.
LEMMA AfterSteps ==
    ASSUME NEW r \in Run
    PROVE  /\ run[r].pc = "create" => After(r) = "check_lvm"
           /\ run[r].pc = "check_lvm" => After(r) = "connect_src"
           /\ run[r].pc = "connect_src" => After(r) = "connect_dst"
           /\ run[r].pc = "connect_dst" => After(r) = "find_root"
           /\ run[r].pc = "mkfs" => After(r) = "mount_src"
           /\ run[r].pc = "mount_src" => After(r) = "mount_dst"
           /\ run[r].pc = "mount_dst" => After(r) = "rsync"
           /\ run[r].pc = "rsync" => After(r) = "copying"
           /\ run[r].pc = "rm_src" => After(r) = "rm_dst"
           /\ run[r].pc = "rm_dst" => After(r) = "close"
           /\ run[r].pc = "close" => After(r) = "unmount_lvm"
           /\ run[r].pc = "unmount_lvm" => After(r) = "disconnect_src"
           /\ run[r].pc = "disconnect_src" => After(r) = "disconnect_dst"
           /\ run[r].pc = "disconnect_dst" => After(r) = "rmmod"
           /\ run[r].pc = "rmmod" => After(r) = "gone"
           /\ r \in Luks =>
                /\ run[r].pc = "find_root" => After(r) = "luks_format"
                /\ run[r].pc = "luks_format" => After(r) = "luks_open"
                /\ run[r].pc = "luks_open" => After(r) = "mkfs"
                /\ run[r].pc = "copying" => After(r) = "rm_src"
           /\ r \notin Luks =>
                /\ run[r].pc = "find_root" => After(r) = "mkfs"
                /\ run[r].pc = "copying" => After(r) = "prepare"
                /\ run[r].pc = "prepare" => After(r) = "umount_src"
                /\ run[r].pc = "umount_src" => After(r) = "umount_dst"
                /\ run[r].pc = "umount_dst" => After(r) = "verity_format"
                /\ run[r].pc = "verity_format" => After(r) = "rm_src"
<1>1. CASE r \in Luks
  <2>1. \A i \in 1 .. 19 : run[r].pc = LuksOrder[i] => After(r) = LuksOrder[1 + i]
    BY <1>1, LuksAfter
  <2>2. /\ LuksOrder[1] = "create" /\ LuksOrder[2] = "check_lvm"
        /\ LuksOrder[3] = "connect_src" /\ LuksOrder[4] = "connect_dst"
        /\ LuksOrder[5] = "find_root" /\ LuksOrder[6] = "luks_format"
        /\ LuksOrder[7] = "luks_open" /\ LuksOrder[8] = "mkfs"
        /\ LuksOrder[9] = "mount_src" /\ LuksOrder[10] = "mount_dst"
        /\ LuksOrder[11] = "rsync" /\ LuksOrder[12] = "copying"
        /\ LuksOrder[13] = "rm_src" /\ LuksOrder[14] = "rm_dst"
        /\ LuksOrder[15] = "close" /\ LuksOrder[16] = "unmount_lvm"
        /\ LuksOrder[17] = "disconnect_src" /\ LuksOrder[18] = "disconnect_dst"
        /\ LuksOrder[19] = "rmmod" /\ LuksOrder[20] = "gone"
    BY DEF LuksOrder
  <2> QED
    BY <1>1, <2>1, <2>2
<1>2. CASE r \notin Luks
  <2>1. \A i \in 1 .. 21 : run[r].pc = VerityOrder[i] => After(r) = VerityOrder[1 + i]
    BY <1>2, VerityAfter
  <2>2. /\ VerityOrder[1] = "create" /\ VerityOrder[2] = "check_lvm"
        /\ VerityOrder[3] = "connect_src" /\ VerityOrder[4] = "connect_dst"
        /\ VerityOrder[5] = "find_root" /\ VerityOrder[6] = "mkfs"
        /\ VerityOrder[7] = "mount_src" /\ VerityOrder[8] = "mount_dst"
        /\ VerityOrder[9] = "rsync" /\ VerityOrder[10] = "copying"
        /\ VerityOrder[11] = "prepare" /\ VerityOrder[12] = "umount_src"
        /\ VerityOrder[13] = "umount_dst" /\ VerityOrder[14] = "verity_format"
        /\ VerityOrder[15] = "rm_src" /\ VerityOrder[16] = "rm_dst"
        /\ VerityOrder[17] = "close" /\ VerityOrder[18] = "unmount_lvm"
        /\ VerityOrder[19] = "disconnect_src" /\ VerityOrder[20] = "disconnect_dst"
        /\ VerityOrder[21] = "rmmod" /\ VerityOrder[22] = "gone"
    BY DEF VerityOrder
  <2> QED
    BY <1>2, <2>1, <2>2
<1> QED
  BY <1>1, <1>2

------------------------------------------------------------------------------
(* A step of one run.                                                      *)

Host == [module : BOOLEAN, src : Run \cup {None}, dst : Run \cup {None},
         mapper : Run \cup {None}, own : SUBSET HostVolume,
         lv : Lvm \cup {None}, off : SUBSET Volume,
         held : SUBSET (Volume \cup {"nbd0", "nbd1", "mapper"}),
         refused : SUBSET {"src", "dst", "mapper"}]

Entry(r) == [pc : Scripted(r) \cup Trapped \cup {"gone", "aborted", "killed"},
             lvm : Nat \cup {None}, root : Volume \cup Partition \cup {None},
             src : Run \cup HostVolume \cup {None}, dst : Run \cup {None}, said : BOOLEAN]

Image == [damaged : BOOLEAN,
          dst : {"absent", "blank", "luks", "fs", "part", "cached", "prepared", "whole", "ready"},
          from : Run \cup {None, "other"}, lost : BOOLEAN,
          hash : {"none", "empty", "right", "other"}]

LEMMA Types ==
    TypeOK <=> /\ host \in Host /\ DOMAIN run = Run /\ \A r \in Run : run[r] \in Entry(r)
               /\ disk \in [Run -> Image]
               /\ starts \in 0 .. MaxStarts /\ busy \subseteq Run /\ shared \subseteq Run
BY DEF TypeOK, Host, Entry, Image

LEMMA Names ==
    /\ None \notin Run /\ None \notin HostVolume /\ None \notin Nat
    /\ Run \cap HostVolume = {} /\ Lvm \subseteq Run /\ Luks \subseteq Run
    /\ \A x \in Partition \cup {"nbd0", "nbd1", "mapper"} : x \notin Run /\ x \notin HostVolume
BY RunAssumption, HostVolumeAssumption, NamesAssumption

\* What lvdisplay lists can be counted, and the host's own volumes are in it.
LEMMA Counted ==
    ASSUME host \in Host
    PROVE  /\ Listed \subseteq Volume /\ None \notin Listed
           /\ Listed \subseteq host.own \cup {host.lv}
           /\ Cardinality(Listed) \in Nat
           /\ host.own # {} => Cardinality(Listed) > 0
<1>1. /\ Listed \subseteq Volume /\ None \notin Listed
      /\ Listed \subseteq host.own \cup {host.lv} /\ host.own \subseteq Listed
  BY Names DEF Listed, Host, Volume
<1>2. IsFiniteSet(host.own)
  BY HostVolumeAssumption, FS_Subset DEF Host
<1>3. IsFiniteSet(host.own \cup {host.lv})
  BY <1>2, FS_AddElement
<1>4. IsFiniteSet(Listed)
  BY <1>1, <1>3, FS_Subset
<1>5. Cardinality(Listed) \in Nat
  BY <1>4, FS_CardinalityType
<1>6. Listed # {} => Cardinality(Listed) # 0
  BY <1>4, FS_EmptySet
<1> QED
  BY <1>1, <1>5, <1>6

\* A command that succeeds takes the run on and leaves the others where they are.
Effect(r, at, h, d, to) ==
    /\ run[r].pc = at /\ at \in Scripted(r) \cup Trapped
    /\ host' = h /\ disk' = d /\ UNCHANGED <<starts, busy, shared>>
    /\ run'[r].pc = After(r)
    /\ run'[r].lvm = to.lvm /\ run'[r].root = to.root
    /\ run'[r].src = to.src /\ run'[r].dst = to.dst /\ run'[r].said = to.said
    /\ \A q \in Run \ {r} : run'[q] = run[q]

LEMMA DoStep ==
    ASSUME TypeOK, NEW r \in Run, NEW at, at \notin {"gone", "aborted", "killed"},
           NEW h \in Host, NEW d \in [Run -> Image], NEW to \in Entry(r), Do(r, at, h, d, to)
    PROVE  TypeOK' /\ Effect(r, at, h, d, to)
<1>1. /\ host \in Host /\ DOMAIN run = Run /\ \A q \in Run : run[q] \in Entry(q)
      /\ starts \in 0 .. MaxStarts /\ busy \subseteq Run /\ shared \subseteq Run
  BY Types
<1>2. run[r].pc = at /\ run[r].pc \in Scripted(r) \cup Trapped
  BY <1>1 DEF Do, Entry
<1>3. After(r) \in Scripted(r) \cup Trapped \cup {"gone"}
  <2>1. CASE r \in Luks
    BY <1>2, <2>1, AfterSteps, ScriptedSteps, TrappedSteps
  <2>2. CASE r \notin Luks
    BY <1>2, <2>2, AfterSteps, ScriptedSteps, TrappedSteps
  <2> QED
    BY <2>1, <2>2
<1>4. run' = [run EXCEPT ![r] = [to EXCEPT !.pc = After(r)]]
  BY DEF Do
<1>5. [to EXCEPT !.pc = After(r)] \in Entry(r)
  BY <1>3 DEF Entry
<1>6. /\ DOMAIN run' = Run /\ run'[r] = [to EXCEPT !.pc = After(r)]
      /\ \A q \in Run \ {r} : run'[q] = run[q]
  BY <1>1, <1>4
<1>7. /\ run'[r].pc = After(r) /\ run'[r].lvm = to.lvm /\ run'[r].root = to.root
      /\ run'[r].src = to.src /\ run'[r].dst = to.dst /\ run'[r].said = to.said
  BY <1>6 DEF Entry
<1>8. \A q \in Run : run'[q] \in Entry(q)
  BY <1>1, <1>5, <1>6
<1>9. host' = h /\ disk' = d /\ UNCHANGED <<starts, busy, shared>>
  BY DEF Do
<1>10. TypeOK'
  BY <1>1, <1>6, <1>8, <1>9 DEF TypeOK, Host, Entry, Image
<1> QED
  BY <1>2, <1>6, <1>7, <1>9, <1>10 DEF Effect

\* A step of run p that leaves alone what the others have finished.
Apart(p) ==
    /\ host'.own = host.own
    /\ host'.src \in {host.src, None, p} /\ host'.dst \in {host.dst, None, p}
    /\ \A q \in Run \ {p} :
         /\ run'[q] = run[q]
         /\ Elsewhere(p, q) =>
              /\ Elsewhere(p, q)'
              /\ disk[q].dst \in {"cached", "prepared"} \/ disk'[q] = disk[q]

\* What such a step has to show of run p itself.
Kept(p) ==
    /\ run'[p].pc \in Scripted(p) => InScript(p)'
    /\ run'[p].said /\ run'[p].pc \in Trapped \cup {"gone"} => Finished(p)'

LEMMA LoneStep ==
    ASSUME IInv, NEW p \in Run, Active(p), Apart(p), shared' = shared, busy \subseteq busy',
           p \notin busy' \cup shared => Kept(p)
    PROVE  Copying'
<1> SUFFICES ASSUME NEW q \in Run, q \notin busy', q \notin shared
             PROVE  Lone(q)'
  BY DEF Copying
<1>1. Lone(q)
  BY DEF IInv, Copying
<1>2. CASE q = p
  <2>1. \A x \in Run \ {p} : ~Active(x) /\ run'[x] = run[x]
    BY <1>1, <1>2 DEF Lone, Apart
  <2>2. \A x \in Run \ {p} : ~Active(x)'
    BY <2>1 DEF Active
  <2>3. Kept(p)
    BY <1>2
  <2> QED
    BY <1>2, <2>2, <2>3 DEF Lone, Kept
<1>3. CASE q # p
  <2>1. ~Active(q) /\ run'[q] = run[q]
    BY <1>1, <1>3 DEF Lone, Apart
  <2>2. ~Active(q)'
    BY <2>1 DEF Active
  <2>3. Elsewhere(p, q)
    BY <1>1, <1>3 DEF Lone
  <2>4. ASSUME NEW x \in Run \ {q}, Active(x)'
        PROVE  Elsewhere(x, q)'
    <3>1. CASE x = p
      BY <1>3, <2>3, <3>1 DEF Apart
    <3>2. CASE x # p
      <4>1. run'[x] = run[x]
        BY <3>2 DEF Apart
      <4>2. Active(x)
        BY <2>4, <4>1 DEF Active
      <4>3. Elsewhere(x, q)
        BY <1>1, <4>2 DEF Lone
      <4>4. host'.src \in {host.src, None, p} /\ host'.dst \in {host.dst, None, p}
        BY DEF Apart
      <4> QED
        BY <1>3, <4>1, <4>3, <4>4, Names DEF Elsewhere
    <3> QED
      BY <3>1, <3>2
  <2>5. ASSUME run[q].said, run[q].pc = "gone"
        PROVE  Finished(q)'
    <3>1. Finished(q)
      BY <1>1, <2>5 DEF Lone
    <3>2. disk[q].dst \notin {"cached", "prepared"}
      BY <2>5, <3>1 DEF Finished
    <3>3. disk'[q] = disk[q]
      BY <1>3, <2>3, <3>2 DEF Apart
    <3> QED
      BY <2>1, <2>5, <3>1, <3>3 DEF Finished, CopyOf
  <2> QED
    BY <2>1, <2>2, <2>4, <2>5 DEF Lone, Active
<1> QED
  BY <1>2, <1>3

\* What a command of run r may touch, apart from its output.
Within(r, at, h, d, to) ==
    /\ h.own = host.own /\ h.lv \in {None, h.src}
    /\ IF at = "connect_src" THEN h.src = r ELSE h.src \in {host.src, None}
    /\ IF at = "connect_dst" THEN h.dst = r ELSE h.dst \in {host.dst, None}
    /\ to.src \in {run[r].src, None} \cup HostVolume \/ (at = "mount_src" /\ to.src = host.src)
    /\ to.src # None => to.root \in Volume \cup Partition
    /\ to.dst \in {run[r].dst, None} \/ (at = "mount_dst" /\ to.dst = host.dst)
    /\ \A q \in Run \ {r} :
         \/ d[q] = disk[q]
         \/ q = run[r].dst
         \/ q = host.dst /\ at \in Scripted(r) \ BeforeDst
         \/ disk[q].dst \in {"cached", "prepared"}

LEMMA ApartStep ==
    ASSUME IInv, NEW r \in Run, NEW at, NEW h, NEW d, NEW to,
           Effect(r, at, h, d, to), Within(r, at, h, d, to)
    PROVE  Apart(r) /\ Listing' /\ Rooted'
<1>1. Listing'
  BY DEF Effect, Within, Listing
<1>2. Rooted'
  BY DEF Effect, Within, Rooted, IInv
<1>3. /\ host'.own = host.own
      /\ host'.src \in {host.src, None, r} /\ host'.dst \in {host.dst, None, r}
      /\ \A q \in Run \ {r} : run'[q] = run[q]
  BY DEF Effect, Within
<1>4. /\ run'[r].pc \in Scripted(r) \ BeforeSrc =>
           at = "connect_src" \/ at \in Scripted(r) \ BeforeSrc
      /\ run'[r].pc \in Scripted(r) \ BeforeDst =>
           at = "connect_dst" \/ at \in Scripted(r) \ BeforeDst
  BY AfterSteps, ScriptedSteps, TrappedSteps DEF Effect, BeforeSrc, BeforeDst
<1>5. ASSUME NEW q \in Run \ {r}, Elsewhere(r, q)
      PROVE  /\ Elsewhere(r, q)'
             /\ disk[q].dst \in {"cached", "prepared"} \/ disk'[q] = disk[q]
  <2>1. run[r].src # q /\ run[r].dst # q /\ q # None /\ q \notin HostVolume
    BY <1>5, Names DEF Elsewhere
  <2>2. at \in Scripted(r) \ BeforeSrc => host.src # q
    BY <1>5 DEF Elsewhere, Effect
  <2>3. at \in Scripted(r) \ BeforeDst => host.dst # q
    BY <1>5 DEF Elsewhere, Effect
  <2>4. run'[r].src # q
    <3>1. at = "mount_src" => at \in Scripted(r) \ BeforeSrc
      BY ScriptedSteps DEF BeforeSrc
    <3> QED
      BY <2>1, <2>2, <3>1 DEF Effect, Within
  <2>5. run'[r].dst # q
    <3>1. at = "mount_dst" => at \in Scripted(r) \ BeforeDst
      BY ScriptedSteps DEF BeforeDst
    <3> QED
      BY <2>1, <2>3, <3>1 DEF Effect, Within
  <2>6. run'[r].pc \in Scripted(r) \ BeforeSrc => host'.src # q
    BY <1>4, <2>1, <2>2 DEF Effect, Within
  <2>7. run'[r].pc \in Scripted(r) \ BeforeDst => host'.dst # q
    BY <1>4, <2>1, <2>3 DEF Effect, Within
  <2>8. disk[q].dst \in {"cached", "prepared"} \/ disk'[q] = disk[q]
    BY <2>1, <2>3 DEF Effect, Within
  <2>9. Elsewhere(r, q)'
    BY <2>4, <2>5, <2>6, <2>7 DEF Elsewhere
  <2> QED
    BY <2>8, <2>9
<1> QED
  BY <1>1, <1>2, <1>3, <1>5 DEF Apart

\* A command of the script, or one of the first two of clean_up(): the run has
\* everything to free yet.
LEMMA ScriptStep ==
    ASSUME IInv, NEW r \in Run, NEW at, NEW h, NEW d, NEW to,
           TypeOK', Effect(r, at, h, d, to), Within(r, at, h, d, to),
           at \notin {"close"} \cup PastClose,
           r \notin busy \cup shared => Kept(r)
    PROVE  IInv'
<1>1. Apart(r) /\ Listing' /\ Rooted'
  BY ApartStep
<1>2. run'[r].pc \notin PastClose
  BY AfterSteps, ScriptedSteps, TrappedSteps DEF Effect, PastClose
<1>3. Freeing'
  BY <1>2 DEF Freeing, PastClose, PastSrc, PastDst
<1>4. Copying'
  BY <1>1, LoneStep DEF Effect, Active
<1> QED
  BY <1>1, <1>3, <1>4 DEF IInv

\* What a run finds.
LEMMA Found ==
    ASSUME IInv, NEW r \in Run
    PROVE  /\ TypeOK /\ host \in Host /\ run[r] \in Entry(r) /\ disk \in [Run -> Image]
           /\ r # None /\ host.lv \in {None, host.src}
           /\ run[r].src # None => run[r].root \in Volume \cup Partition
           /\ r \notin busy \cup shared =>
                /\ run[r].pc \in Scripted(r) => InScript(r)
                /\ run[r].said /\ run[r].pc \in Trapped => Finished(r)
BY Types, Names DEF IInv, Copying, Lone, Listing, Rooted

------------------------------------------------------------------------------
(* The script.                                                             *)

\* A command that changes nothing of what a run has achieved.
LEMMA PlainStep ==
    ASSUME IInv, NEW r \in Run, NEW at, NEW h, NEW d, NEW to, Effect(r, at, h, d, to),
           at \in Scripted(r) \ (BeforeDst \cup {"find_root", "copying", "prepare", "umount_src",
                                    "umount_dst", "verity_format", "rsync"}),
           h.own = host.own, h.src = host.src, h.dst = host.dst,
           to.lvm = run[r].lvm, to.root = run[r].root, ~to.said = ~run[r].said,
           r \notin busy \cup shared /\ InScript(r) =>
             to.src \in {None, r} \cup host.own /\ to.dst \in {None, r}
    PROVE  r \notin busy \cup shared => Kept(r)
<1> SUFFICES ASSUME r \notin busy \cup shared
             PROVE  Kept(r)
  OBVIOUS
<1>1. InScript(r)
  BY Found DEF Effect
<1>2. run'[r].pc \in {"luks_open", "mkfs", "mount_src", "mount_dst", "rsync"}
  BY AfterSteps, ScriptedSteps DEF Effect, BeforeDst
<1>3. /\ run'[r].lvm = run[r].lvm /\ run'[r].root = run[r].root /\ ~run'[r].said
      /\ run'[r].src \in {None, r} \cup host.own /\ run'[r].dst \in {None, r}
      /\ host'.own = host.own /\ host'.src = host.src /\ host'.dst = host.dst
  BY <1>1 DEF Effect, InScript
<1>4. /\ run[r].lvm \in Nat /\ (host.own # {} => run[r].lvm > 0)
      /\ host.src = r /\ host.dst = r /\ run[r].root \in Partition \cup {r} \cup host.own
  BY <1>1 DEF Effect, InScript, BeforeSrc, BeforeDst
<1>5. InScript(r)'
  BY <1>2, <1>3, <1>4 DEF InScript
<1> QED
  BY <1>3, <1>5 DEF Kept

LEMMA CreateOutputStep == ASSUME IInv, NEW r \in Run, CreateOutput(r) PROVE IInv'
<1> DEFINE d == [disk EXCEPT ![r] = [disk[r] EXCEPT !.dst = "blank", !.from = None, !.lost = FALSE]]
<1>1. TypeOK /\ host \in Host /\ run[r] \in Entry(r) /\ disk \in [Run -> Image] /\ r # None
  BY Found
<1>2. d \in [Run -> Image] /\ \A q \in Run \ {r} : d[q] = disk[q]
  BY <1>1 DEF Image
<1>3. Do(r, "create", host, d, run[r])
  BY DEF CreateOutput, OnDisk
<1> HIDE DEF d
<1>4. TypeOK' /\ Effect(r, "create", host, d, run[r])
  BY <1>1, <1>2, <1>3, DoStep
<1>5. Within(r, "create", host, d, run[r])
  BY <1>2, Found DEF Within
<1>6. ASSUME r \notin busy \cup shared
      PROVE  Kept(r)
  <2>1. InScript(r)
    BY <1>4, <1>6, Found, ScriptedSteps DEF Effect
  <2>2. run'[r].pc = "check_lvm"
    BY <1>4, AfterSteps DEF Effect
  <2> QED
    BY <1>4, <2>1, <2>2 DEF Kept, InScript, Effect, BeforeSrc, BeforeDst
<1> QED
  BY <1>4, <1>5, <1>6, ScriptStep DEF PastClose

LEMMA CheckLvmStep == ASSUME IInv, NEW r \in Run, CheckLvm(r) PROVE IInv'
<1> DEFINE h == [host EXCEPT !.module = TRUE]
           to == [run[r] EXCEPT !.lvm = Cardinality(Listed)]
<1>1. TypeOK /\ host \in Host /\ run[r] \in Entry(r) /\ disk \in [Run -> Image] /\ r # None
  BY Found
<1>2. Cardinality(Listed) \in Nat /\ (host.own # {} => Cardinality(Listed) > 0)
  BY <1>1, Counted
<1>3. /\ h \in Host /\ h.own = host.own /\ h.src = host.src /\ h.dst = host.dst
      /\ h.lv = host.lv
  BY <1>1 DEF Host
<1>4. /\ to \in Entry(r) /\ to.lvm = Cardinality(Listed) /\ to.root = run[r].root
      /\ to.src = run[r].src /\ to.dst = run[r].dst /\ to.said = run[r].said
  BY <1>1, <1>2 DEF Entry
<1>5. Do(r, "check_lvm", h, disk, to)
  BY DEF CheckLvm
<1> HIDE DEF h, to
<1>6. TypeOK' /\ Effect(r, "check_lvm", h, disk, to)
  BY <1>1, <1>3, <1>4, <1>5, DoStep
<1>7. Within(r, "check_lvm", h, disk, to)
  BY <1>3, <1>4, Found DEF Within
<1>8. ASSUME r \notin busy \cup shared
      PROVE  Kept(r)
  <2>1. InScript(r)
    BY <1>6, <1>8, Found, ScriptedSteps DEF Effect
  <2>2. run'[r].pc = "connect_src"
    BY <1>6, AfterSteps DEF Effect
  <2> QED
    BY <1>2, <1>3, <1>4, <1>6, <2>1, <2>2 DEF Kept, InScript, Effect, BeforeSrc, BeforeDst
<1> QED
  BY <1>6, <1>7, <1>8, ScriptStep DEF PastClose

LEMMA ConnectSrcStep == ASSUME IInv, NEW r \in Run, ConnectSrc(r) PROVE IInv'
<1> DEFINE h == [host EXCEPT !.src = r]
<1>1. /\ TypeOK /\ host \in Host /\ run[r] \in Entry(r) /\ disk \in [Run -> Image] /\ r # None
      /\ host.lv = None
  BY Found DEF ConnectSrc
<1>2. /\ h \in Host /\ h.own = host.own /\ h.src = r /\ h.dst = host.dst
      /\ h.lv = None
  BY <1>1 DEF Host
<1>3. Do(r, "connect_src", h, disk, run[r])
  BY DEF ConnectSrc, OnHost
<1> HIDE DEF h
<1>4. TypeOK' /\ Effect(r, "connect_src", h, disk, run[r])
  BY <1>1, <1>2, <1>3, DoStep
<1>5. Within(r, "connect_src", h, disk, run[r])
  BY <1>2, Found DEF Within
<1>6. ASSUME r \notin busy \cup shared
      PROVE  Kept(r)
  <2>1. InScript(r)
    BY <1>4, <1>6, Found, ScriptedSteps DEF Effect
  <2>2. run'[r].pc = "connect_dst"
    BY <1>4, AfterSteps DEF Effect
  <2> QED
    BY <1>2, <1>4, <2>1, <2>2 DEF Kept, InScript, Effect, BeforeSrc, BeforeDst
<1> QED
  BY <1>4, <1>5, <1>6, ScriptStep DEF PastClose

LEMMA ConnectDstStep == ASSUME IInv, NEW r \in Run, ConnectDst(r) PROVE IInv'
<1> DEFINE h == [host EXCEPT !.dst = r]
<1>1. /\ TypeOK /\ host \in Host /\ run[r] \in Entry(r) /\ disk \in [Run -> Image] /\ r # None
      /\ host.lv \in {None, host.src}
  BY Found
<1>2. /\ h \in Host /\ h.own = host.own /\ h.src = host.src /\ h.dst = r
      /\ h.lv = host.lv
  BY <1>1 DEF Host
<1>3. Do(r, "connect_dst", h, disk, run[r])
  BY DEF ConnectDst, OnHost
<1> HIDE DEF h
<1>4. TypeOK' /\ Effect(r, "connect_dst", h, disk, run[r])
  BY <1>1, <1>2, <1>3, DoStep
<1>5. Within(r, "connect_dst", h, disk, run[r])
  BY <1>1, <1>2, Found DEF Within
<1>6. ASSUME r \notin busy \cup shared
      PROVE  Kept(r)
  <2>1. InScript(r)
    BY <1>4, <1>6, Found, ScriptedSteps DEF Effect
  <2>2. run'[r].pc = "find_root"
    BY <1>4, AfterSteps DEF Effect
  <2> QED
    BY <1>2, <1>4, <2>1, <2>2 DEF Kept, InScript, Effect, BeforeSrc, BeforeDst
<1> QED
  BY <1>4, <1>5, <1>6, ScriptStep DEF PastClose

\* The device is a volume of the source or the host, or a partition.
LEMMA FindRootStep == ASSUME IInv, NEW r \in Run, FindRoot(r) PROVE IInv'
<1>1. /\ TypeOK /\ host \in Host /\ run[r] \in Entry(r) /\ disk \in [Run -> Image] /\ r # None
      /\ host.lv \in {None, host.src}
  BY Found
<1>2. PICK device \in Listed \cup Partition :
        Do(r, "find_root", host, disk, [run[r] EXCEPT !.root = device])
  BY DEF FindRoot, OnRun
<1> DEFINE to == [run[r] EXCEPT !.root = device]
<1>3. /\ device \in Volume \cup Partition
      /\ device \in Partition \cup host.own \cup ({host.src} \ {None})
  BY <1>1, <1>2, Counted
<1>4. /\ to \in Entry(r) /\ to.lvm = run[r].lvm /\ to.root = device
      /\ to.src = run[r].src /\ to.dst = run[r].dst /\ to.said = run[r].said
  BY <1>1, <1>3 DEF Entry
<1>5. Do(r, "find_root", host, disk, to)
  BY <1>2
<1> HIDE DEF to
<1>6. TypeOK' /\ Effect(r, "find_root", host, disk, to)
  BY <1>1, <1>4, <1>5, DoStep
<1>7. Within(r, "find_root", host, disk, to)
  BY <1>1, <1>3, <1>4 DEF Within
<1>8. ASSUME r \notin busy \cup shared
      PROVE  Kept(r)
  <2>1. InScript(r)
    BY <1>6, <1>8, Found, ScriptedSteps DEF Effect
  <2>2. run'[r].pc \in {"luks_format", "mkfs"}
    BY <1>6, AfterSteps DEF Effect
  <2> QED
    BY <1>3, <1>4, <1>6, <2>1, <2>2 DEF Kept, InScript, Effect, BeforeSrc, BeforeDst
<1> QED
  BY <1>6, <1>7, <1>8, ScriptStep DEF PastClose

LEMMA LuksFormatStep == ASSUME IInv, NEW r \in Run, LuksFormat(r) PROVE IInv'
<1> DEFINE q == host.dst
           d == [disk EXCEPT ![q] = [disk[q] EXCEPT !.dst = "luks", !.from = None, !.lost = FALSE]]
<1>1. TypeOK /\ host \in Host /\ run[r] \in Entry(r) /\ disk \in [Run -> Image] /\ r # None
  BY Found
<1>2. d \in [Run -> Image] /\ \A x \in Run : x # host.dst => d[x] = disk[x]
  <2>1. q \in Run
    BY <1>1 DEF LuksFormat, Host
  <2> HIDE DEF q
  <2>2. disk[q] \in Image
    BY <1>1, <2>1
  <2>3. [disk[q] EXCEPT !.dst = "luks", !.from = None, !.lost = FALSE] \in Image
    BY <2>2 DEF Image
  <2>4. q = host.dst
    BY DEF q
  <2> QED
    BY <1>1, <2>1, <2>3, <2>4
<1>3. Do(r, "luks_format", host, d, run[r])
  BY DEF LuksFormat, OnDisk
<1> HIDE DEF d, q
<1>4. TypeOK' /\ Effect(r, "luks_format", host, d, run[r])
  BY <1>1, <1>2, <1>3, DoStep
<1>5. "luks_format" \in Scripted(r) \ BeforeDst
  BY <1>4, TrappedSteps DEF Effect, BeforeDst
<1>6. Within(r, "luks_format", host, d, run[r])
  BY <1>2, <1>5, Found DEF Within
<1>7. r \notin busy \cup shared => Kept(r)
  BY <1>4, <1>5, PlainStep DEF BeforeDst, InScript
<1> QED
  BY <1>4, <1>6, <1>7, ScriptStep DEF PastClose

LEMMA LuksOpenStep == ASSUME IInv, NEW r \in Run, LuksOpen(r) PROVE IInv'
<1> DEFINE h == [host EXCEPT !.mapper = host.dst]
<1>1. /\ TypeOK /\ host \in Host /\ run[r] \in Entry(r) /\ disk \in [Run -> Image] /\ r # None
      /\ host.lv \in {None, host.src}
  BY Found
<1>2. /\ h \in Host /\ h.own = host.own /\ h.src = host.src /\ h.dst = host.dst
      /\ h.lv = host.lv
  BY <1>1 DEF Host
<1>3. Do(r, "luks_open", h, disk, run[r])
  BY DEF LuksOpen, OnHost
<1> HIDE DEF h
<1>4. TypeOK' /\ Effect(r, "luks_open", h, disk, run[r])
  BY <1>1, <1>2, <1>3, DoStep
<1>5. "luks_open" \in Scripted(r) \ BeforeDst
  BY <1>4, TrappedSteps DEF Effect, BeforeDst
<1>6. Within(r, "luks_open", h, disk, run[r])
  BY <1>1, <1>2, Found DEF Within
<1>7. r \notin busy \cup shared => Kept(r)
  BY <1>2, <1>4, <1>5, PlainStep DEF BeforeDst, InScript
<1> QED
  BY <1>4, <1>6, <1>7, ScriptStep DEF PastClose

LEMMA MkfsStep == ASSUME IInv, NEW r \in Run, Mkfs(r) PROVE IInv'
<1> DEFINE q == Target(r)
           d == [disk EXCEPT ![q] = [disk[q] EXCEPT !.dst = "fs", !.from = None, !.lost = FALSE]]
<1>1. TypeOK /\ host \in Host /\ run[r] \in Entry(r) /\ disk \in [Run -> Image] /\ r # None
  BY Found
<1>2. d \in [Run -> Image] /\ \A x \in Run : x # host.dst => d[x] = disk[x]
  <2>1. Target(r) = host.dst /\ host.dst \in Run
    BY <1>1 DEF Mkfs, Target, Host
  <2> QED
    BY <1>1, <2>1 DEF Image
<1>3. Do(r, "mkfs", host, d, run[r])
  BY DEF Mkfs, OnDisk
<1> HIDE DEF d, q
<1>4. TypeOK' /\ Effect(r, "mkfs", host, d, run[r])
  BY <1>1, <1>2, <1>3, DoStep
<1>5. "mkfs" \in Scripted(r) \ BeforeDst
  BY ScriptedSteps DEF BeforeDst
<1>6. Within(r, "mkfs", host, d, run[r])
  BY <1>2, <1>5, Found DEF Within
<1>7. r \notin busy \cup shared => Kept(r)
  BY <1>4, <1>5, PlainStep DEF BeforeDst, InScript
<1> QED
  BY <1>4, <1>6, <1>7, ScriptStep DEF PastClose

\* What is mounted lies in the source, or is a volume of the host.
LEMMA MountSrcStep == ASSUME IInv, NEW r \in Run, MountSrc(r) PROVE IInv'
<1> DEFINE to == [run[r] EXCEPT !.src = Source(r)]
<1>1. /\ TypeOK /\ host \in Host /\ run[r] \in Entry(r) /\ disk \in [Run -> Image] /\ r # None
      /\ host.lv \in {None, host.src}
  BY Found
<1>2. /\ Source(r) \in host.own \cup ({host.src} \ {None})
      /\ run[r].root \in Volume \cup Partition
  <2>1. Source(r) # None
    BY DEF MountSrc
  <2>2. CASE run[r].root \in Listed \ host.off
    BY <1>1, <2>1, <2>2, Counted DEF Source
  <2>3. CASE run[r].root \notin Listed \ host.off
    BY <2>1, <2>3 DEF Source, Partition
  <2> QED
    BY <2>2, <2>3
<1>3. /\ to \in Entry(r) /\ to.lvm = run[r].lvm /\ to.root = run[r].root
      /\ to.src = Source(r) /\ to.dst = run[r].dst /\ to.said = run[r].said
  BY <1>1, <1>2 DEF Entry, Host
<1>4. Do(r, "mount_src", host, disk, to)
  BY DEF MountSrc, OnRun
<1> HIDE DEF to
<1>5. TypeOK' /\ Effect(r, "mount_src", host, disk, to)
  BY <1>1, <1>3, <1>4, DoStep
<1>6. "mount_src" \in Scripted(r) \ BeforeDst
  BY ScriptedSteps DEF BeforeDst
<1>7. Within(r, "mount_src", host, disk, to)
  BY <1>1, <1>2, <1>3 DEF Within, Host
<1>8. r \notin busy \cup shared => Kept(r)
  <2>1. InScript(r) => host.src = r
    BY <1>5, <1>6 DEF InScript, Effect, BeforeSrc, BeforeDst
  <2>2. InScript(r) => to.src \in {None, r} \cup host.own /\ to.dst \in {None, r}
    BY <1>2, <1>3, <2>1 DEF InScript
  <2> QED
    BY <1>3, <1>5, <1>6, <2>2, PlainStep DEF BeforeDst
<1> QED
  BY <1>5, <1>7, <1>8, ScriptStep DEF PastClose

LEMMA MountDstStep == ASSUME IInv, NEW r \in Run, MountDst(r) PROVE IInv'
<1> DEFINE to == [run[r] EXCEPT !.dst = Target(r)]
<1>1. /\ TypeOK /\ host \in Host /\ run[r] \in Entry(r) /\ disk \in [Run -> Image] /\ r # None
      /\ host.lv \in {None, host.src}
  BY Found
<1>2. Target(r) = host.dst
  BY DEF MountDst, Target
<1>3. /\ to \in Entry(r) /\ to.lvm = run[r].lvm /\ to.root = run[r].root
      /\ to.src = run[r].src /\ to.dst = host.dst /\ to.said = run[r].said
  BY <1>1, <1>2 DEF Entry, Host
<1>4. Do(r, "mount_dst", host, disk, to)
  BY DEF MountDst, OnRun
<1> HIDE DEF to
<1>5. TypeOK' /\ Effect(r, "mount_dst", host, disk, to)
  BY <1>1, <1>3, <1>4, DoStep
<1>6. "mount_dst" \in Scripted(r) \ BeforeDst
  BY ScriptedSteps DEF BeforeDst
<1>7. Within(r, "mount_dst", host, disk, to)
  BY <1>1, <1>3, Found DEF Within
<1>8. r \notin busy \cup shared => Kept(r)
  <2>1. InScript(r) => host.dst = r
    BY <1>5, <1>6 DEF InScript, Effect
  <2>2. InScript(r) => to.src \in {None, r} \cup host.own /\ to.dst \in {None, r}
    BY <1>3, <2>1 DEF InScript
  <2> QED
    BY <1>3, <1>5, <1>6, <2>2, PlainStep DEF BeforeDst
<1> QED
  BY <1>5, <1>7, <1>8, ScriptStep DEF PastClose

\* What a run that has the host to itself copies: the root of its source, or
\* something else, of which the script has warned or the user is the judge.
LEMMA Copies ==
    ASSUME NEW r \in Run, host \in Host, InScript(r), run[r].pc \in {"rsync", "copying"},
           Mounted(r)
    PROVE  /\ host.src = r /\ host.dst = r /\ run[r].dst = r
           /\ RootOf(r) \in {r, "other"}
           /\ RootOf(r) = "other" => run[r].root = "other" \/ run[r].lvm > 0
<1>1. /\ host.src = r /\ host.dst = r /\ (host.own # {} => run[r].lvm > 0)
      /\ run[r].src \in {None, r} \cup host.own
  BY DEF InScript, BeforeSrc, BeforeDst
<1>2. run[r].dst = r
  BY <1>1 DEF Mounted
<1>3. run[r].src = r \/ (run[r].src \in host.own /\ run[r].src \notin Run)
  BY <1>1, Names DEF Mounted, Host
<1>4. r # "other"
  BY Names DEF Partition
<1> QED
  BY <1>1, <1>2, <1>3, <1>4 DEF RootOf

LEMMA DamagedRoot ==
    ASSUME NEW r \in Run, disk \in [Run -> Image]
    PROVE  /\ Damaged(r) \in BOOLEAN
           /\ RootOf(r) = r => Damaged(r) = disk[r].damaged
<1>1. disk[r].damaged \in BOOLEAN
  BY DEF Image
<1>2. ASSUME RootOf(r) = r
      PROVE  Damaged(r) <=> disk[r].damaged
  BY <1>2 DEF Damaged
<1>3. Damaged(r) \in BOOLEAN
  <2>1. RootOf(r) \in Run => disk[RootOf(r)].damaged \in BOOLEAN
    BY DEF Image
  <2> QED
    BY <2>1 DEF Damaged
<1> QED
  BY <1>1, <1>2, <1>3

LEMMA RsyncStep == ASSUME IInv, NEW r \in Run, Rsync(r) PROVE IInv'
<1> DEFINE q == run[r].dst
           image == [disk[q] EXCEPT !.dst = "part", !.from = RootOf(r), !.lost = Damaged(r)]
           d == [disk EXCEPT ![q] = image]
<1>1. TypeOK /\ host \in Host /\ run[r] \in Entry(r) /\ disk \in [Run -> Image] /\ r # None
  BY Found
<1>2. Mounted(r) /\ Do(r, "rsync", host, d, run[r])
  BY DEF Rsync, OnDisk
<1>3. /\ q = host.dst /\ q \in Run
  BY <1>1, <1>2 DEF Mounted, Host
<1>4. /\ image \in Image /\ image.from = RootOf(r) /\ image.lost = Damaged(r)
      /\ image.damaged = disk[q].damaged
  <2>1. RootOf(r) \in Run \cup {"other"}
    BY DEF RootOf
  <2>2. PICK lost \in BOOLEAN : lost = Damaged(r)
    BY <1>1, DamagedRoot
  <2>3. disk[q] \in Image
    <3> HIDE DEF q
    <3> QED
      BY <1>1, <1>3
  <2>4. image = [disk[q] EXCEPT !.dst = "part", !.from = RootOf(r), !.lost = lost]
    BY <2>2, Zenon
  <2> HIDE DEF q, image
  <2>5. /\ image \in Image /\ image.from = RootOf(r) /\ image.lost = lost
        /\ image.damaged = disk[q].damaged
    BY <2>1, <2>2, <2>3, <2>4 DEF Image
  <2> QED
    BY <2>2, <2>5, Zenon
<1> HIDE DEF image
<1>5. d \in [Run -> Image] /\ d[q] = image /\ \A x \in Run : x # q => d[x] = disk[x]
  BY <1>1, <1>3, <1>4
<1> HIDE DEF d, q
<1>6. TypeOK' /\ Effect(r, "rsync", host, d, run[r])
  BY <1>1, <1>2, <1>5, DoStep
<1>7. "rsync" \in Scripted(r) \ BeforeDst
  BY ScriptedSteps DEF BeforeDst
<1>8. Within(r, "rsync", host, d, run[r])
  BY <1>3, <1>5, <1>7, Found DEF Within
<1>9. ASSUME r \notin busy \cup shared
      PROVE  Kept(r)
  <2>1. InScript(r)
    BY <1>6, <1>7, <1>9, Found DEF Effect
  <2>2. run'[r].pc = "copying"
    BY <1>6, AfterSteps DEF Effect
  <2>3. /\ host.src = r /\ host.dst = r /\ run[r].dst = r /\ RootOf(r) \in {r, "other"}
        /\ RootOf(r) = "other" => run[r].root = "other" \/ run[r].lvm > 0
    BY <1>1, <1>2, <1>6, <2>1, Copies DEF Effect
  <2>4. disk'[r] = image
    BY <1>5, <1>6, <2>3 DEF Effect, q
  <2>5. RootOf(r)' = RootOf(r)
    BY <1>6 DEF RootOf, Effect
  <2>6. RootOf(r) = r => Damaged(r) = disk[r].damaged
    BY <1>1, DamagedRoot
  <2>7. CopyOf(r)'
    BY <1>4, <1>6, <2>3, <2>4, <2>6 DEF CopyOf, Effect, q
  <2>8. InScript(r)'
    BY <1>4, <1>6, <1>7, <2>1, <2>2, <2>3, <2>4, <2>5, <2>7 DEF InScript, Effect, BeforeSrc, BeforeDst
  <2> QED
    BY <2>8 DEF Kept, InScript
<1> QED
  BY <1>6, <1>8, <1>9, ScriptStep DEF PastClose

LEMMA SaidType ==
    ASSUME NEW r \in Run, NEW e \in Entry(r), NEW b \in BOOLEAN,
           NEW to, to = [e EXCEPT !.said = b]
    PROVE  /\ to \in Entry(r) /\ to.lvm = e.lvm /\ to.root = e.root
           /\ to.src = e.src /\ to.dst = e.dst /\ to.said = b
BY DEF Entry

\* Nothing is deleted from the source of a run that has the host to itself.
LEMMA CopiedStep == ASSUME IInv, NEW r \in Run, Copied(r) PROVE IInv'
<1> DEFINE q == run[r].dst
           to == [run[r] EXCEPT !.said = r \in Luks]
<1>1. TypeOK /\ host \in Host /\ run[r] \in Entry(r) /\ disk \in [Run -> Image] /\ r # None
  BY Found
<1>2. PICK lost \in {disk[q].lost, Damaged(r)} :
        Do(r, "copying", host,
           [disk EXCEPT ![q] = [disk[q] EXCEPT !.dst = "cached", !.lost = lost]], to)
  BY DEF Copied
<1> DEFINE image == [disk[q] EXCEPT !.dst = "cached", !.lost = lost]
           d == [disk EXCEPT ![q] = image]
<1>3. Mounted(r) /\ q = host.dst /\ q \in Run
  BY <1>1 DEF Copied, Mounted, Host
<1>4. /\ image \in Image /\ image.from = disk[q].from /\ image.lost = lost
      /\ image.damaged = disk[q].damaged /\ image.dst = "cached"
  <2>1. Damaged(r) \in BOOLEAN
    BY <1>1, DamagedRoot
  <2>2. disk[q] \in Image /\ lost \in BOOLEAN
    <3> HIDE DEF q
    <3>1. disk[q] \in Image
      BY <1>1, <1>3
    <3> QED
      BY <1>2, <2>1, <3>1 DEF Image
  <2> HIDE DEF q
  <2> QED
    BY <2>2 DEF Image
<1>5. /\ to \in Entry(r) /\ to.lvm = run[r].lvm /\ to.root = run[r].root
      /\ to.src = run[r].src /\ to.dst = run[r].dst /\ to.said = (r \in Luks)
  <2>1. PICK said \in BOOLEAN : (r \in Luks) = said
    <3>1. CASE r \in Luks
      BY <3>1, Zenon
    <3>2. CASE r \notin Luks
      <4>1. (r \in Luks) = FALSE
        BY <3>2
      <4> QED
        BY <4>1, Zenon
    <3> QED
      BY <3>1, <3>2, Zenon
  <2>2. to = [run[r] EXCEPT !.said = said]
    BY <2>1, Zenon
  <2> HIDE DEF to
  <2>3. to.said = said /\ to \in Entry(r) /\ to.lvm = run[r].lvm /\ to.root = run[r].root
        /\ to.src = run[r].src /\ to.dst = run[r].dst
    BY <1>1, <2>2, SaidType
  <2> QED
    BY <2>1, <2>3, Zenon
<1>6. Do(r, "copying", host, d, to)
  BY <1>2
<1> HIDE DEF image, to
<1>7. d \in [Run -> Image] /\ d[q] = image /\ \A x \in Run : x # q => d[x] = disk[x]
  BY <1>1, <1>3, <1>4
<1> HIDE DEF d, q
<1>8. TypeOK' /\ Effect(r, "copying", host, d, to)
  BY <1>1, <1>5, <1>6, <1>7, DoStep
<1>9. "copying" \in Scripted(r) \ BeforeDst
  BY ScriptedSteps DEF BeforeDst
<1>10. Within(r, "copying", host, d, to)
  BY <1>3, <1>5, <1>7, <1>9, Found DEF Within
<1>11. ASSUME r \notin busy \cup shared
       PROVE  Kept(r)
  <2>1. InScript(r)
    BY <1>8, <1>9, <1>11, Found DEF Effect
  <2>2. run'[r].pc = (IF r \in Luks THEN "rm_src" ELSE "prepare")
    BY <1>8, AfterSteps DEF Effect
  <2>3. /\ host.src = r /\ host.dst = r /\ run[r].dst = r /\ RootOf(r) \in {r, "other"}
        /\ disk[r].from = RootOf(r) /\ CopyOf(r)
    BY <1>1, <1>3, <1>8, <2>1, Copies DEF Effect, InScript
  <2>4. /\ disk'[r].dst = "cached" /\ disk'[r].from = disk[r].from
        /\ disk'[r].damaged = disk[r].damaged /\ disk'[r].lost \in {disk[r].lost, Damaged(r)}
    BY <1>2, <1>4, <1>7, <1>8, <2>3 DEF Effect, q
  <2>5. CopyOf(r)'
    <3>1. CASE RootOf(r) = r
      <4>1. Damaged(r) = disk[r].damaged
        BY <1>1, <3>1, DamagedRoot
      <4>2. r # "other"
        BY Names DEF Partition
      <4> QED
        BY <2>3, <2>4, <3>1, <4>1, <4>2 DEF CopyOf
    <3>2. CASE RootOf(r) = "other"
      <4>1. r # "other"
        BY Names DEF Partition
      <4>2. disk[r].from = "other" /\ (run[r].root = "other" \/ run[r].lvm > 0)
        BY <2>3, <3>2, <4>1 DEF CopyOf
      <4> QED
        BY <1>5, <1>8, <2>4, <4>2 DEF CopyOf, Effect
    <3> QED
      BY <2>3, <3>1, <3>2
  <2>6. CASE r \in Luks
    <3>1. Finished(r)'
      BY <1>5, <1>8, <2>2, <2>3, <2>4, <2>5, <2>6 DEF Finished, Effect, q
    <3> QED
      BY <2>2, <2>6, <3>1, ScriptedSteps DEF Kept
  <2>7. CASE r \notin Luks
    <3>1. InScript(r)'
      BY <1>5, <1>8, <1>9, <2>1, <2>2, <2>3, <2>5, <2>7 DEF InScript, Effect, BeforeSrc, BeforeDst
    <3> QED
      BY <3>1 DEF Kept, InScript
  <2> QED
    BY <2>6, <2>7
<1> QED
  BY <1>8, <1>10, <1>11, ScriptStep DEF PastClose

LEMMA PrepareVerityStep == ASSUME IInv, NEW r \in Run, PrepareVerity(r) PROVE IInv'
<1> DEFINE d == [disk EXCEPT ![host.dst] = [disk[host.dst] EXCEPT !.dst = "prepared"]]
<1>1. TypeOK /\ host \in Host /\ run[r] \in Entry(r) /\ disk \in [Run -> Image] /\ r # None
  BY Found
<1>2. Mounted(r) /\ host.dst \in Run /\ run[r].dst = host.dst
  BY <1>1 DEF PrepareVerity, Mounted, Host
<1>3. /\ d \in [Run -> Image] /\ \A q \in Run : q # host.dst => d[q] = disk[q]
      /\ d[host.dst].dst = "prepared" /\ d[host.dst].from = disk[host.dst].from
      /\ d[host.dst].lost = disk[host.dst].lost /\ d[host.dst].damaged = disk[host.dst].damaged
  BY <1>1, <1>2 DEF Image
<1>4. Do(r, "prepare", host, d, run[r])
  BY DEF PrepareVerity, OnDisk
<1> HIDE DEF d
<1>5. TypeOK' /\ Effect(r, "prepare", host, d, run[r])
  BY <1>1, <1>3, <1>4, DoStep
<1>6. "prepare" \in Scripted(r) \ BeforeDst
  BY <1>5, TrappedSteps DEF Effect, BeforeDst
<1>7. Within(r, "prepare", host, d, run[r])
  BY <1>3, <1>6, Found DEF Within
<1>8. ASSUME r \notin busy \cup shared
      PROVE  Kept(r)
  <2>1. InScript(r) /\ r \notin Luks
    BY <1>5, <1>6, <1>8, Found, ScriptedSteps DEF Effect
  <2>2. run'[r].pc = "umount_src"
    BY <1>5, <2>1, AfterSteps DEF Effect
  <2>3. host.src = r /\ host.dst = r /\ run[r].dst = r /\ CopyOf(r)
    BY <1>2, <1>5, <1>6, <2>1 DEF InScript, Effect, BeforeSrc, BeforeDst
  <2>4. CopyOf(r)' /\ disk'[r].dst = "prepared"
    BY <1>3, <1>5, <2>3 DEF CopyOf, Effect
  <2>5. InScript(r)'
    BY <1>5, <1>6, <2>1, <2>2, <2>3, <2>4 DEF InScript, Effect, BeforeSrc, BeforeDst
  <2> QED
    BY <2>5 DEF Kept, InScript
<1> QED
  BY <1>5, <1>7, <1>8, ScriptStep DEF PastClose

LEMMA UmountSrcStep == ASSUME IInv, NEW r \in Run, UmountSrc(r) PROVE IInv'
<1> DEFINE to == [run[r] EXCEPT !.src = None]
<1>1. TypeOK /\ host \in Host /\ run[r] \in Entry(r) /\ disk \in [Run -> Image] /\ r # None
  BY Found
<1>2. /\ to \in Entry(r) /\ to.lvm = run[r].lvm /\ to.root = run[r].root
      /\ to.src = None /\ to.dst = run[r].dst /\ to.said = run[r].said
  BY <1>1 DEF Entry
<1>3. Do(r, "umount_src", host, disk, to)
  BY DEF UmountSrc, OnRun
<1> HIDE DEF to
<1>4. TypeOK' /\ Effect(r, "umount_src", host, disk, to)
  BY <1>1, <1>2, <1>3, DoStep
<1>5. "umount_src" \in Scripted(r) \ BeforeDst /\ r \notin Luks
  BY <1>4, TrappedSteps, ScriptedSteps DEF Effect, BeforeDst
<1>6. Within(r, "umount_src", host, disk, to)
  BY <1>2, Found DEF Within
<1>7. ASSUME r \notin busy \cup shared
      PROVE  Kept(r)
  <2>1. InScript(r)
    BY <1>4, <1>5, <1>7, Found DEF Effect
  <2>2. run'[r].pc = "umount_dst"
    BY <1>4, <1>5, AfterSteps DEF Effect
  <2>3. CopyOf(r) /\ disk[r].dst = "prepared" /\ run[r].dst = r
    BY <1>4, <2>1 DEF InScript, Effect
  <2>4. CopyOf(r)'
    BY <1>2, <1>4, <2>3 DEF CopyOf, Effect
  <2>5. InScript(r)'
    BY <1>2, <1>4, <1>5, <2>1, <2>2, <2>3, <2>4 DEF InScript, Effect, BeforeSrc, BeforeDst
  <2> QED
    BY <2>5 DEF Kept, InScript
<1> QED
  BY <1>4, <1>6, <1>7, ScriptStep DEF PastClose

\* What is unmounted is on the image, and nothing else changes.
LEMMA FlushedImage ==
    ASSUME NEW r \in Run, host \in Host, disk \in [Run -> Image], run[r] \in Entry(r), r # None
    PROVE  /\ Flushed(r) \in [Run -> Image]
           /\ \A q \in Run : q # run[r].dst => Flushed(r)[q] = disk[q]
           /\ run[r].dst = None => Flushed(r) = disk
           /\ run[r].dst = r /\ host.dst = r =>
                /\ Flushed(r)[r].from = disk[r].from /\ Flushed(r)[r].hash = disk[r].hash
                /\ Flushed(r)[r].lost = disk[r].lost /\ Flushed(r)[r].damaged = disk[r].damaged
                /\ disk[r].dst = "cached" => Flushed(r)[r].dst = "whole"
                /\ disk[r].dst = "prepared" => Flushed(r)[r].dst = "ready"
<1> DEFINE new(x) == CASE x = "cached" -> "whole" [] x = "prepared" -> "ready" [] OTHER -> x
<1>1. CASE run[r].dst = None \/ run[r].dst # host.dst
  BY <1>1 DEF Flushed
<1>2. CASE run[r].dst # None /\ run[r].dst = host.dst
  <2>1. host.dst \in Run
    BY <1>2 DEF Host
  <2>2. Flushed(r) = [disk EXCEPT ![host.dst] = [disk[host.dst] EXCEPT !.dst = new(disk[host.dst].dst)]]
    BY <1>2 DEF Flushed
  <2>3. [disk[host.dst] EXCEPT !.dst = new(disk[host.dst].dst)] \in Image
    BY <2>1 DEF Image
  <2>4. /\ Flushed(r) \in [Run -> Image]
        /\ \A q \in Run : q # host.dst => Flushed(r)[q] = disk[q]
        /\ Flushed(r)[host.dst] = [disk[host.dst] EXCEPT !.dst = new(disk[host.dst].dst)]
    BY <2>1, <2>2, <2>3
  <2>5. /\ Flushed(r)[host.dst].from = disk[host.dst].from
        /\ Flushed(r)[host.dst].hash = disk[host.dst].hash
        /\ Flushed(r)[host.dst].lost = disk[host.dst].lost
        /\ Flushed(r)[host.dst].damaged = disk[host.dst].damaged
        /\ Flushed(r)[host.dst].dst = new(disk[host.dst].dst)
    BY <2>1, <2>4 DEF Image
  <2> QED
    BY <1>2, <2>4, <2>5
<1> QED
  BY <1>1, <1>2

LEMMA UmountDstStep == ASSUME IInv, NEW r \in Run, UmountDst(r) PROVE IInv'
<1> DEFINE to == [run[r] EXCEPT !.dst = None]
<1>1. TypeOK /\ host \in Host /\ run[r] \in Entry(r) /\ disk \in [Run -> Image] /\ r # None
  BY Found
<1>2. /\ to \in Entry(r) /\ to.lvm = run[r].lvm /\ to.root = run[r].root
      /\ to.src = run[r].src /\ to.dst = None /\ to.said = run[r].said
  BY <1>1 DEF Entry
<1>3. /\ Flushed(r) \in [Run -> Image]
      /\ \A q \in Run : q # run[r].dst => Flushed(r)[q] = disk[q]
  BY <1>1, FlushedImage
<1>4. Do(r, "umount_dst", host, Flushed(r), to)
  BY DEF UmountDst
<1> HIDE DEF to
<1>5. TypeOK' /\ Effect(r, "umount_dst", host, Flushed(r), to)
  BY <1>1, <1>2, <1>3, <1>4, DoStep
<1>6. "umount_dst" \in Scripted(r) \ BeforeDst /\ r \notin Luks
  BY <1>5, TrappedSteps, ScriptedSteps DEF Effect, BeforeDst
<1>7. Within(r, "umount_dst", host, Flushed(r), to)
  BY <1>2, <1>3, Found DEF Within
<1>8. ASSUME r \notin busy \cup shared
      PROVE  Kept(r)
  <2>1. InScript(r)
    BY <1>5, <1>6, <1>8, Found DEF Effect
  <2>2. run'[r].pc = "verity_format"
    BY <1>5, <1>6, AfterSteps DEF Effect
  <2>3. CopyOf(r) /\ disk[r].dst = "prepared" /\ run[r].dst = r /\ host.dst = r
    BY <1>5, <2>1 DEF InScript, Effect, BeforeDst
  <2>4. /\ disk'[r].from = disk[r].from /\ disk'[r].lost = disk[r].lost
        /\ disk'[r].damaged = disk[r].damaged /\ disk'[r].dst = "ready"
    BY <1>1, <1>5, <2>3, FlushedImage DEF Effect
  <2>5. CopyOf(r)'
    BY <1>2, <1>5, <2>3, <2>4 DEF CopyOf, Effect
  <2>6. InScript(r)'
    BY <1>2, <1>5, <1>6, <2>1, <2>2, <2>4, <2>5 DEF InScript, Effect, BeforeSrc, BeforeDst
  <2> QED
    BY <2>6 DEF Kept, InScript
<1> QED
  BY <1>5, <1>7, <1>8, ScriptStep DEF PastClose

\* The hash tree is computed from the finished image.
LEMMA VerityFormatStep == ASSUME IInv, NEW r \in Run, VerityFormat(r) PROVE IInv'
<1> DEFINE to == [run[r] EXCEPT !.said = TRUE]
<1>1. TypeOK /\ host \in Host /\ run[r] \in Entry(r) /\ disk \in [Run -> Image] /\ r # None
  BY Found
<1>0. PICK hash \in {"empty"} \cup
               (IF host.dst = r /\ disk[r].dst = "ready" THEN {"right"} ELSE {"other"}) :
        Do(r, "verity_format", host, [disk EXCEPT ![r].hash = hash], to)
  BY DEF VerityFormat
<1> DEFINE image == [disk[r] EXCEPT !.hash = hash]
           d == [disk EXCEPT ![r] = image]
<1>2. /\ image \in Image /\ image.from = disk[r].from /\ image.dst = disk[r].dst
      /\ image.lost = disk[r].lost /\ image.damaged = disk[r].damaged /\ image.hash = hash
  BY <1>1 DEF Image
<1>3. /\ to \in Entry(r) /\ to.lvm = run[r].lvm /\ to.root = run[r].root
      /\ to.src = run[r].src /\ to.dst = run[r].dst /\ to.said
  BY <1>1 DEF Entry
<1>4. Do(r, "verity_format", host, d, to)
  BY <1>0
<1> HIDE DEF image, to
<1>5. d \in [Run -> Image] /\ d[r] = image /\ \A q \in Run \ {r} : d[q] = disk[q]
  BY <1>1, <1>2
<1> HIDE DEF d
<1>6. TypeOK' /\ Effect(r, "verity_format", host, d, to)
  BY <1>1, <1>3, <1>4, <1>5, DoStep
<1>7. "verity_format" \in Scripted(r) \ BeforeDst /\ r \notin Luks
  BY <1>6, TrappedSteps, ScriptedSteps DEF Effect, BeforeDst
<1>8. Within(r, "verity_format", host, d, to)
  BY <1>3, <1>5, Found DEF Within
<1>9. ASSUME r \notin busy \cup shared
      PROVE  Kept(r)
  <2>1. InScript(r)
    BY <1>6, <1>7, <1>9, Found DEF Effect
  <2>2. run'[r].pc = "rm_src"
    BY <1>6, <1>7, AfterSteps DEF Effect
  <2>3. CopyOf(r) /\ disk[r].dst = "ready" /\ run[r].dst = None /\ host.dst = r
    BY <1>6, <2>1 DEF InScript, Effect, BeforeDst
  <2>4. hash \in {"right", "empty"}
    BY <2>3
  <2>5. CopyOf(r)'
    BY <1>2, <1>3, <1>5, <1>6, <2>3 DEF CopyOf, Effect
  <2>6. Finished(r)'
    BY <1>2, <1>3, <1>5, <1>6, <1>7, <2>3, <2>4, <2>5 DEF Finished, Effect
  <2> QED
    BY <2>2, <2>6, ScriptedSteps DEF Kept
<1> QED
  BY <1>6, <1>8, <1>9, ScriptStep DEF PastClose

------------------------------------------------------------------------------
(* A step that takes a run away from its path.                             *)

LEMMA PcStep ==
    ASSUME IInv, NEW r \in Run, Active(r), NEW to \in Entry(r), run' = [run EXCEPT ![r] = to],
           to.pc \in {"rm_src", "aborted", "killed"}, to.root = run[r].root,
           to.src = run[r].src, to.dst = run[r].dst, to.said = run[r].said,
           NEW h \in Host, host' = h, h.src = host.src, h.dst = host.dst,
           h.mapper = host.mapper, h.own = host.own, h.lv = host.lv, h.refused = host.refused,
           disk' \in [Run -> Image],
           \A q \in Run \ {r} : q = run[r].src \/ q = run[r].dst \/ disk'[q] = disk[q],
           starts' = starts, shared' = shared, busy' = busy \/ busy' = busy \cup {r},
           to.pc = "rm_src" /\ r \notin busy \cup shared => ~run[r].said
    PROVE  IInv'
<1>1. TypeOK /\ DOMAIN run = Run /\ \A q \in Run : run[q] \in Entry(q)
  BY Types DEF IInv
<1>2. to.pc \notin Scripted(r) /\ to.pc \notin PastClose
  BY ScriptedSteps DEF PastClose
<1>3. /\ DOMAIN run' = Run /\ run'[r] = to
      /\ \A q \in Run \ {r} : run'[q] = run[q]
  BY <1>1
<1>4. TypeOK'
  <2>1. \A q \in Run : run'[q] \in Entry(q)
    BY <1>1, <1>3
  <2>2. starts \in 0 .. MaxStarts /\ busy \subseteq Run /\ shared \subseteq Run
    BY <1>1, Types
  <2> QED
    BY <1>3, <2>1, <2>2 DEF TypeOK, Host, Entry, Image
<1>5. Apart(r)
  <2>1. ASSUME NEW q \in Run \ {r}, Elsewhere(r, q)
        PROVE  Elsewhere(r, q)' /\ disk'[q] = disk[q]
    <3>1. run[r].src # q /\ run[r].dst # q
      BY <2>1 DEF Elsewhere
    <3> QED
      BY <1>2, <1>3, <3>1 DEF Elsewhere
  <2> QED
    BY <1>3, <2>1 DEF Apart
<1>6. ASSUME r \notin busy' \cup shared
      PROVE  Kept(r)
  BY <1>2, <1>3, <1>6, TrappedSteps DEF Kept
<1>7. Copying'
  BY <1>5, <1>6, LoneStep
<1>8. Freeing'
  BY <1>2, <1>3 DEF Freeing, PastClose, PastSrc, PastDst
<1>9. Listing' /\ Rooted'
  BY <1>3 DEF IInv, Listing, Rooted
<1> QED
  BY <1>4, <1>7, <1>8, <1>9 DEF IInv

\* Nothing in the script says that it is done before the end.
LEMMA CommandFailsStep == ASSUME IInv, NEW r \in Run, CommandFails(r) PROVE IInv'
<1>1. /\ host \in Host /\ run[r] \in Entry(r) /\ disk \in [Run -> Image] /\ Active(r)
      /\ Cardinality(Listed) \in Nat
  BY Found, Counted DEF CommandFails, Active
<1>2. r \notin busy \cup shared => ~run[r].said
  BY Found DEF CommandFails, InScript
<1>3. PICK lvm \in {run[r].lvm, Cardinality(Listed)} :
        run' = [run EXCEPT ![r] = [run[r] EXCEPT !.pc = "rm_src", !.lvm = lvm]]
  BY DEF CommandFails
<1> DEFINE to == [run[r] EXCEPT !.pc = "rm_src", !.lvm = lvm]
<1>4. /\ to \in Entry(r) /\ to.pc = "rm_src" /\ to.root = run[r].root
      /\ to.src = run[r].src /\ to.dst = run[r].dst /\ to.said = run[r].said
  BY <1>1, TrappedSteps DEF Entry
<1>5. run' = [run EXCEPT ![r] = to]
  BY <1>3
<1> HIDE DEF to
<1> QED
  BY <1>1, <1>2, <1>4, <1>5, PcStep DEF CommandFails

LEMMA PcType ==
    ASSUME NEW r \in Run, NEW e \in Entry(r), NEW pc \in {"aborted", "killed"}
    PROVE  LET to == [e EXCEPT !.pc = pc]
           IN /\ to \in Entry(r) /\ to.pc = pc /\ to.root = e.root
              /\ to.src = e.src /\ to.dst = e.dst /\ to.said = e.said
BY DEF Entry

\* Only what the run itself has mounted is damaged.
LEMMA RmMountedStep == ASSUME IInv, NEW r \in Run, RmMounted(r) PROVE IInv'
<1>1. TypeOK /\ host \in Host /\ run[r] \in Entry(r) /\ disk \in [Run -> Image] /\ r # None
  BY Found
<1>2. Active(r)
  BY TrappedSteps DEF RmMounted, Active
<1>3. /\ disk' \in [Run -> Image]
      /\ \A q \in Run \ {r} : q = run[r].src \/ q = run[r].dst \/ disk'[q] = disk[q]
  <2>1. CASE disk' = disk
    BY <1>1, <2>1
  <2>2. CASE RootOf(r) = host.src /\ disk' = [disk EXCEPT ![host.src].damaged = TRUE]
    <3>1. CASE host.src \in Run
      <4>1. host.src = run[r].src
        BY <2>2, <3>1, Names DEF RootOf, Partition
      <4>2. disk' = [disk EXCEPT ![host.src] = [disk[host.src] EXCEPT !.damaged = TRUE]]
        BY <2>2
      <4>3. [disk[host.src] EXCEPT !.damaged = TRUE] \in Image
        <5>1. disk[host.src] \in Image
          BY <1>1, <3>1
        <5> QED
          BY <5>1 DEF Image
      <4> QED
        BY <1>1, <4>1, <4>2, <4>3
    <3>2. CASE host.src \notin Run
      BY <1>1, <2>2, <3>2
    <3> QED
      BY <3>1, <3>2
  <2>3. CASE run[r].dst # None /\ disk' = [disk EXCEPT ![run[r].dst].dst = "part"]
    <3>1. run[r].dst \in Run
      BY <1>1, <2>3 DEF Entry
    <3>2. [disk[run[r].dst] EXCEPT !.dst = "part"] \in Image
      BY <1>1, <3>1 DEF Image
    <3>3. disk' = [disk EXCEPT ![run[r].dst] = [disk[run[r].dst] EXCEPT !.dst = "part"]]
      BY <2>3
    <3> QED
      BY <1>1, <3>1, <3>2, <3>3
  <2> QED
    BY <2>1, <2>2, <2>3 DEF RmMounted
<1> DEFINE to == [run[r] EXCEPT !.pc = "aborted"]
<1>4. /\ to \in Entry(r) /\ to.pc = "aborted" /\ to.root = run[r].root
      /\ to.src = run[r].src /\ to.dst = run[r].dst /\ to.said = run[r].said
  BY <1>1, PcType
<1>5. run' = [run EXCEPT ![r] = to]
  BY DEF RmMounted
<1> HIDE DEF to
<1> QED
  BY <1>1, <1>2, <1>3, <1>4, <1>5, PcStep DEF RmMounted

LEMMA UnmountLvmFailsStep == ASSUME IInv, NEW r \in Run, UnmountLvmFails(r) PROVE IInv'
<1>1. /\ host \in Host /\ run[r] \in Entry(r) /\ disk \in [Run -> Image] /\ Active(r)
      /\ Listed \subseteq Volume
  BY Found, Counted, TrappedSteps DEF UnmountLvmFails, Active
<1>2. PICK volumes \in {{}} \cup {{volume} : volume \in Idle} :
        host' = [host EXCEPT !.off = host.off \cup volumes]
  BY DEF UnmountLvmFails
<1> DEFINE h == [host EXCEPT !.off = host.off \cup volumes]
           to == [run[r] EXCEPT !.pc = "aborted"]
<1>3. volumes \subseteq Volume
  BY <1>1, <1>2 DEF Idle
<1>4. /\ h \in Host /\ h.src = host.src /\ h.dst = host.dst /\ h.mapper = host.mapper
      /\ h.own = host.own /\ h.lv = host.lv /\ h.refused = host.refused
  BY <1>1, <1>3 DEF Host
<1>5. /\ to \in Entry(r) /\ to.pc = "aborted" /\ to.root = run[r].root
      /\ to.src = run[r].src /\ to.dst = run[r].dst /\ to.said = run[r].said
  BY <1>1, PcType
<1>6. run' = [run EXCEPT ![r] = to] /\ host' = h
  BY <1>2 DEF UnmountLvmFails
<1> HIDE DEF h, to
<1> QED
  BY <1>1, <1>4, <1>5, <1>6, PcStep DEF UnmountLvmFails

LEMMA KillStep == ASSUME IInv, NEW r \in Run, Kill(r) PROVE IInv'
<1> DEFINE to == [run[r] EXCEPT !.pc = "killed"]
<1>1. host \in Host /\ run[r] \in Entry(r) /\ disk \in [Run -> Image]
  BY Found
<1>2. /\ to \in Entry(r) /\ to.pc = "killed" /\ to.root = run[r].root
      /\ to.src = run[r].src /\ to.dst = run[r].dst /\ to.said = run[r].said
  BY <1>1, PcType
<1>3. run' = [run EXCEPT ![r] = to]
  BY DEF Kill
<1> HIDE DEF to
<1> QED
  BY <1>1, <1>2, <1>3, PcStep DEF Kill

------------------------------------------------------------------------------
(* clean_up().                                                             *)

LEMMA RmSrcStep == ASSUME IInv, NEW r \in Run, RmSrc(r) PROVE IInv'
<1> DEFINE to == [run[r] EXCEPT !.src = None]
<1>1. TypeOK /\ host \in Host /\ run[r] \in Entry(r) /\ disk \in [Run -> Image] /\ r # None
  BY Found
<1>2. /\ to \in Entry(r) /\ to.lvm = run[r].lvm /\ to.root = run[r].root
      /\ to.src = None /\ to.dst = run[r].dst /\ to.said = run[r].said
  BY <1>1 DEF Entry
<1>3. Do(r, "rm_src", host, disk, to)
  BY DEF RmSrc, OnRun
<1> HIDE DEF to
<1>4. TypeOK' /\ Effect(r, "rm_src", host, disk, to)
  BY <1>1, <1>2, <1>3, DoStep
<1>5. Within(r, "rm_src", host, disk, to)
  BY <1>2, Found DEF Within
<1>6. ASSUME r \notin busy \cup shared
      PROVE  Kept(r)
  <2>1. run[r].said => Finished(r)
    BY <1>4, <1>6, Found, TrappedSteps DEF Effect
  <2>2. run'[r].pc = "rm_dst"
    BY <1>4, AfterSteps DEF Effect
  <2> QED
    BY <1>2, <1>4, <2>1, <2>2, ScriptedSteps DEF Kept, Finished, CopyOf, Effect
<1> QED
  BY <1>4, <1>5, <1>6, ScriptStep DEF PastClose

LEMMA RmDstStep == ASSUME IInv, NEW r \in Run, RmDst(r) PROVE IInv'
<1> DEFINE to == [run[r] EXCEPT !.dst = None]
<1>1. TypeOK /\ host \in Host /\ run[r] \in Entry(r) /\ disk \in [Run -> Image] /\ r # None
  BY Found
<1>2. /\ to \in Entry(r) /\ to.lvm = run[r].lvm /\ to.root = run[r].root
      /\ to.src = run[r].src /\ to.dst = None /\ to.said = run[r].said
  BY <1>1 DEF Entry
<1>3. /\ Flushed(r) \in [Run -> Image]
      /\ \A q \in Run : q # run[r].dst => Flushed(r)[q] = disk[q]
  BY <1>1, FlushedImage
<1>4. Do(r, "rm_dst", host, Flushed(r), to)
  BY DEF RmDst
<1> HIDE DEF to
<1>5. TypeOK' /\ Effect(r, "rm_dst", host, Flushed(r), to)
  BY <1>1, <1>2, <1>3, <1>4, DoStep
<1>6. Within(r, "rm_dst", host, Flushed(r), to)
  BY <1>2, <1>3, Found DEF Within
<1>7. ASSUME r \notin busy \cup shared
      PROVE  Kept(r)
  <2>1. run[r].said => Finished(r)
    BY <1>5, <1>7, Found, TrappedSteps DEF Effect
  <2>2. run'[r].pc = "close"
    BY <1>5, AfterSteps DEF Effect
  <2>3. ASSUME run[r].said
        PROVE  Finished(r)'
    <3>1. CASE r \in Luks
      <4>1. disk[r].dst = "cached" /\ run[r].dst = r /\ host.dst = r /\ CopyOf(r)
        BY <1>5, <2>1, <2>3, <3>1 DEF Finished, Effect
      <4>2. /\ disk'[r].from = disk[r].from /\ disk'[r].lost = disk[r].lost
            /\ disk'[r].damaged = disk[r].damaged /\ disk'[r].dst = "whole"
        BY <1>1, <1>5, <4>1, FlushedImage DEF Effect
      <4> QED
        BY <1>2, <1>5, <2>2, <3>1, <4>1, <4>2 DEF Finished, CopyOf, Effect
    <3>2. CASE r \notin Luks
      <4>1. run[r].dst = None
        BY <2>1, <2>3, <3>2 DEF Finished
      <4>2. disk' = disk
        BY <1>1, <1>5, <4>1, FlushedImage DEF Effect
      <4> QED
        BY <1>2, <1>5, <2>1, <2>2, <2>3, <3>2, <4>2 DEF Finished, CopyOf, Effect
    <3> QED
      BY <3>1, <3>2
  <2> QED
    BY <1>2, <1>5, <2>2, <2>3, ScriptedSteps DEF Kept, Effect
<1> QED
  BY <1>5, <1>6, <1>7, ScriptStep DEF PastClose

\* A step of the trap from close on: what it leaves connected it still comes to,
\* or was kept from freeing.
LEMMA TrapStep ==
    ASSUME IInv, NEW r \in Run, NEW h \in Host, NEW d \in [Run -> Image], NEW at,
           at \in {"close", "unmount_lvm", "disconnect_src", "disconnect_dst", "rmmod"},
           Do(r, at, h, d, run[r]),
           h.own = host.own, h.lv \in {None, h.src},
           h.src \in {host.src, None}, h.dst \in {host.dst, None},
           h.mapper \in {host.mapper, None},
           h.mapper # None => /\ at = "close" => "mapper" \in h.refused
                              /\ "mapper" \in host.refused => "mapper" \in h.refused,
           h.src # None => /\ at = "disconnect_src" => "src" \in h.refused
                           /\ "src" \in host.refused => "src" \in h.refused,
           h.dst # None => /\ at = "disconnect_dst" => "dst" \in h.refused
                           /\ "dst" \in host.refused => "dst" \in h.refused,
           \A q \in Run : d[q] = disk[q] \/ disk[q].dst \in {"cached", "prepared"}
    PROVE  IInv'
<1>1. TypeOK /\ host \in Host /\ run[r] \in Entry(r) /\ disk \in [Run -> Image] /\ r # None
  BY Found
<1>2. TypeOK' /\ Effect(r, at, h, d, run[r])
  BY <1>1, DoStep
<1>3. run'[r].pc = CASE at = "close" -> "unmount_lvm"
                     [] at = "unmount_lvm" -> "disconnect_src"
                     [] at = "disconnect_src" -> "disconnect_dst"
                     [] at = "disconnect_dst" -> "rmmod"
                     [] at = "rmmod" -> "gone"
  BY <1>2, AfterSteps DEF Effect
<1>4. Within(r, at, h, d, run[r])
  BY Found DEF Within
<1>5. Apart(r) /\ Listing' /\ Rooted'
  BY <1>2, <1>4, ApartStep
<1>6. ASSUME r \notin busy \cup shared
      PROVE  Kept(r)
  <2>1. run[r].said => Finished(r)
    BY <1>2, <1>6, Found, TrappedSteps DEF Effect
  <2>2. run'[r].pc \notin Scripted(r) /\ run'[r].pc \notin {"rm_src", "rm_dst"}
    BY <1>3, ScriptedSteps
  <2>3. ASSUME run[r].said
        PROVE  Finished(r)'
    <3>1. /\ CopyOf(r) /\ run[r].dst = None
          /\ disk[r].dst = (IF r \in Luks THEN "whole" ELSE "ready")
          /\ r \notin Luks => disk[r].hash \in {"right", "empty"}
      BY <1>2, <2>1, <2>3 DEF Finished, Effect
    <3>2. d[r] = disk[r]
      BY <3>1
    <3> QED
      BY <1>2, <2>2, <3>1, <3>2 DEF Finished, CopyOf, Effect
  <2> QED
    BY <1>2, <2>2, <2>3 DEF Kept, Effect
<1>7. Copying'
  BY <1>2, <1>5, <1>6, LoneStep DEF Effect, Active
<1>8. Freeing'
  <2>1. ASSUME host'.mapper # None, "mapper" \notin host'.refused
        PROVE  \E q \in Run : run'[q].pc \notin PastClose
    <3>1. host.mapper # None /\ "mapper" \notin host.refused /\ at # "close"
      BY <1>2, <2>1 DEF Effect
    <3>2. PICK q \in Run : run[q].pc \notin PastClose
      BY <3>1 DEF IInv, Freeing
    <3>3. q # r
      BY <1>2, <3>1, <3>2 DEF Effect, PastClose
    <3> QED
      BY <1>2, <3>2, <3>3 DEF Effect
  <2>2. ASSUME host'.src # None, "src" \notin host'.refused
        PROVE  \E q \in Run : run'[q].pc \notin PastSrc
    <3>1. host.src # None /\ "src" \notin host.refused /\ at # "disconnect_src"
      BY <1>2, <2>2 DEF Effect
    <3>2. PICK q \in Run : run[q].pc \notin PastSrc
      BY <3>1 DEF IInv, Freeing
    <3>3. q # r \/ run'[r].pc \notin PastSrc
      BY <1>2, <1>3, <3>1, <3>2 DEF Effect, PastSrc
    <3> QED
      BY <1>2, <3>2, <3>3 DEF Effect
  <2>3. ASSUME host'.dst # None, "dst" \notin host'.refused
        PROVE  \E q \in Run : run'[q].pc \notin PastDst
    <3>1. host.dst # None /\ "dst" \notin host.refused /\ at # "disconnect_dst"
      BY <1>2, <2>3 DEF Effect
    <3>2. PICK q \in Run : run[q].pc \notin PastDst
      BY <3>1 DEF IInv, Freeing
    <3>3. q # r \/ run'[r].pc \notin PastDst
      BY <1>2, <1>3, <3>1, <3>2 DEF Effect, PastDst
    <3> QED
      BY <1>2, <3>2, <3>3 DEF Effect
  <2> QED
    BY <2>1, <2>2, <2>3 DEF Freeing
<1> QED
  BY <1>2, <1>5, <1>7, <1>8 DEF IInv

LEMMA CloseStep == ASSUME IInv, NEW r \in Run, Close(r) PROVE IInv'
<1> DEFINE h == [host EXCEPT !.mapper = None, !.refused = host.refused \ {"mapper"}]
<1>1. host \in Host /\ disk \in [Run -> Image] /\ host.lv \in {None, host.src}
  BY Found
<1>2. /\ h \in Host /\ h.own = host.own /\ h.src = host.src /\ h.dst = host.dst
      /\ h.lv = host.lv /\ h.mapper = None /\ h.refused = host.refused \ {"mapper"}
  BY <1>1 DEF Host
<1>3. Do(r, "close", h, disk, run[r])
  BY DEF Close, OnHost
<1> HIDE DEF h
<1> QED
  BY <1>1, <1>2, <1>3, TrapStep

LEMMA UnmountLvmStep == ASSUME IInv, NEW r \in Run, UnmountLvm(r) PROVE IInv'
<1>1. /\ host \in Host /\ disk \in [Run -> Image] /\ host.lv \in {None, host.src}
      /\ Listed \subseteq Volume
  BY Found, Counted
<1>2. PICK volumes \in SUBSET Volume :
        Do(r, "unmount_lvm", [host EXCEPT !.off = host.off \cup volumes], disk, run[r])
  <2>1. CASE NewVolume(r)
    <3>1. PICK volume \in Idle :
            Do(r, "unmount_lvm", [host EXCEPT !.off = host.off \cup {volume}], disk, run[r])
      BY <2>1 DEF UnmountLvm, OnHost
    <3>2. {volume} \in SUBSET Volume
      BY <1>1 DEF Idle
    <3> QED
      BY <3>1, <3>2
  <2>2. CASE ~NewVolume(r)
    <3>1. [host EXCEPT !.off = host.off \cup {}] = host
      <4>1. host.off \cup {} = host.off
        OBVIOUS
      <4> QED
        BY <1>1, <4>1 DEF Host
    <3>2. Do(r, "unmount_lvm", host, disk, run[r])
      BY <2>2 DEF UnmountLvm, OnHost
    <3>3. {} \in SUBSET Volume
      OBVIOUS
    <3> QED
      BY <3>1, <3>2, <3>3
  <2> QED
    BY <2>1, <2>2
<1> DEFINE h == [host EXCEPT !.off = host.off \cup volumes]
<1>3. /\ h \in Host /\ h.own = host.own /\ h.src = host.src /\ h.dst = host.dst
      /\ h.lv = host.lv /\ h.mapper = host.mapper /\ h.refused = host.refused
  BY <1>1, <1>2 DEF Host
<1>4. Do(r, "unmount_lvm", h, disk, run[r])
  BY <1>2
<1> HIDE DEF h
<1> QED
  BY <1>1, <1>3, <1>4, TrapStep

LEMMA DisconnectSrcStep == ASSUME IInv, NEW r \in Run, DisconnectSrc(r) PROVE IInv'
<1> DEFINE h == [host EXCEPT !.src = None, !.lv = None, !.off = host.off \ {host.src},
                             !.refused = host.refused \ {"src"}]
<1>1. host \in Host /\ disk \in [Run -> Image]
  BY Found
<1>2. /\ h \in Host /\ h.own = host.own /\ h.src = None /\ h.dst = host.dst
      /\ h.lv = None /\ h.mapper = host.mapper /\ h.refused = host.refused \ {"src"}
  BY <1>1 DEF Host
<1>3. Do(r, "disconnect_src", h, disk, run[r])
  BY DEF DisconnectSrc, OnHost
<1> HIDE DEF h
<1> QED
  BY <1>1, <1>2, <1>3, TrapStep

\* Only what had not been unmounted is lost.
LEMMA DisconnectDstStep == ASSUME IInv, NEW r \in Run, DisconnectDst(r) PROVE IInv'
<1> DEFINE h == [host EXCEPT !.dst = None, !.refused = host.refused \ {"dst"}]
           q == host.dst
           d == IF q # None /\ disk[q].dst \in {"cached", "prepared"}
                THEN [disk EXCEPT ![q].dst = "part"] ELSE disk
<1>1. host \in Host /\ disk \in [Run -> Image] /\ host.lv \in {None, host.src}
  BY Found
<1>2. /\ h \in Host /\ h.own = host.own /\ h.src = host.src /\ h.dst = None
      /\ h.lv = host.lv /\ h.mapper = host.mapper /\ h.refused = host.refused \ {"dst"}
  BY <1>1 DEF Host
<1>3. /\ d \in [Run -> Image]
      /\ \A x \in Run : d[x] = disk[x] \/ disk[x].dst \in {"cached", "prepared"}
  <2>1. q \in Run \cup {None}
    BY <1>1 DEF Host
  <2> QED
    BY <1>1, <2>1 DEF Image
<1>4. Do(r, "disconnect_dst", h, d, run[r])
  BY DEF DisconnectDst
<1> HIDE DEF h, d, q
<1> QED
  BY <1>1, <1>2, <1>3, <1>4, TrapStep

\* What is not freed is on record.
LEMMA TrapRefusedStep == ASSUME IInv, NEW r \in Run, TrapRefused(r) PROVE IInv'
<1>1. host \in Host /\ disk \in [Run -> Image] /\ host.lv \in {None, host.src}
  BY Found
<1>2. PICK kept \in {<<"close", "mapper">>, <<"disconnect_src", "src">>,
                     <<"disconnect_dst", "dst">>} :
        Do(r, kept[1], [host EXCEPT !.refused = host.refused \cup {kept[2]}], disk, run[r])
  BY DEF TrapRefused, OnHost
<1> DEFINE h == [host EXCEPT !.refused = host.refused \cup {kept[2]}]
<1>3. /\ kept[1] \in {"close", "disconnect_src", "disconnect_dst"}
      /\ kept[2] \in {"mapper", "src", "dst"}
      /\ kept[1] = "close" => kept[2] = "mapper"
      /\ kept[1] = "disconnect_src" => kept[2] = "src"
      /\ kept[1] = "disconnect_dst" => kept[2] = "dst"
  BY <1>2
<1>4. /\ h \in Host /\ h.own = host.own /\ h.src = host.src /\ h.dst = host.dst
      /\ h.lv = host.lv /\ h.mapper = host.mapper /\ h.refused = host.refused \cup {kept[2]}
  BY <1>1, <1>3 DEF Host
<1>5. Do(r, kept[1], h, disk, run[r])
  BY <1>2
<1> HIDE DEF h
<1> QED
  BY <1>1, <1>3, <1>4, <1>5, TrapStep

LEMMA RmmodStep == ASSUME IInv, NEW r \in Run, Rmmod(r) PROVE IInv'
<1>1. host \in Host /\ disk \in [Run -> Image] /\ host.lv \in {None, host.src}
  BY Found
<1>2. PICK module \in {host.module, FALSE} :
        Do(r, "rmmod", [host EXCEPT !.module = module], disk, run[r])
  BY DEF Rmmod, OnHost
<1> DEFINE h == [host EXCEPT !.module = module]
<1>3. /\ h \in Host /\ h.own = host.own /\ h.src = host.src /\ h.dst = host.dst
      /\ h.lv = host.lv /\ h.mapper = host.mapper /\ h.refused = host.refused
  BY <1>1, <1>2 DEF Host
<1>4. Do(r, "rmmod", h, disk, run[r])
  BY <1>2
<1> HIDE DEF h
<1> QED
  BY <1>1, <1>3, <1>4, TrapStep

------------------------------------------------------------------------------
(* Runs that begin, volumes that appear, and the crash of the host.        *)

LEMMA BeginStep ==
    ASSUME IInv, NEW r \in Run, NEW at \in {"create", "rm_src"}, Begin(r, at)
    PROVE  IInv'
<1> DEFINE entry == [pc |-> at, lvm |-> None, root |-> None,
                     src |-> None, dst |-> None, said |-> FALSE]
           others == {q \in Run \ {r} : Active(q)}
           h == [host EXCEPT !.held = host.held \cup Mounts(r)]
<1>1. /\ TypeOK /\ host \in Host /\ DOMAIN run = Run /\ \A q \in Run : run[q] \in Entry(q)
      /\ disk \in [Run -> Image] /\ busy \subseteq Run /\ shared \subseteq Run
      /\ starts \in 0 .. MaxStarts
  BY Types DEF IInv
<1>2. /\ run' = [run EXCEPT ![r] = entry] /\ host' = h /\ disk' = disk
      /\ busy' = busy \ {r} /\ starts < MaxStarts /\ starts' = starts + 1
      /\ shared' = IF others = {} THEN shared \ {r} ELSE shared \cup others \cup {r}
  BY DEF Begin
<1>3. entry \in Entry(r)
  BY ScriptedSteps, TrappedSteps DEF Entry
<1>4. DOMAIN run' = Run /\ run'[r] = entry /\ \A q \in Run \ {r} : run'[q] = run[q]
  BY <1>1, <1>2
<1>5. /\ h \in Host /\ h.own = host.own /\ h.src = host.src /\ h.dst = host.dst
      /\ h.lv = host.lv /\ h.mapper = host.mapper /\ h.refused = host.refused
  <2>1. Mounts(r) \subseteq Volume \cup {"nbd0", "nbd1", "mapper"}
    BY Found DEF Mounts
  <2> QED
    BY <1>1, <2>1 DEF Host
<1> HIDE DEF h
<1>6. TypeOK'
  <2>1. \A q \in Run : run'[q] \in Entry(q)
    BY <1>1, <1>3, <1>4
  <2>2. starts' \in 0 .. MaxStarts /\ busy' \subseteq Run /\ shared' \subseteq Run
    BY <1>1, <1>2, MaxStartsAssumption
  <2> HIDE DEF entry
  <2> QED
    BY <1>1, <1>2, <1>4, <1>5, <2>1, <2>2 DEF TypeOK, Host, Entry, Image
<1>7. Freeing'
  <2>1. run'[r].pc \notin PastClose \cup PastSrc \cup PastDst
    BY <1>4 DEF PastClose, PastSrc, PastDst
  <2> QED
    BY <2>1 DEF Freeing
<1>8. Listing' /\ Rooted'
  BY <1>2, <1>4, <1>5 DEF IInv, Listing, Rooted
<1>9. ASSUME NEW q \in Run, q \notin busy', q \notin shared'
      PROVE  Lone(q)'
  <2>1. CASE q = r
    <3>1. \A x \in Run \ {r} : ~Active(x)
      BY <1>2, <1>9, <2>1
    <3>2. \A x \in Run \ {r} : ~Active(x)'
      BY <1>4, <3>1 DEF Active
    <3>3. /\ ~run'[r].said /\ run'[r].src = None /\ run'[r].dst = None
          /\ run'[r].pc \in {"create", "rm_src"}
      BY <1>4
    <3>4. run'[r].pc \in Scripted(r) => InScript(r)'
      BY <3>3, ScriptedSteps DEF InScript, BeforeSrc, BeforeDst
    <3> QED
      BY <2>1, <3>2, <3>3, <3>4 DEF Lone
  <2>2. CASE q # r
    <3>1. ~Active(q) /\ q \notin busy /\ q \notin shared
      BY <1>2, <1>9, <2>2
    <3>2. Lone(q)
      BY <3>1 DEF IInv, Copying
    <3>3. run'[q] = run[q]
      BY <1>4, <2>2
    <3>4. ~Active(q)'
      BY <3>1, <3>3 DEF Active
    <3>5. run[q].said /\ run[q].pc = "gone" => Finished(q)'
      BY <1>2, <3>2, <3>3 DEF Lone, Finished, CopyOf
    <3>6. ASSUME NEW x \in Run \ {q}, Active(x)'
          PROVE  Elsewhere(x, q)'
      <4>1. CASE x = r
        BY <1>4, <4>1, Names, ScriptedSteps DEF Elsewhere, BeforeSrc, BeforeDst
      <4>2. CASE x # r
        <5>1. run'[x] = run[x] /\ Active(x)
          BY <1>4, <3>6, <4>2 DEF Active
        <5> QED
          BY <1>2, <1>5, <3>2, <3>6, <5>1 DEF Lone, Elsewhere
      <4> QED
        BY <4>1, <4>2
    <3> QED
      BY <3>3, <3>4, <3>5, <3>6 DEF Lone, Active
  <2> QED
    BY <2>1, <2>2
<1> QED
  BY <1>6, <1>7, <1>8, <1>9 DEF IInv, Copying

LEMMA VolumeAppearsStep == ASSUME IInv, VolumeAppears PROVE IInv'
<1> DEFINE h == [host EXCEPT !.lv = host.src]
<1>1. /\ host' = h /\ UNCHANGED <<run, disk, starts, busy, shared>>
      /\ host.src \in Lvm /\ host \in Host
  BY Types DEF VolumeAppears, IInv
<1>2. /\ h \in Host /\ h.own = host.own /\ h.src = host.src /\ h.dst = host.dst
      /\ h.lv = host.src /\ h.mapper = host.mapper /\ h.refused = host.refused
  BY <1>1 DEF Host
<1> HIDE DEF h
<1>3. TypeOK'
  BY <1>1, <1>2 DEF IInv, TypeOK, Host
<1>4. Freeing' /\ Listing' /\ Rooted'
  BY <1>1, <1>2 DEF IInv, Freeing, Listing, Rooted
<1>5. Copying'
  <2> SUFFICES ASSUME NEW q \in Run, q \notin busy, q \notin shared
               PROVE  Lone(q)'
    BY <1>1 DEF Copying
  <2>1. Lone(q)
    BY DEF IInv, Copying
  <2>2. run[q].pc \in Scripted(q) => InScript(q)'
    BY <1>1, <1>2, <2>1 DEF Lone, InScript, CopyOf, RootOf
  <2>3. run[q].said /\ run[q].pc \in Trapped \cup {"gone"} => Finished(q)'
    BY <1>1, <1>2, <2>1 DEF Lone, Finished, CopyOf
  <2>4. \A x \in Run \ {q} : Active(x) => Elsewhere(x, q)'
    BY <1>1, <1>2, <2>1 DEF Lone, Elsewhere
  <2> QED
    BY <1>1, <2>1, <2>2, <2>3, <2>4 DEF Lone, Active
<1> QED
  BY <1>3, <1>4, <1>5 DEF IInv

\* Nothing that is finished is lost: it had been written when it was unmounted.
LEMMA CrashStep == ASSUME IInv, Crash PROVE IInv'
<1>1. /\ TypeOK /\ host \in Host /\ DOMAIN run = Run /\ \A q \in Run : run[q] \in Entry(q)
      /\ disk \in [Run -> Image]
  BY Types DEF IInv
<1>2. /\ host' = Booted(host.own) /\ UNCHANGED <<starts, busy, shared>>
      /\ DOMAIN run' = Run /\ DOMAIN disk' = Run
      /\ \A r \in Run : run'[r] = [run[r] EXCEPT !.src = None, !.dst = None,
                                     !.pc = IF Active(r) THEN "killed" ELSE run[r].pc]
      /\ disk' = [r \in Run |->
           [disk[r] EXCEPT !.dst = IF disk[r].dst \in {"cached", "prepared"}
                                   THEN "part" ELSE disk[r].dst]]
  BY DEF Crash
<1>3. /\ host' \in Host /\ host'.src = None /\ host'.dst = None /\ host'.mapper = None
      /\ host'.lv = None
  BY <1>1, <1>2 DEF Booted, Host
<1>4. \A r \in Run :
        /\ run'[r] \in Entry(r) /\ run'[r].src = None /\ run'[r].dst = None
        /\ run'[r].said = run[r].said /\ run'[r].root = run[r].root
        /\ run'[r].lvm = run[r].lvm
        /\ run'[r].pc = IF Active(r) THEN "killed" ELSE run[r].pc
  <2> SUFFICES ASSUME NEW r \in Run
               PROVE  /\ run'[r] \in Entry(r) /\ run'[r].src = None /\ run'[r].dst = None
                      /\ run'[r].said = run[r].said /\ run'[r].root = run[r].root
                      /\ run'[r].lvm = run[r].lvm
                      /\ run'[r].pc = IF Active(r) THEN "killed" ELSE run[r].pc
    OBVIOUS
  <2> DEFINE pc == IF Active(r) THEN "killed" ELSE run[r].pc
  <2>1. run[r] \in Entry(r)
    BY <1>1
  <2>2. pc \in Scripted(r) \cup Trapped \cup {"gone", "aborted", "killed"}
    BY <2>1 DEF Entry
  <2>3. run'[r] = [run[r] EXCEPT !.src = None, !.dst = None, !.pc = pc]
    BY <1>2
  <2> HIDE DEF pc
  <2>4. /\ run'[r] \in Entry(r) /\ run'[r].src = None /\ run'[r].dst = None
        /\ run'[r].said = run[r].said /\ run'[r].root = run[r].root
        /\ run'[r].lvm = run[r].lvm /\ run'[r].pc = pc
    BY <2>1, <2>2, <2>3 DEF Entry
  <2> QED
    BY <2>4 DEF pc
<1>5. /\ disk' \in [Run -> Image]
      /\ \A r \in Run :
           /\ disk'[r].from = disk[r].from /\ disk'[r].hash = disk[r].hash
           /\ disk'[r].lost = disk[r].lost /\ disk'[r].damaged = disk[r].damaged
           /\ disk[r].dst \notin {"cached", "prepared"} => disk'[r].dst = disk[r].dst
  <2> SUFFICES ASSUME NEW r \in Run
               PROVE  /\ disk'[r] \in Image
                      /\ disk'[r].from = disk[r].from /\ disk'[r].hash = disk[r].hash
                      /\ disk'[r].lost = disk[r].lost /\ disk'[r].damaged = disk[r].damaged
                      /\ disk[r].dst \notin {"cached", "prepared"} => disk'[r].dst = disk[r].dst
    BY <1>2
  <2> DEFINE dst == IF disk[r].dst \in {"cached", "prepared"} THEN "part" ELSE disk[r].dst
  <2>1. disk'[r] = [disk[r] EXCEPT !.dst = dst]
    BY <1>2
  <2>2. disk[r] \in Image
    BY <1>1
  <2> QED
    BY <2>1, <2>2 DEF Image
<1>6. TypeOK'
  BY <1>1, <1>2, <1>3, <1>4, <1>5 DEF TypeOK, Host, Entry, Image
<1>7. Freeing' /\ Listing' /\ Rooted'
  BY <1>3, <1>4 DEF Freeing, Listing, Rooted
<1>8. \A r \in Run : ~Active(r)'
  BY <1>4, ScriptedSteps, TrappedSteps DEF Active
<1>9. ASSUME NEW q \in Run, q \notin busy, q \notin shared
      PROVE  Lone(q)'
  <2>1. Lone(q)
    BY <1>9 DEF IInv, Copying
  <2>2. ASSUME run'[q].said, run'[q].pc = "gone"
        PROVE  Finished(q)'
    <3>1. run[q].pc = "gone" /\ Finished(q)
      BY <1>4, <2>1, <2>2 DEF Lone
    <3>2. /\ CopyOf(q) /\ disk[q].dst = (IF q \in Luks THEN "whole" ELSE "ready")
          /\ q \notin Luks => disk[q].hash \in {"right", "empty"}
      BY <3>1 DEF Finished
    <3>3. CopyOf(q)'
      BY <1>4, <1>5, <3>2 DEF CopyOf
    <3> QED
      BY <1>4, <1>5, <2>2, <3>2, <3>3 DEF Finished
  <2> QED
    BY <1>8, <2>2 DEF Lone, Active
<1>10. Copying'
  BY <1>2, <1>9 DEF Copying
<1> QED
  BY <1>6, <1>7, <1>10 DEF IInv

------------------------------------------------------------------------------
(* The theorems.                                                           *)

LEMMA InitInv == Init => IInv
<1> SUFFICES ASSUME Init
             PROVE  IInv
  OBVIOUS
<1>1. PICK own \in SUBSET HostVolume : host = Booted(own)
  BY DEF Init
<1>2. TypeOK
  BY <1>1, MaxStartsAssumption DEF Init, TypeOK, Booted
<1>3. Freeing /\ Listing /\ Rooted
  BY <1>1 DEF Init, Freeing, Listing, Rooted, Booted
<1>4. \A r \in Run : ~Active(r) /\ ~run[r].said
  BY ScriptedSteps, TrappedSteps DEF Init, Active
<1>5. Copying
  BY <1>4 DEF Copying, Lone, Active
<1> QED
  BY <1>2, <1>3, <1>5 DEF IInv

LEMMA NextInv == IInv /\ [Next]_vars => IInv'
<1> SUFFICES ASSUME IInv, [Next]_vars
             PROVE  IInv'
  OBVIOUS
<1>1. CASE UNCHANGED vars
  <2>1. TypeOK'
    BY <1>1 DEF vars, IInv, TypeOK
  <2>2. Freeing' /\ Listing' /\ Rooted'
    BY <1>1 DEF vars, IInv, Freeing, Listing, Rooted
  <2>3. Copying'
    BY <1>1 DEF vars, IInv, Copying, Lone, Active, Elsewhere, InScript, Finished, CopyOf, RootOf
  <2> QED
    BY <2>1, <2>2, <2>3 DEF IInv
<1>2. CASE Crash
  BY <1>2, CrashStep
<1>3. CASE VolumeAppears
  BY <1>3, VolumeAppearsStep
<1>4. ASSUME NEW r \in Run, Start(r) \/ Usage(r)
      PROVE  IInv'
  BY <1>4, BeginStep DEF Start, Usage
<1>5. ASSUME NEW r \in Run, Proceed(r)
      PROVE  IInv'
  <2>1. CASE CreateOutput(r) \/ CheckLvm(r) \/ ConnectSrc(r) \/ ConnectDst(r) \/ FindRoot(r)
    BY <2>1, CreateOutputStep, CheckLvmStep, ConnectSrcStep, ConnectDstStep, FindRootStep
  <2>2. CASE LuksFormat(r) \/ LuksOpen(r) \/ Mkfs(r) \/ MountSrc(r) \/ MountDst(r)
    BY <2>2, LuksFormatStep, LuksOpenStep, MkfsStep, MountSrcStep, MountDstStep
  <2>3. CASE Rsync(r) \/ Copied(r) \/ PrepareVerity(r) \/ UmountSrc(r) \/ UmountDst(r)
    BY <2>3, RsyncStep, CopiedStep, PrepareVerityStep, UmountSrcStep, UmountDstStep
  <2>4. CASE VerityFormat(r) \/ CommandFails(r)
    BY <2>4, VerityFormatStep, CommandFailsStep
  <2> QED
    BY <1>5, <2>1, <2>2, <2>3, <2>4 DEF Proceed
<1>6. ASSUME NEW r \in Run, CleanUp(r)
      PROVE  IInv'
  <2>1. CASE RmSrc(r) \/ RmDst(r) \/ RmMounted(r) \/ Close(r)
    BY <2>1, RmSrcStep, RmDstStep, RmMountedStep, CloseStep
  <2>2. CASE UnmountLvm(r) \/ UnmountLvmFails(r) \/ DisconnectSrc(r) \/ DisconnectDst(r)
             \/ TrapRefused(r) \/ Rmmod(r)
    BY <2>2, UnmountLvmStep, UnmountLvmFailsStep, DisconnectSrcStep, DisconnectDstStep,
       TrapRefusedStep, RmmodStep
  <2> QED
    BY <1>6, <2>1, <2>2 DEF CleanUp
<1>7. ASSUME NEW r \in Run, Kill(r)
      PROVE  IInv'
  BY <1>7, KillStep
<1> QED
  BY <1>1, <1>2, <1>3, <1>4, <1>5, <1>6, <1>7 DEF Next

LEMMA Inductive == Spec => []IInv
BY InitInv, NextInv, PTL DEF Spec

\* The host, the runs of the two scripts and their images have their types.
THEOREM TypeCorrect == Spec => []TypeOK
<1>1. IInv => TypeOK
  BY DEF IInv
<1> QED
  BY <1>1, Inductive, PTL

\* However many runs of setup_luks.sh and setup_verity.sh overlap, and wherever
\* they fail or are killed: once all have come to the end of clean_up(), a device
\* is connected or mapped only if the last attempt to free it, by luksClose or
\* qemu-nbd --disconnect, was refused, which clean_up() ignores.
THEOREM FreedInTheEnd == Spec => []FreeInTheEnd
<1>1. IInv => FreeInTheEnd
  BY DEF IInv, Freeing, FreeInTheEnd, PastClose, PastSrc, PastDst
<1> QED
  BY <1>1, Inductive, PTL

\* An image that its script says is done is a whole copy of the root of the
\* script's own source, as damaged as that is, also after later runs, kills and
\* crashes of the host, if no other run overlapped the script and its folders
\* could be unmounted.  Only where the host has volumes of its own, or where
\* another partition was named for the root, something else may be copied.
THEOREM DoneIsCopied == Spec => []DoneMeansCopied
<1>1. IInv => DoneMeansCopied
  BY DEF IInv, Copying, Lone, Finished, CopyOf, DoneMeansCopied
<1> QED
  BY <1>1, Inductive, PTL
==============================================================================
