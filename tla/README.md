# SNPGuard in TLA+

SNPGuard launches AMD SEV-SNP virtual machines and attests them: a guest owner checks a
report signed by the secure processor before a disk encryption key is handed to the VM
(LUKS workflow) or before an SSH connection is trusted (dm-verity workflow). This directory
models the parts of it that keep state and interact, checks them with TLC on small instances
and proves the main results with TLAPS for every value of the constants.

Paths below are relative to `src/`; `TS` is `tools/attestation_server/src`.

## The system

| Component | State | Operations | Talks to |
|---|---|---|---|
| Attestation server, `TS/bin/server` | `ServerState` (Ready, or waiting with a nonce and an ephemeral key), `./disk_key.txt` | take a request: `/reset`, report request, wrapped key; end | clients over HTTP; secure processor; `init.sh` through its exit status and file |
| Attestation client, `TS/bin/client` | one run: nonce, expected digest, report, shared secret | reset, request a report, check it, wrap and post the key | server; VCEK cache; configuration file |
| Key wrapping and report data, `TS/req_resp_ds.rs`, `TS/snp_attestation.rs` | nonce counter | derive, seal, open; pack nonce and key into a report | both of the above |
| Report validation, `TS/snp_validate_report.rs`, `TS/bin/verify_report` | none | compare the report with every expectation, then verify the signature | host firmware, which changes underneath |
| VCEK cache, `CachingVCEKDownloader` | a directory shared by all runs of all tools | look up, download, store | AMD's key server; file system |
| VM configuration and launch, `guest-vm/create-vm-config.sh`, `launch.sh`, `Makefile`, `TS/calc_expected_ld.rs` | one `vm-config.toml` for both workflows; the built files | write field by field, read field by field, start QEMU, compute the expected digest | client, `verify_report`, `idblock-generator` |
| Boot of the guest, `initramfs/init.sh` | command line, disk key, mapped devices | normal, encrypted or verity boot | server, `get_report` |
| Verity attestation, `attestation/attest-verity.sh`, `TS/bin/get_report` | `known_hosts`, the report of the VM | fetch by scp, verify, keep or drop the host key | VM over SSH; `verify_report` |
| Disk images, `guest-vm/setup_*.sh`, `common.sh` | `/dev/nbd0`, `/dev/nbd1`, images, root hash | connect, copy, hash or encrypt, clean up | workflows |
| Id block generator, `TS/bin/idblock_generator` | the pair of files | compute, write | `launch.sh`, client |
| Toolchain builder, `snp-builder` | a container and its exit status | build, fetch | `Makefile` |

What is hard here: several owners' runs share one server whose only clue to what a request is
for is its own state; runs are cut off while their requests are still queued; files shared
between processes (cache, configuration, `known_hosts`, network block devices) are tested,
created and written in separate steps; firmware, built files and configuration change between
the moment something is measured and the moment it is checked. `PROJECT.json` lists these
hazards at the lines where they bite, each with the properties that would notice.

## The modules

### SecretInjection and KeyDelivery

`SecretInjection` is the exchange between server and clients. A `Client` is a connection slot,
used by one run at a time. The server handles one request at a time, so an action is the whole
of handling one: `Reset`, `SendReport`, `InjectSecret` and so on are the branches of `run()`
with `send_report()` or `process_injected_secret()` inside, and `...Fails` the branches in which a
call they make returns an error. `req[c]` and `resp[c]` are what is under way on the slot's
connection. A run that is interrupted or times out (`GiveUp`) leaves its request behind, and the
server may still take it; the slot is free for the next run once it has. Cryptography is
reduced to which session a secret was wrapped for: it opens there and nowhere else. The nonce
is a number, because it is also the start of a counter that may overflow. `matches[c]` says
whether the configuration of the run describes this VM; `mock_mode` gives reports without a valid
signature. `disturbed` is history: the runs during which another run's request was handled
or a call failed.

`KeyDelivery` is what owners may rely on whatever happens: the VM gets at most one key, from a run
that approved it. `DeliversOnce` states that the exchange implements it, with "delivered" read
off the file rather than off the server's state.

Properties: `SessionsAreApart` (no two runs ever hold the same server key, and who holds the
key of the current session has its nonce), `KeyOnlyForMatchingVM`, `DoneMeansWholeKey` (the
server ends well if and only if the whole key is in the file, a truncated one never counts),
`UndisturbedSuccess`, `OverflowOnlyOnForeignSecret`, `DeliversOnce`,
`EveryRunEnds`, `DeliveredInTheEnd`.

### ReportCheck

`CheckReportData` and `VerifyAndCheckReport` are the functions of the same name, with the checks
in their order and the error of each; only the comparisons' outcome is kept of a digest,
policy, id or nonce, but a TCB version keeps its parts. Around them the host updates, rolls
back and commits its firmware, and has reports signed for a version it chooses, at most the one
in use. Both callers fetch the certificate of the *committed* version; the firmware signs for
the *reported* one. `AcceptedHostStaysAtLeast` says that checking the committed version is enough
for ever after; `RefusedOnlyWhileUncommitted` says exactly when an honest owner with the right
expectations is refused.

### VcekCache

Runs share the cache. `CheckDir`, `MakeDir`, `Open`, `Read`, `Download`, `Create`, `Write`, `Parse`
are the system calls of `new()` and `get_vceck_cert()`, one step each because another run may come
between any two; reading and writing take `Pieces` steps. `Break` is a failing call or a kill.
`ReturnsWanted` holds whatever happens; `SettledFilesWhole` says that overlapping writers end with
a whole file unless something broke; `NeverRepaired` records that a broken file stays broken.

### LaunchConfig

The workflow targets write the configuration (`CopyTemplate`, then `WriteField` for each `sed`) and
start `launch.sh`, which takes each field from its flags or else from the file (`ParseField`); QEMU then
loads the built files (`StartVM`), or fails when a path is still the template's or another VM
has the forwarded ports. The owner's tool computes the expected digest from the file and the built
files as they are then; the client does so before it asks for the report, `verify_report` after. A digest is
the record of what goes into it. `changed` is history: who has had the file, or a built
file, changed since reading from it.
`VMAsOrdered` (a half-written file of an interrupted make never shows in a later one),
`AcceptedUnlessChanged` (no refusal without a reason) and `AcceptedFlagsAgree` (no flag that
contradicts the file goes unnoticed) relate make, launch and attestation.

### GuestBoot

`init.sh` as PID 1, one action per command that matters, `CommandFails` for the failure of any. The command
line is a sequence of options, read the way the loop of the script does (`Given`: the last one counts). The encrypted
boot is composed with `KeyDelivery`, the abstract specification that `SecretInjection` implements:
`Approve`, `Withdraw`, `Deliver` and `ServerDies` are its actions, with the file the server writes and the exit status
`init.sh` looks at. A disk holds a file system, a LUKS volume or a hash tree; dm-verity is reduced to what it
promises, that every block read is of the image whose root hash was given. The passphrase keeps one property,
whether it holds a backslash sequence, because `echo` changes it.
`RootAsOrdered` says whose root file system takes over, `KeyFileIsBrief` where the
passphrase lies in a file, `ReportVouchesForKey` that report and SSH key belong together; `RightKeyGetsIn` is about
progress: an owner who has delivered the right key gets a running VM or a panic.

### VerityAttestation

All runs of `attest-verity.sh` share `build/known_hosts` and the report file, which `make ssh` and `make
attest_luks_vm` also use; VMs come and go at the address, each named by the SSH key it made at boot. scp is five steps: connect,
record the key, open the local file, write it, end; a second scp that opens the file meanwhile mixes the
two. `ReadFingerprint` is the pipeline of line 70 (one word per line of the file, none if it is missing),
`Attested` what `verify_report` accepts. `unproven` and `disturbed` are history: which run recorded a key and has
not ended by itself, and which runs something else touched. `SilentOnlyWhenProven` states what the script is for;
its premise is needed, because a script that is killed cleans nothing up. `VerdictOfUndisturbed` is the
verdict in both directions, `AttestedInTheEnd` the recovery from anything left behind.

### IdBlock

The generator creates and writes the auth block, then the id block, one call each; `launch.sh` reads them with two
`cat`s and the firmware accepts or refuses; the client or `verify_report` reads them in the other order
and compares the report. Signatures are reduced to what was signed with which keys. `intact` is history: who has seen
no file change and no edit since it began. `AcceptedWasGenerated` rests on the firmware's check: no tool
verifies a signature of the blocks.

### ImageSetup

Both scripts with `common.sh` as one sequence of commands each (`Script`), followed by the exit trap (`Cleaning`). What
they share is `host`: the two network block devices, the mapper device, the logical volumes. A device
holds the image of whichever run connected it, so that every command acts on that image, not on
the run's own. What is copied is in memory until the folder is unmounted (`Flushed`); a source that an earlier `rm -rf`
has damaged is copied as it is (`Damaged`).

Logical volumes are counted, as the scripts do: `CheckLvm` before the image is connected, `NewVolume` after. The host may have
volumes itself (`host.own`), and the volume of an image is listed some time after the image is connected, or too
late (`VolumeAppears`). `lvdisplay`'s order is not known, so the volume listed last is any of them; if none is new, the root is the partition
of `fdisk`'s output or the device the user names, right or wrong (`FindRoot`). The volumes of the host are assumed
not to come and go while scripts run: only `lvchange` in a trap deactivates one (`host.off`; it stays listed). Every run has new folders:
what an earlier one left mounted stays so (`host.held`) and keeps its device in use.

In the trap every command may be refused (`TrapRefused`, `RmMounted`, `UnmountLvmFails`, `Rmmod`), for any reason; it goes on or ends there as `|| true`
and `set -e` have it. `host.refused` is history: what the last attempt of a trap to free it failed to free.
`DoneMeansCopied` is what an owner alone on the host relies on; `FreeInTheEnd` is about traps of several runs
disconnecting each other's devices.

## The runs

| Run | Shows | Bounds |
|---|---|---|
| `injection` | all safety properties of the exchange, the refinement, and that runs end and the key is delivered in the end | 2 slots, 2 keys, nonces 0..1, all options, all faults |
| `injection_success` | violation of `SuccessMeansInstalled` | same, injection on, no fault, overlap only |
| `vcek` | the cache | 2 runs, 1 chip, 2 versions, 3 pieces |
| `report_check` | the checks | 2 parts of a version with 2 levels, 2 id block fields, every expectation |
| `launch_makes` | both workflows overlap, one rebuild | 2 numbers of CPUs, 1 policy |
| `launch_hand` | a workflow and `launch.sh` by hand | 2 numbers of CPUs, 2 policies |
| `launch_smp` | violation of `LoadConfigLoadsCpus` | 1 workflow, 1 launch by hand |
| `verity_safety` | trust in SSH keys under overlap, restarts and interruptions | 2 runs, 2 boots |
| `verity_live` | a VM that stays up is attested in the end | 1 run, 2 boots |
| `boot` | all boots, and their progress | 2 clients, 7 command lines, 16 pairs of disks, 2 passphrases with and without a backslash sequence |
| `idblock` | the pair of files from generator to check | 2 generator runs, 1 digest, 2 ids, 2 policies, 2 id keys, 1 author key |
| `image` | both scripts on shared devices | 1 run of each, begun 2 times in all (`MaxStarts`); the source of one has its root on a volume, and the host has none or 1 of its own |

Why the bounds are enough. Two slots give every overlap of two runs, and slots are reused, so that
leftovers of earlier runs meet later ones; a third slot was tried once and showed nothing new. Two keys
are the fewest with which a fresh key can differ from one in use; when both are in use `SendReport`
waits, which removes behaviours but no kind of overlap. Nonces 0 and 1 give an equal and a different
nonce and the largest one. Two runs of the cache write over each other at their own offsets and read what the other writes, and are begun
again and again; three pieces give an empty, two partial and a whole file. Two parts of a
version with two levels give incomparable versions. One rebuild tells old content from new.
Two runs of `attest-verity.sh` give every overlap, since a run is started again after it has ended; two boots are a VM
and its replacement. A VM boots once, so that one instance per command line and disks suffices. The command lines
are those of the Makefile, one with an option given twice, one with an option missing and one nobody knows.
Two generator runs are a generation and the next. Two beginnings in `image` are two runs that
overlap, or a run after one that failed or was killed, of the same script or of the other; one volume of the host beside the image's gives both a
new volume that is not listed last and, when the image's is not listed in time, volumes of which none is new.
Symmetry is used in `verity_safety` and `idblock` only, which check no liveness.

Fairness. The server's loop takes every queued request (`WF` on `Serve` or `ServeFails`), the network stack
closes connections to a server that is gone (`Refuse`), and a run goes on by itself (`Proceed`). Nothing is
assumed of faults. `DeliveredInTheEnd` states its own premises: the owner tries again (`Persistent`, strong
fairness of starting a run with the right configuration), and from some moment on no call fails and nobody
else starts a run (`CalmStep`): two owners who keep trying may reset each other for ever.
`RetriesSucceed` assumes that tools run and are run again. The boot and a run of `attest-verity.sh` go on because
the commands they wait for return (`WF` on `Proceed`); `AttestedInTheEnd` states in the property that the owner tries
again, and that from some moment on the VM stays and nothing else interferes. Nothing guarantees that an owner ever delivers a key.

External behaviour that is assumed, not modelled from source: tiny_http answers a dropped request with
500 and ignores a client that is gone when responding; reqwest's blocking client times out; the
firmware signs with the key of the version it reports; `write(2)` beyond the end leaves a hole;
after `qemu-nbd` connects an image the kernel scans its partitions, and LVM activates a volume in it, some time later or not in time.
The Makefile builds the debug profile, hence `OverflowChecks = TRUE` in the runs; the proofs hold for
both values.

## What the runs found

* **"Success!" without a key** (`injection_success`). The client does not look at the status of the
  answer to the wrapped key. With two owners: one gets a report, the other's `/reset` is handled,
  the first one's key is answered with 500, and its client prints "Success!".
* **`-load-config` does not load the number of CPUs** (`launch_smp`). `SMP` is preset to 1.

Some properties hold only under a premise that an owner should know of; each names a way in which the
code does less than one expects.

* `SilentOnlyWhenProven` excepts a run that recorded a key and has not ended by itself: `attest-verity.sh` says "You can
  safely connect" of a `known_hosts` that an overlapping run may just have filled with a key nobody has verified.
* `RightKeyGetsIn` excepts passphrases with a backslash sequence: `init.sh` pipes the passphrase through `echo`, which the
  `sh` of the initramfs lets replace it, and the volume stays locked.
* `IntactPairStarts` speaks of a generator that wrote both files: `main()` returns 0 as well when it could not (`error_0`).
* `FreeInTheEnd` excepts runs whose trap did not get to its end: a refused `umount` is ignored, `rm -rf` then
  deletes what is still mounted, fails at the mount point, and `set -e` ends the trap, against the comment at `common.sh:18`. It
  also excepts a device that a trap was refused: `luksClose` and `qemu-nbd --disconnect` are followed by `|| true` (`common.sh:34`, `:42`,
  `:48`), so that a trap may get to its end with the device connected, which blocks later runs.
* `DoneMeansCopied` allows an empty root hash file: the status of `veritysetup` is lost in a pipeline without pipefail. It
  allows another file system than the root to be copied when the host has logical volumes, as the warning at `common.sh:105-114` says, or when
  the partition `fdisk` or the user names is another one: the scripts say "Success" or "All done!" all the same. And a source that an
  earlier trap has damaged is copied without complaint.
* `NeverRepaired`: a certificate file left incomplete by a killed run is taken for the certificate by every later run.

## The proofs

`SecretInjectionProofs` proves, for any sets of slots and keys, any largest nonce and both
build profiles, the type invariant (`TypeCorrect`), all safety properties of the run and the refinement
(`Implements`). None of them is inductive alone. The invariant `IInv` says in addition whose
every item under way is: a report or secret on a slot carries the nonce of that
slot's run; a key is held by one slot at most, and by the slot with the session's nonce if it is the session's;
a run between accepting a report and having its secret answered has approved the VM; the file, when it
was touched, was touched for an approved run; and an undisturbed run still has its session. `Invariance`
shows that every action preserves it, one step per action; the other theorems follow from it.

`ReportCheckProofs` proves the type invariant and three properties of the check for any number of parts and levels.
The lemma `OkMeansAllHold` reduces the sequence of checks to the conjunction of what they check; the inductive
invariant says that the host never falls below the committed version a report states.

`VcekCacheProofs` proves, for any number of runs, certificates and pieces, that a run returns the certificate it
asked for (`Returned`), that an incomplete file stays so (`NeverHeals`) and the type invariant. `Returned` is not
inductive: a buffer holds what was in a file, and a file what overlapping writers left of each other. `Filed` says
that under the name of a certificate there are only pieces of it and holes, `Held` the same of every buffer, with where
a run's offset is; a *whole* certificate of such pieces is the one wanted. All steps but a start go through
one lemma (`StepOf`). `SettledWholeAlways` and `CausedFailure` need more (`CauseInv`): as long as nothing broke,
every piece missing from a file is one that some run under way has still to write, usually the one that truncated
the file last (`Covered`); and a run nobody overlapped finds nothing on its way that could make it fail (`Lone`).

`LaunchConfigProofs` proves the type invariant, `AsOrdered`, `Accepted` and `FlagsNoticed`, for any launches, CPUs and policies.
The invariant says of every launch how far it is: a make that is writing has left in the fields before its position what it was
asked for (`Writing`), and a `launch.sh` that is reading has, for those before its position, the flag or else what
the file says *now* (`Parsing`), both unless `changed`. At `StartVM` these add up to a VM that is what file and flags make
of it (`AsConfigured`), which the running VM and the tool's copy of it keep until something changes.
The lists of fields are followed by position (`todo` is a `SubSeq` of a fixed list).

`VerityAttestationProofs` proves the type invariant, `SilentProven` and `VerdictUndisturbed`, for any number of runs and boots.
The invariant says of every run where the keys in the file can come from: unless a run that has not ended by itself was the last to
record one, they are matching or accepted; a run that is about to say it is done has verified the only key it read.
For the verdict, `Undisturbed` follows a run that nothing touches: that it alone writes, that `known_hosts` holds the key of the
VM it is connected to and no other, and that the report it fetched is that VM's.

`GuestBootProofs` proves the type invariant and the three safety properties of the boot. The invariant follows the
script: from each command on, which boot it belongs to, what was mapped, and that the server's success came
with a delivery to a run that expects this command line. `Given` is shown to return a value of its option's type
by taking the last of its positions.

`IdBlockProofs` proves the type invariant, `AcceptedIsGenerated`, `IntactStarts` and `RefusedIfChanged`. For the first, its invariant
says that an auth block, wherever it lies or is read, was signed by a generator run for the configuration and with the keys it still
names, and that the running VM was started with the id block its auth block signs. For the others it says what each
reader that saw no change has read: what the files hold, and what a generator that saw no change either has written there.

`ImageSetupProofs` proves the type invariant, `FreedInTheEnd` and `DoneIsCopied`, for any number of runs of either script and any volumes of the host. The first
follows from `Freeing`: as long as a device is in use, some run has not got past the command that frees it, whoever
connected it, or the last attempt to free it was refused. The second follows a run that has the host to itself (`Lone`) through script and trap: whose
image is behind each device, which file system is mounted and copied (`CopyOf`), and what is flushed (`InScript`). What a run has copied
stays so because no later run that is under way has to do with its images (`Elsewhere`). For the volumes two
parts are needed: the volume listed beside the host's is that of the connected image (`Listing`), so that a count that was 0 leaves no
other to take, and what is mounted as the root was a volume or a partition (`Rooted`). The order of the commands is established once, by
writing each script and its trap out as a list (`LuksSteps`, `VeritySteps`), so that `After` is known for every command.

Every safety invariant and every action property of a passing run is proved. Only model-checked is liveness, which is out
of the prover's reach: `EveryRunEnds`, `DeliveredInTheEnd`, `RetriesSucceed`, `RightKeyGetsIn` and `AttestedInTheEnd`; and
the two runs that end in a violation. `KeyDelivery` has no property of its own; it is the specification the
exchange is held to.

Assumptions on constants: `MaxNonce`, `MaxLevel`, `MaxBuild` and `MaxStarts` are numbers, `Pieces` a positive one, `OverflowChecks` is a Boolean;
the defaults (disk, policy, number of CPUs) are among the values they default for; a command line is a sequence of the options `init.sh`
knows; the launches of workflows and those by hand are different ones, runs of a script are named differently from
the other items of the history variables (`"vm"`, `"tool"`, `"launch"`), the volumes of the host are finitely many, and
neither they nor runs are named like a device, and `None`, `Hole`, `Absent` and `Garbled` are none of
the values they stand in for. Each is about names or says that a bound is a number; none restricts what the code does.

## Not modelled

Cryptography (beyond which session a secret belongs to), the contents of digests, the parsing of TOML and JSON, host data (no caller passes any), log output.
Creating a VM image, installing dependencies and assembling the initramfs are interactive or
straight-line scripts without state that another component reads while they run. The toolchain builder
(`snp-builder`) runs third-party builds in a container: what happens there is not in this repository. Of `launch.sh`'s
options the model has those that the fields of `LaunchConfig` and the id blocks stand for. The others are left out: disks, console and ports, which the
workflows set and which are not measured, but also options that only a launch by hand gives, of which some reach what is
measured or reported (the CPU model, another firmware, SEV without SNP). What `LaunchConfig` shows of launches by hand is about the flags it has.

The chain of certificates that `verify_report` picks by the product family (`TS/snp_validate_report.rs:370-381`) is left out of `VerifyReport`:
a signature is valid or not, and no property tells one chain from another.

## Plan

What is left, in the order of what it would add:

1. The composition of `LaunchConfig` with `GuestBoot`: the command line the workflow wrote is the one booted, and
   with `ReportCheck`: the verdict of a tool on a launch is that of the sequence of checks.
2. The composition of `SecretInjection` with `GuestBoot` through `KeyDelivery` in one theorem: each implements its part of
   the promise (`Implements` is the server's), and what `init.sh` reads is then the key of a run that approved this VM.
