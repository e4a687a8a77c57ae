-------------------------- MODULE VerityAttestation --------------------------
(***************************************************************************)
(* How a guest owner comes to trust the SSH key of a VM of the verity      *)
(* workflow: attest-verity.sh (make attest_verity_vm) fetches the report   *)
(* that init.sh stored at boot, compares the fingerprint in it with the    *)
(* key that scp recorded in build/known_hosts, and make ssh then connects  *)
(* with that file.                                                         *)
(*                                                                         *)
(* All runs of the script share known_hosts and the fetched report; make   *)
(* ssh and make attest_luks_vm change known_hosts too.  A VM is named by   *)
(* the SSH key it made at boot, and so is the report made with that key;   *)
(* every boot makes a new key.                                             *)
(***************************************************************************)
EXTENDS Sequences, Functions

CONSTANTS
    Script,     \* the runs of attest-verity.sh that may overlap
    SshKey,     \* the SSH keys of all boots: as many boots as keys
    None,       \* no VM, no report, no prompt
    Garbled     \* a report file that is incomplete or mixed

ASSUME NoneAssumption == {None, Garbled} \cap (SshKey \cup Script) = {}
ASSUME GarbledAssumption == None # Garbled

VARIABLES
    booted,     \* for each key: "unused", or whether the VM that made it at
                \*   boot is the one the vm config describes
    vm,         \* the key of the VM that answers at the host and port
    known,      \* build/known_hosts: the recorded keys, <<>> if there is none
    report,     \* build/verity/attestation_report.json
    asking,     \* the VM about whose key make ssh is asking the owner
    run,        \* each run of the script: where it is (pc), the VM its scp is
                \*   or was last connected to (conn), and FINGERPRINT: the
                \*   fingerprints it read (got)
    vouched,    \* history: keys the owner accepted when make ssh asked
    unproven,   \* history: the run that recorded a key last, if neither has
                \*   it come to its own end since nor has the file been removed
    disturbed   \* history: the runs something else has disturbed

hostVars == <<booted, vm>>
trustVars == <<known, vouched, unproven>>
vars == <<hostVars, trustVars, report, asking, run, disturbed>>

Copying == {"connect", "record", "transfer", "writing", "mixing"}
Running == Copying \cup {"start", "fingerprint", "verify", "telling", "refused"}

Matching == {k \in SshKey : booted[k] = "matching"}

\* What happens disturbs the runs under way.
Disturb(runs) ==
    disturbed' = disturbed \cup {s \in runs : run[s].pc \in Running}

\* Mutant: the file is left where it is.
RemoveHosts_Kept == UNCHANGED trustVars

\* rm -rf $SSH_HOSTS_FILE
RemoveHosts ==
    /\ known' = <<>>
    /\ unproven' = None
    /\ UNCHANGED vouched

------------------------------------------------------------------------------
(* The VMs at the host and port.                                           *)

\* A VM is started, in place of the one that ran: boot_verity makes its key
\* and its report, or it is not a VM the config describes.
Boot(k, how) ==
    /\ booted[k] = "unused"
    /\ booted' = [booted EXCEPT ![k] = how]
    /\ vm' = k
    /\ Disturb(Script)
    /\ UNCHANGED <<trustVars, report, asking, run>>

ShutDown ==
    /\ vm # None
    /\ vm' = None
    /\ Disturb(Script)
    /\ UNCHANGED <<booted, trustVars, report, asking, run>>

\* The report.json of VM k: its own if it went through boot_verity as the
\* config says, else any file, a report made elsewhere included.
Served(k) ==
    IF booted[k] = "matching" THEN {k}
    ELSE {r \in SshKey : booted[r] # "unused"} \cup {Garbled}

------------------------------------------------------------------------------
(* attest-verity.sh.                                                       *)

At(s, to) == [run[s] EXCEPT !.pc = to]

\* Run s goes from one line of the script to another.
Step(s, from, Then) ==
    /\ run[s].pc \in from
    /\ run' = [run EXCEPT ![s] = Then]
    /\ UNCHANGED <<hostVars, asking>>

\* The runs whose scp is writing the report.
Writers == {t \in Script : run[t].pc \in {"writing", "mixing"}}

\* A run that starts while another is writing the report is disturbed at once.
Start(s) ==
    /\ run[s].pc \notin Running
    /\ run' = [run EXCEPT ![s] = [pc |-> "start", conn |-> None, got |-> <<>>]]
    /\ disturbed' = IF Writers = {} THEN disturbed \ {s} ELSE disturbed \cup {s}
    /\ UNCHANGED <<hostVars, trustVars, report, asking>>

\* Mutant: the script does not begin with a clean file.
RemoveOld_Kept(s) ==
    /\ Step(s, {"start"}, At(s, "connect"))
    /\ UNCHANGED <<trustVars, report, disturbed>>

\* The file of an earlier run is removed.
RemoveOld(s) ==
    /\ Step(s, {"start"}, At(s, "connect"))
    /\ RemoveHosts
    /\ Disturb(Script \ {s})
    /\ UNCHANGED report

\* scp connects.  With StrictHostKeyChecking=no a key it has no entry for is
\* recorded, and a key that differs from the entry changes nothing.
Connect(s) ==
    /\ vm # None
    /\ Step(s, {"connect"},
            [At(s, IF known = <<>> THEN "record" ELSE "transfer") EXCEPT !.conn = vm])
    /\ UNCHANGED <<trustVars, report, disturbed>>

\* ssh appends the key to the file, which may not be empty any more.
Record(s) ==
    /\ Step(s, {"record"}, At(s, "transfer"))
    /\ known' = Append(known, run[s].conn)
    /\ unproven' = s
    /\ Disturb(Script \ {s})
    /\ UNCHANGED <<vouched, report>>

\* The local report file is truncated and written from now on; runs that are
\* writing it too are mixed up with this one.
Transfer(s) ==
    /\ run[s].pc = "transfer"
    /\ run[s].conn = vm
    /\ report' = Garbled
    /\ run' = [t \in Script |->
                 IF t = s /\ Writers = {} THEN At(t, "writing")
                 ELSE IF t \in Writers \cup {s} THEN At(t, "mixing") ELSE run[t]]
    /\ Disturb(Script \ {s})
    /\ UNCHANGED <<hostVars, trustVars, asking>>

\* scp ends well.
Transferred(s) ==
    /\ run[s].conn = vm
    /\ Step(s, {"writing", "mixing"}, At(s, "fingerprint"))
    /\ \E r \in Served(vm) :
         report' \in IF run[s].pc = "writing" THEN {r} ELSE {r, report, Garbled}
    /\ Disturb(Script \ {s})
    /\ UNCHANGED trustVars

\* There is no VM, or the one scp was connected to is gone.
ConnectionLost(s) ==
    /\ IF run[s].pc = "connect" THEN vm = None ELSE run[s].conn # vm
    /\ Step(s, Copying, At(s, "refused"))
    /\ Disturb({s})
    /\ UNCHANGED <<trustVars, report>>

\* Mutant: the fingerprint is read from the report's file.
ReadFingerprint_OfReport(s) ==
    /\ Step(s, {"fingerprint"}, [At(s, "verify") EXCEPT !.got = <<report>>])
    /\ UNCHANGED <<trustVars, report, disturbed>>

\* A fingerprint for each line of known_hosts: none if the file is missing,
\* since the status of the pipeline is that of cut.
ReadFingerprint(s) ==
    /\ Step(s, {"fingerprint"}, [At(s, "verify") EXCEPT !.got = known])
    /\ UNCHANGED <<trustVars, report, disturbed>>

\* --report-data gets one word, and the report is genuine, of a VM that the
\* config describes, with that fingerprint as its report data.
Attested(s) ==
    /\ report \in Matching
    /\ run[s].got = <<report>>

\* verify_report accepts or refuses.
Verify(s) ==
    /\ Step(s, {"verify"}, At(s, IF Attested(s) THEN "telling" ELSE "refused"))
    /\ UNCHANGED <<trustVars, report, disturbed>>

\* "Done! You can safely connect to the CVM": the run's own end.
Tell(s) ==
    /\ Step(s, {"telling"}, At(s, "done"))
    /\ unproven' = IF unproven = s THEN None ELSE unproven
    /\ UNCHANGED <<known, vouched, report, disturbed>>

\* Mutant: the file is kept when scp or verify_report has failed.
CleanUp_Kept(s) ==
    /\ Step(s, {"refused"}, At(s, "failed"))
    /\ unproven' = IF unproven = s THEN None ELSE unproven
    /\ UNCHANGED <<known, vouched, report, disturbed>>

\* scp or verify_report has failed: the file is removed, the run exits with 1.
CleanUp(s) ==
    /\ Step(s, {"refused"}, At(s, "failed"))
    /\ RemoveHosts
    /\ Disturb(Script \ {s})
    /\ UNCHANGED report

\* scp is turned down or breaks off; verify_report lacks the certificate or
\* an input.
CallFails(s) ==
    /\ Step(s, Copying \cup {"verify"}, At(s, "refused"))
    /\ Disturb({s})
    /\ UNCHANGED <<trustVars, report>>

\* The owner interrupts the run: nothing is cleaned up.
Kill(s) ==
    /\ Step(s, Running, At(s, "killed"))
    /\ UNCHANGED <<trustVars, report, disturbed>>

------------------------------------------------------------------------------
(* The Makefile's other users of known_hosts.                              *)

\* make ssh connects without a question.
Silent(k) == k \in Range(known)

\* make ssh finds no entry and asks the owner.
SshAsks ==
    /\ asking = None
    /\ vm # None
    /\ known = <<>>
    /\ asking' = vm
    /\ UNCHANGED <<hostVars, trustVars, report, run, disturbed>>

\* The owner, who has compared the fingerprint, says yes: it is appended.
SshAccepted ==
    /\ asking # None
    /\ asking' = None
    /\ known' = Append(known, asking)
    /\ vouched' = vouched \cup {asking}
    /\ Disturb(Script)
    /\ UNCHANGED <<hostVars, unproven, report, run>>

SshDeclined ==
    /\ asking # None
    /\ asking' = None
    /\ UNCHANGED <<hostVars, trustVars, report, run, disturbed>>

\* make attest_luks_vm ends well and removes the file.
LuksAttested ==
    /\ RemoveHosts
    /\ Disturb(Script)
    /\ UNCHANGED <<hostVars, report, asking, run>>

------------------------------------------------------------------------------
Init ==
    /\ booted = [k \in SshKey |-> "unused"]
    /\ vm = None
    /\ known = <<>>
    /\ report = None
    /\ asking = None
    /\ run = [s \in Script |-> [pc |-> "idle", conn |-> None, got |-> <<>>]]
    /\ vouched = {}
    /\ unproven = None
    /\ disturbed = {}

\* The run goes on by itself.
Proceed(s) ==
    \/ RemoveOld(s)
    \/ Connect(s)
    \/ Record(s)
    \/ Transfer(s)
    \/ Transferred(s)
    \/ ConnectionLost(s)
    \/ ReadFingerprint(s)
    \/ Verify(s)
    \/ Tell(s)
    \/ CleanUp(s)

Owner == SshAsks \/ SshAccepted \/ SshDeclined \/ LuksAttested

Host ==
    \/ \E k \in SshKey, how \in {"matching", "other"} : Boot(k, how)
    \/ ShutDown

Next ==
    \/ Host
    \/ Owner
    \/ \E s \in Script : Start(s) \/ Proceed(s) \/ CallFails(s) \/ Kill(s)

Spec == Init /\ [][Next]_vars

\* A script that runs goes on: each of its commands returns.
FairSpec == Spec /\ \A s \in Script : WF_vars(Proceed(s))
------------------------------------------------------------------------------
(* Properties.                                                             *)

\* Every variable has its type.
TypeOK ==
    /\ booted \in [SshKey -> {"unused", "matching", "other"}]
    /\ vm \in SshKey \cup {None}
    /\ known \in Seq(SshKey)
    /\ report \in SshKey \cup {None, Garbled}
    /\ asking \in SshKey \cup {None}
    /\ run \in [Script -> [pc : Running \cup {"idle", "done", "failed", "killed"},
                          conn : SshKey \cup {None}, got : Seq(SshKey)]]
    /\ vouched \subseteq SshKey
    /\ unproven \in Script \cup {None}
    /\ disturbed \subseteq Script

\* Once the run that recorded a key last has ended by itself, make ssh connects
\* without a question only to a VM that was attested, or that the owner vouched
\* for: however runs overlapped, VMs were restarted and files removed.
SilentOnlyWhenProven ==
    unproven = None => \A k \in SshKey : Silent(k) => k \in Matching \cup vouched

\* The verdict of a run that nothing disturbed is about the VM it was connected
\* to: that VM is the one the config describes if and only if the run is done.
VerdictOfUndisturbed ==
    \A s \in Script \ disturbed :
      /\ run[s].pc = "done" => run[s].conn \in Matching
      /\ run[s].pc = "failed" => run[s].conn \notin Matching

\* The owner who runs s starts it again and again.
Persistent(s) == SF_vars(Start(s))

\* Only s is started, and nothing fails or interferes.
CalmStep(s) == Start(s) \/ \E t \in Script : Proceed(t)

\* A VM that the config describes and that stays up is attested in the end,
\* whatever earlier runs and VMs have left behind: if from some moment on its
\* owner's run s is the only one to be started and nothing else fails or
\* interferes, s ends well again and again.
AttestedInTheEnd ==
    \A s \in Script :
      /\ Persistent(s)
      /\ <>[][CalmStep(s)]_vars
      /\ <>[](vm \in Matching)
      => []<>(run[s].pc = "done")
==============================================================================
