---------------------------- MODULE LaunchConfig ----------------------------
(***************************************************************************)
(* The VM configuration file that ties the launch of a VM to its           *)
(* attestation: create-vm-config.sh writes it, launch.sh reads it (both    *)
(* run one after the other by the Makefile's workflow targets, launch.sh   *)
(* also by hand), and the guest owner's tool (client or verify_report)     *)
(* computes the expected launch digest from it.                            *)
(*                                                                         *)
(* All workflows share one file.  A digest stands for what goes into it:   *)
(* the contents of the measured files, the kernel command line and the     *)
(* number of CPUs.  A command line is the workflow it is made for.  OVMF,  *)
(* the kernel and the initrd are treated as one: their paths are written   *)
(* and read together, and are good or those of the template; sed and cp    *)
(* are taken to be atomic.                                                 *)
(***************************************************************************)
EXTENDS Naturals, Sequences

CONSTANTS
    Workflow,       \* the workflow targets of the Makefile: luks and verity
    Hand,           \* runs of launch.sh by hand
    Cpus, Policy,   \* numbers of CPUs, guest policies
    DefaultCpus, DefaultPolicy,
    Pull,           \* the workflows whose tool fetches the report first
    MaxBuild,       \* bound on the number of times the measured files are rebuilt
    None            \* the empty string, no VM, no file

Launcher == Workflow \cup Hand

ASSUME DefaultsAssumption == DefaultCpus \in Cpus /\ DefaultPolicy \in Policy
ASSUME LaunchersAssumption ==
    /\ Workflow \cap Hand = {} /\ Pull \subseteq Workflow
    /\ {"vm", "tool"} \cap Launcher = {}      \* see changed
ASSUME MaxBuildAssumption == MaxBuild \in Nat

Maybe(S) == S \cup {None}

\* What the file says of a VM.
ConfigFile == [files : {"path", "placeholder"}, cmdline : Maybe(Workflow),
               cpus : Cpus, policy : Policy]

\* What a command line of launch.sh says of it.
Settings == [files : Maybe({"path", "placeholder"}), cmdline : Maybe(Workflow),
             cpus : Maybe(Cpus), policy : Maybe(Policy)]

\* vm-config-template.toml, with the number of CPUs and the policy it comes with.
Template == [files |-> "placeholder", cmdline |-> None,
             cpus |-> DefaultCpus, policy |-> DefaultPolicy]

NoOrder == [cpus |-> DefaultCpus, policy |-> DefaultPolicy]

VARIABLES
    build,      \* how often the measured files have been rebuilt
    config,     \* vm-config.toml, or None
    phase,      \* where each launcher is
    todo,       \* the fields its script has still to write or to read
    order,      \* CPUS and POLICY of a workflow's make
    opts,       \* the settings launch.sh has gathered
    flags,      \* the flags launch.sh was given
    vm,         \* the running VM, or None
    tool,       \* the guest owner's tool
    changed     \* history: who has had the file or a measured file changed

launcherVars == <<phase, todo, order, opts, flags>>
vars == <<build, config, launcherVars, vm, tool, changed>>

\* What the launch digest and the policy of the report are made from.
Measured == [content : 0 .. MaxBuild, cmdline : Maybe(Workflow),
             cpus : Cpus, policy : Policy]

VM == [by : Launcher, flags : Settings, measured : Measured]

ASSUME NoneAssumption ==
    None \notin Launcher \cup Cpus \cup Policy \cup {"path", "placeholder"}
                 \cup ConfigFile \cup Measured \cup VM

IdleTool == [phase |-> "idle", workflow |-> None, expected |-> None,
             vm |-> None, verdict |-> "none"]

------------------------------------------------------------------------------
(* create-vm-config.sh                                                     *)

\* The order in which create-vm-config.sh replaces the fields.
Written == <<"files", "cmdline", "cpus", "policy">>

\* Mutant: the number of CPUs is lost on the way.
Value_NoCpus(w, field) ==
    CASE field = "files" -> "path"
      [] field = "cmdline" -> w
      [] field = "cpus" -> None
      [] field = "policy" -> order[w].policy

\* What workflow w writes into a field.
Value(w, field) ==
    CASE field = "files" -> "path"
      [] field = "cmdline" -> w
      [] field = "cpus" -> order[w].cpus
      [] field = "policy" -> order[w].policy

\* The others that hold on to the file's content, or are about to.
Others(l) ==
    {m \in Launcher \ {l} : phase[m] \notin {"idle", "run"}}
      \cup (IF vm # None THEN {"vm"} ELSE {})
      \cup (IF tool.phase # "idle" THEN {"tool"} ELSE {})

\* make starts the workflow.
StartWorkflow(w, o) ==
    /\ phase[w] = "idle"
    /\ phase' = [phase EXCEPT ![w] = "copy"]
    /\ order' = [order EXCEPT ![w] = o]
    /\ UNCHANGED <<build, config, todo, opts, flags, vm, tool, changed>>

\* cp: the template replaces the whole file.
CopyTemplate(w) ==
    /\ phase[w] = "copy"
    /\ config' = Template
    /\ phase' = [phase EXCEPT ![w] = "write"]
    /\ todo' = [todo EXCEPT ![w] = Written]
    /\ changed' = changed \cup Others(w)
    /\ UNCHANGED <<build, order, opts, flags, vm, tool>>

\* sed replaces the next field.
WriteField(w) ==
    /\ phase[w] = "write"
    /\ todo[w] # <<>>
    /\ config' = [config EXCEPT ![Head(todo[w])] = Value(w, Head(todo[w]))]
    /\ todo' = [todo EXCEPT ![w] = Tail(@)]
    /\ changed' = changed \cup Others(w)
    /\ UNCHANGED <<build, phase, order, opts, flags, vm, tool>>

------------------------------------------------------------------------------
(* launch.sh                                                               *)

\* The order in which launch.sh looks at the fields.
Parsed == <<"cpus", "files", "cmdline", "policy">>

\* No flag but -load-config.
NoFlags == [files |-> None, cmdline |-> None, cpus |-> None, policy |-> None]

\* The number of CPUs is set before the flags are read, and nothing else.
Preset(given) ==
    IF given.cpus = None THEN [given EXCEPT !.cpus = DefaultCpus] ELSE given

\* launch.sh has read its flags.
Launch(l, given) ==
    /\ opts' = [opts EXCEPT ![l] = Preset(given)]
    /\ flags' = [flags EXCEPT ![l] = given]
    /\ todo' = [todo EXCEPT ![l] = Parsed]
    /\ phase' = [phase EXCEPT ![l] = "parse"]

\* Mutant: make passes no -smp.
LaunchWorkflow_NoSmp(w) ==
    /\ phase[w] = "write"
    /\ todo[w] = <<>>
    /\ Launch(w, NoFlags)
    /\ UNCHANGED <<build, config, order, vm, tool, changed>>

\* make goes on to launch.sh with -smp and -load-config.
LaunchWorkflow(w) ==
    /\ phase[w] = "write"
    /\ todo[w] = <<>>
    /\ Launch(w, [NoFlags EXCEPT !.cpus = order[w].cpus])
    /\ UNCHANGED <<build, config, order, vm, tool, changed>>

\* launch.sh by hand with -load-config and maybe -smp, -append and -policy.
LaunchByHand(h, cpus, cmdline, policy) ==
    /\ phase[h] = "idle"
    /\ config # None
    /\ Launch(h, [NoFlags EXCEPT !.cpus = cpus, !.cmdline = cmdline, !.policy = policy])
    /\ UNCHANGED <<build, config, order, vm, tool, changed>>

\* Mutant: what the file says wins over the flags.
ParseField_FileWins(l) ==
    /\ phase[l] = "parse"
    /\ todo[l] # <<>>
    /\ opts' = [opts EXCEPT ![l][Head(todo[l])] = config[Head(todo[l])]]
    /\ todo' = [todo EXCEPT ![l] = Tail(@)]
    /\ UNCHANGED <<build, config, phase, order, flags, vm, tool, changed>>

\* A field is taken from the file unless it is set already.
ParseField(l) ==
    /\ phase[l] = "parse"
    /\ todo[l] # <<>>
    /\ LET field == Head(todo[l]) IN
         opts' = IF opts[l][field] = None
                 THEN [opts EXCEPT ![l][field] = config[field]]
                 ELSE opts
    /\ todo' = [todo EXCEPT ![l] = Tail(@)]
    /\ UNCHANGED <<build, config, phase, order, flags, vm, tool, changed>>

\* The secure processor measures what QEMU loads now.
Measure(s) == [content |-> build, cmdline |-> s.cmdline,
               cpus |-> s.cpus, policy |-> s.policy]

FilesFound(s) == s.files = "path"

\* QEMU starts: the files exist, and the forwarded ports are free.
StartVM(l) ==
    /\ phase[l] = "parse"
    /\ todo[l] = <<>>
    /\ FilesFound(opts[l])
    /\ opts[l].policy # None
    /\ vm = None
    /\ vm' = [by |-> l, flags |-> flags[l], measured |-> Measure(opts[l])]
    /\ phase' = [phase EXCEPT ![l] = "run"]
    /\ opts' = [opts EXCEPT ![l] = NoFlags]
    /\ flags' = [flags EXCEPT ![l] = NoFlags]
    /\ changed' = (changed \ {"vm"}) \cup (IF l \in changed THEN {"vm"} ELSE {})
    /\ UNCHANGED <<build, config, todo, order, tool>>

\* The script is over and forgets what it had gathered.
Leave(l) ==
    /\ phase' = [phase EXCEPT ![l] = "idle"]
    /\ todo' = [todo EXCEPT ![l] = <<>>]
    /\ opts' = [opts EXCEPT ![l] = NoFlags]
    /\ flags' = [flags EXCEPT ![l] = NoFlags]
    /\ order' = [order EXCEPT ![l] = NoOrder]
    /\ changed' = changed \ {l}

\* There is no policy, QEMU does not find a file, or another VM has the ports.
StartVMFails(l) ==
    /\ phase[l] = "parse"
    /\ todo[l] = <<>>
    /\ ~FilesFound(opts[l]) \/ opts[l].policy = None \/ vm # None
    /\ Leave(l)
    /\ UNCHANGED <<build, config, vm, tool>>

\* A command fails, or the script is interrupted.
Stop(l) ==
    /\ phase[l] \in {"copy", "write", "parse"}
    /\ Leave(l)
    /\ UNCHANGED <<build, config, vm, tool>>

\* The VM is shut down.
StopVM ==
    /\ vm # None
    /\ vm' = None
    /\ phase' = [phase EXCEPT ![vm.by] = "idle"]
    /\ order' = [order EXCEPT ![vm.by] = NoOrder]
    /\ changed' = changed \ {"vm", vm.by}
    /\ UNCHANGED <<build, config, todo, opts, flags, tool>>

\* OVMF, the kernel or the initramfs is built anew, under the same path.
Rebuild ==
    /\ build < MaxBuild
    /\ build' = build + 1
    /\ changed' = changed \cup (IF vm # None THEN {"vm"} ELSE {})
                    \cup (IF tool.phase # "idle" THEN {"tool"} ELSE {})
    /\ UNCHANGED <<config, launcherVars, vm, tool>>

------------------------------------------------------------------------------
(* The guest owner's tool.                                                 *)

\* The client reads the config and then asks for the report; for verify_report
\* the report is there first.
StartTool(w) ==
    /\ tool.phase = "idle"
    /\ tool' = [IdleTool EXCEPT !.phase = IF w \in Pull THEN "fetch" ELSE "hash",
                                !.workflow = w]
    /\ UNCHANGED <<build, config, launcherVars, vm, changed>>

\* compute_expected_hash() and the expected policy.
Expected == Measure(config)

\* policy first, the launch digest last.
Verdict(expected, got) ==
    IF expected.policy # got.policy THEN "PolicyMismatch"
    ELSE IF expected # got THEN "LaunchDigestMismatch"
    ELSE "Ok"

\* The config is read, and the digest of the files it names computed.
HashConfig ==
    /\ tool.phase = "hash"
    /\ config # None /\ FilesFound(config)
    /\ tool' = IF tool.vm = None
               THEN [tool EXCEPT !.expected = Expected, !.phase = "fetch"]
               ELSE [tool EXCEPT !.expected = Expected, !.phase = "done",
                                 !.verdict = Verdict(Expected, tool.vm.measured)]
    /\ UNCHANGED <<build, config, launcherVars, vm, changed>>

\* The report is fetched from the VM, if it runs what the tool expects to find.
FetchReport ==
    /\ tool.phase = "fetch"
    /\ vm # None
    /\ vm.measured.cmdline = tool.workflow
    /\ tool' = IF tool.expected = None
               THEN [tool EXCEPT !.vm = vm, !.phase = "hash"]
               ELSE [tool EXCEPT !.vm = vm, !.phase = "done",
                                 !.verdict = Verdict(tool.expected, vm.measured)]
    /\ changed' = changed \cup (IF "vm" \in changed THEN {"tool"} ELSE {})
    /\ UNCHANGED <<build, config, launcherVars, vm>>

\* The tool is done, or fails: no config, no such file, no VM that answers.
EndTool ==
    /\ tool.phase # "idle"
    /\ tool' = IdleTool
    /\ changed' = changed \ {"tool"}
    /\ UNCHANGED <<build, config, launcherVars, vm>>

------------------------------------------------------------------------------
Init ==
    /\ build = 0
    /\ config = None
    /\ phase = [l \in Launcher |-> "idle"]
    /\ todo = [l \in Launcher |-> <<>>]
    /\ order = [l \in Launcher |-> NoOrder]
    /\ opts = [l \in Launcher |-> NoFlags]
    /\ flags = [l \in Launcher |-> NoFlags]
    /\ vm = None
    /\ tool = IdleTool
    /\ changed = {}

Next ==
    \/ \E w \in Workflow :
         \/ \E o \in [cpus : Cpus, policy : Policy] : StartWorkflow(w, o)
         \/ CopyTemplate(w) \/ WriteField(w) \/ LaunchWorkflow(w)
         \/ StartTool(w)
    \/ \E h \in Hand, cpus \in Maybe(Cpus), cmdline \in Maybe(Workflow), policy \in Maybe(Policy) :
         LaunchByHand(h, cpus, cmdline, policy)
    \/ \E l \in Launcher : ParseField(l) \/ StartVM(l) \/ StartVMFails(l) \/ Stop(l)
    \/ StopVM
    \/ Rebuild
    \/ HashConfig \/ FetchReport \/ EndTool

Spec == Init /\ [][Next]_vars

------------------------------------------------------------------------------
(* Properties.                                                             *)

\* Every variable has its type.
TypeOK ==
    /\ build \in 0 .. MaxBuild
    /\ config \in Maybe(ConfigFile)
    /\ phase \in [Launcher -> {"idle", "copy", "write", "parse", "run"}]
    /\ todo \in [Launcher -> {SubSeq(list, i, 4) : list \in {Written, Parsed}, i \in 1 .. 5}]
    /\ order \in [Launcher -> [cpus : Cpus, policy : Policy]]
    /\ opts \in [Launcher -> Settings]
    /\ flags \in [Launcher -> Settings]
    /\ vm \in Maybe(VM)
    /\ tool \in [phase : {"idle", "hash", "fetch", "done"}, workflow : Maybe(Workflow),
                expected : Maybe(Measured), vm : Maybe(VM),
                verdict : {"none", "Ok", "PolicyMismatch", "LaunchDigestMismatch"}]
    /\ changed \subseteq Launcher \cup {"vm", "tool"}

\* A VM that a workflow has started runs what its make was asked for, whatever
\* makes were interrupted before and left in the file: unless another workflow
\* wrote to the file while this one was writing or reading it.
VMAsOrdered ==
    vm # None /\ vm.by \in Workflow \ changed =>
      /\ vm.measured.cmdline = vm.by
      /\ vm.measured.cpus = order[vm.by].cpus
      /\ vm.measured.policy = order[vm.by].policy

\* The flags that launch.sh was given do not contradict what is expected.
FlagsAgree(given, expected) ==
    /\ Preset(given).cpus = expected.cpus
    /\ given.cmdline \in {None, expected.cmdline}
    /\ given.policy \in {None, expected.policy}

\* A genuine VM is not refused without reason: if it was started by a workflow,
\* or by hand without contradicting flags, and neither the configuration file
\* nor a measured file has changed since, as far as the VM and the tool depend
\* on it, the digest and the policy that the tool expects are the VM's.
AcceptedUnlessChanged ==
    /\ tool.phase = "done"
    /\ "tool" \notin changed
    /\ tool.vm.by \in Workflow \/ FlagsAgree(tool.vm.flags, tool.expected)
    => tool.verdict = "Ok"

\* No flag goes unnoticed: a VM launched with -smp, -append or -policy is
\* accepted only if the configuration file says the same.
AcceptedFlagsAgree ==
    tool.verdict = "Ok" => FlagsAgree(tool.vm.flags, tool.expected)

\* launch.sh:59: "Will load -bios,-smp,-kernel,-initrd,-append amd -policy from
\* the VM config .toml file."
LoadConfigLoadsCpus ==
    vm # None /\ vm.by \in Hand /\ vm.flags.cpus = None
      /\ {vm.by, "vm"} \cap changed = {}
      => vm.measured.cpus = config.cpus
==============================================================================
