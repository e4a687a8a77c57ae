------------------------- MODULE LaunchConfigProofs -------------------------
(***************************************************************************)
(* Proofs about LaunchConfig, for any number of workflows, launches by     *)
(* hand, CPUs and policies, and any number of rebuilds.                    *)
(***************************************************************************)
EXTENDS LaunchConfig, SequenceTheorems, TLAPS

Field == {"files", "cmdline", "cpus", "policy"}

\* What launch.sh ends up with for a field: the flag, else what the file says.
Chosen(given, c, f) == IF Preset(given)[f] = None THEN c[f] ELSE Preset(given)[f]

------------------------------------------------------------------------------
(* The inductive invariant.                                                *)

\* create-vm-config.sh, nobody interfering, has written what is not left to do.
Writing(w) ==
    /\ w \in Workflow /\ config # None
    /\ \E i \in 1 .. 5 :
         /\ todo[w] = SubSeq(Written, i, 4)
         /\ w \notin changed =>
              \A j \in 1 .. 4 : j < i => config[Written[j]] = Value(w, Written[j])

\* launch.sh has the settings of its flags, and none yet for the fields it has
\* still to look at; what it has taken from the file is there as long as nobody
\* writes to it.
Parsing(l) ==
    /\ config # None
    /\ \A f \in Field : Preset(flags[l])[f] # None => opts[l][f] = Preset(flags[l])[f]
    /\ \E i \in 1 .. 5 :
         /\ todo[l] = SubSeq(Parsed, i, 4)
         /\ \A j \in 1 .. 4 : j >= i => opts[l][Parsed[j]] = Preset(flags[l])[Parsed[j]]
         /\ l \notin changed =>
              \A j \in 1 .. 4 : j < i => opts[l][Parsed[j]] = Chosen(flags[l], config, Parsed[j])
    /\ l \in Workflow =>
         /\ flags[l] = [NoFlags EXCEPT !.cpus = order[l].cpus]
         /\ l \notin changed => \A f \in Field : config[f] = Value(l, f)

LaunchInv(l) ==
    /\ phase[l] = "copy" => l \in Workflow
    /\ phase[l] = "write" => Writing(l)
    /\ phase[l] = "parse" => Parsing(l)
    /\ phase[l] = "run" => vm # None /\ vm.by = l

\* A VM is what the configuration file, the flags it was launched with and the
\* files make of it now.
AsConfigured(v) ==
    /\ config # None
    /\ v.measured.content = build
    /\ \A f \in Field \ {"files"} : v.measured[f] = Chosen(v.flags, config, f)
    /\ v.by \in Workflow => FlagsAgree(v.flags, Measure(config))

RunningVM ==
    vm # None =>
      /\ phase[vm.by] = "run"
      /\ FlagsAgree(vm.flags, vm.measured)
      /\ "vm" \notin changed => AsConfigured(vm)

Tool ==
    /\ tool.vm # None =>
         /\ FlagsAgree(tool.vm.flags, tool.vm.measured)
         /\ "tool" \notin changed => AsConfigured(tool.vm)
    /\ tool.expected # None /\ "tool" \notin changed =>
         config # None /\ tool.expected = Measure(config)
    /\ tool.phase = "done" =>
         /\ tool.vm # None /\ tool.expected # None
         /\ tool.verdict = Verdict(tool.expected, tool.vm.measured)
    /\ tool.phase # "done" => tool.verdict = "none"
    /\ tool.phase = "idle" => tool = IdleTool

IInv ==
    /\ TypeOK
    /\ \A l \in Launcher : LaunchInv(l)
    /\ RunningVM
    /\ Tool
    /\ VMAsOrdered

------------------------------------------------------------------------------
(* The fields of settings and files, and what is left of a list of them.   *)

LEMMA Suffixes ==
    ASSUME NEW S \in {Written, Parsed}, NEW i \in 1 .. 5
    PROVE  /\ SubSeq(S, i, 4) # <<>> <=> i < 5
           /\ i < 5 => /\ Head(SubSeq(S, i, 4)) = S[i]
                       /\ Tail(SubSeq(S, i, 4)) = SubSeq(S, i + 1, 4)
<1>1. S \in Seq(Field) /\ Len(S) = 4
  <2>1. Written \in Seq(Field) /\ Len(Written) = 4
    BY DEF Written, Field
  <2>2. Parsed \in Seq(Field) /\ Len(Parsed) = 4
    BY DEF Parsed, Field
  <2> QED
    BY <2>1, <2>2
<1>2. ASSUME i < 5
      PROVE  /\ Head(SubSeq(S, i, 4)) = S[i]
             /\ Tail(SubSeq(S, i, 4)) = SubSeq(S, i + 1, 4)
  <2>1. i \in 1 .. Len(S) /\ 4 \in i .. Len(S)
    BY <1>1, <1>2
  <2> QED
    BY <1>1, <2>1, HeadTailOfSubSeq
<1>3. ASSUME i < 5
      PROVE  SubSeq(S, i, 4) # <<>>
  <2>1. \A k \in i .. 4 : S[k] \in Field
    BY <1>1, ElementOfSeq
  <2>2. Len(SubSeq(S, i, 4)) = 4 - i + 1
    BY <1>3, <2>1, SubSeqProperties
  <2>3. Len(<<>>) = 0
    OBVIOUS
  <2>4. 4 - i + 1 # 0
    BY <1>3
  <2> QED
    BY <2>2, <2>3, <2>4
<1>4. ASSUME ~(i < 5)
      PROVE  SubSeq(S, i, 4) = <<>>
  BY <1>4, SubSeqEmpty
<1> QED
  BY <1>2, <1>3, <1>4

\* Each field is looked at once.
LEMMA Lists ==
    /\ \A i \in 1 .. 4 : Written[i] \in Field /\ Parsed[i] \in Field
    /\ \A i, j \in 1 .. 4 : Written[i] = Written[j] => i = j
    /\ \A i, j \in 1 .. 4 : Parsed[i] = Parsed[j] => i = j
    /\ \A f \in Field : (\E i \in 1 .. 4 : Written[i] = f) /\ (\E i \in 1 .. 4 : Parsed[i] = f)
<1>1. /\ Written[1] = "files" /\ Written[2] = "cmdline"
      /\ Written[3] = "cpus" /\ Written[4] = "policy"
      /\ Parsed[1] = "cpus" /\ Parsed[2] = "files"
      /\ Parsed[3] = "cmdline" /\ Parsed[4] = "policy"
  BY DEF Written, Parsed
<1>2. \A i \in 1 .. 4 : i = 1 \/ i = 2 \/ i = 3 \/ i = 4
  OBVIOUS
<1>3. 1 \in 1 .. 4 /\ 2 \in 1 .. 4 /\ 3 \in 1 .. 4 /\ 4 \in 1 .. 4
  OBVIOUS
<1>4. \A i \in 1 .. 4 : Written[i] \in Field /\ Parsed[i] \in Field
  BY <1>1, <1>2 DEF Field
<1>5. \A i, j \in 1 .. 4 : Written[i] = Written[j] => i = j
  BY <1>1, <1>2
<1>6. \A i, j \in 1 .. 4 : Parsed[i] = Parsed[j] => i = j
  BY <1>1, <1>2
<1>7. \A f \in Field : (\E i \in 1 .. 4 : Written[i] = f) /\ (\E i \in 1 .. 4 : Parsed[i] = f)
  BY <1>1, <1>3 DEF Field
<1> QED
  BY <1>4, <1>5, <1>6, <1>7

\* Replacing a field of the file or of the settings replaces that field only.
Put(s, f, v) == [s EXCEPT ![f] = v]

LEMMA SetField ==
    ASSUME NEW f \in Field, NEW v, NEW s \in ConfigFile \cup Settings, NEW g \in Field
    PROVE  Put(s, f, v)[g] = IF g = f THEN v ELSE s[g]
BY DEF Field, ConfigFile, Settings, Put

LEMMA SetType ==
    ASSUME NEW f \in Field, NEW c \in ConfigFile
    PROVE  /\ \A d \in ConfigFile : [d EXCEPT ![f] = c[f]] \in ConfigFile
           /\ \A s \in Settings : [s EXCEPT ![f] = c[f]] \in Settings
<1>1. CASE f = "files"
  BY <1>1 DEF ConfigFile, Settings, Maybe
<1>2. CASE f = "cmdline"
  BY <1>2 DEF ConfigFile, Settings, Maybe
<1>3. CASE f = "cpus"
  BY <1>3 DEF ConfigFile, Settings, Maybe
<1>4. CASE f = "policy"
  BY <1>4 DEF ConfigFile, Settings, Maybe
<1> QED
  BY <1>1, <1>2, <1>3, <1>4 DEF Field

\* Only the number of CPUs is preset.
LEMMA PresetType ==
    ASSUME NEW given \in Settings
    PROVE  /\ Preset(given) \in Settings
           /\ Preset(given).cpus \in Cpus
           /\ Preset(given).cpus = IF given.cpus = None THEN DefaultCpus ELSE given.cpus
           /\ Preset(given).files = given.files
           /\ Preset(given).cmdline = given.cmdline
           /\ Preset(given).policy = given.policy
BY DefaultsAssumption DEF Preset, Settings, Maybe

------------------------------------------------------------------------------
(* Steps of a launcher that concern neither the VM nor the tool.           *)

LEMMA LaunchAside ==
    ASSUME NEW l \in Launcher, LaunchInv(l),
           phase'[l] = phase[l], todo'[l] = todo[l], order'[l] = order[l],
           opts'[l] = opts[l], flags'[l] = flags[l],
           l \in changed => l \in changed',
           \/ config' = config
           \/ config' # None /\ l \in changed'
           \/ phase[l] \in {"idle", "copy", "run"},
           phase[l] = "run" => vm' = vm
    PROVE  LaunchInv(l)'
<1>1. ASSUME phase[l] = "write"
      PROVE  Writing(l)'
  BY <1>1 DEF LaunchInv, Writing, Value
<1>2. ASSUME phase[l] = "parse"
      PROVE  Parsing(l)'
  <2>1. Parsing(l)
    BY <1>2 DEF LaunchInv
  <2>2. CASE config' = config
    <3>1. \A f : Value(l, f)' = Value(l, f) /\ Chosen(flags[l], config, f)' = Chosen(flags[l], config, f)
      BY <2>2 DEF Value, Chosen
    <3>2. \A f : Preset(flags[l])'[f] = Preset(flags[l])[f] /\ opts'[l][f] = opts[l][f]
      OBVIOUS
    <3>3. PICK i \in 1 .. 5 :
            /\ todo[l] = SubSeq(Parsed, i, 4)
            /\ \A j \in 1 .. 4 : j >= i => opts[l][Parsed[j]] = Preset(flags[l])[Parsed[j]]
            /\ l \notin changed => \A j \in 1 .. 4 :
                 j < i => opts[l][Parsed[j]] = Chosen(flags[l], config, Parsed[j])
      BY <2>1 DEF Parsing
    <3>4. /\ todo'[l] = SubSeq(Parsed, i, 4)
          /\ \A j \in 1 .. 4 : j >= i => opts'[l][Parsed[j]] = Preset(flags[l])'[Parsed[j]]
          /\ l \notin changed' => \A j \in 1 .. 4 :
               j < i => opts'[l][Parsed[j]] = Chosen(flags[l], config, Parsed[j])'
      BY <3>1, <3>2, <3>3
    <3>5. l \in Workflow =>
            /\ flags'[l] = [NoFlags EXCEPT !.cpus = order'[l].cpus]
            /\ l \notin changed' => \A f \in Field : config'[f] = Value(l, f)'
      BY <2>1, <2>2, <3>1 DEF Parsing
    <3>6. config' # None /\ \A f \in Field :
            Preset(flags[l])'[f] # None => opts'[l][f] = Preset(flags[l])'[f]
      BY <2>1, <2>2, <3>2 DEF Parsing
    <3> QED
      BY <3>4, <3>5, <3>6 DEF Parsing
  <2>3. CASE config' # None /\ l \in changed'
    BY <2>1, <2>3 DEF Parsing
  <2> QED
    BY <1>2, <2>2, <2>3
<1> QED
  BY <1>1, <1>2 DEF LaunchInv

LEMMA LauncherStep ==
    ASSUME IInv, TypeOK', UNCHANGED <<build, vm, tool>>,
           NEW l \in Launcher, phase[l] # "run", LaunchInv(l)',
           \A m \in Launcher \ {l} :
             /\ phase'[m] = phase[m] /\ todo'[m] = todo[m] /\ order'[m] = order[m]
             /\ opts'[m] = opts[m] /\ flags'[m] = flags[m],
           changed \ {l} \subseteq changed',
           config' # config => config' # None /\ Others(l) \subseteq changed'
    PROVE  IInv'
<1>1. vm # None => vm.by \in Launcher \ {l} /\ phase[vm.by] = "run"
  BY DEF IInv, RunningVM, TypeOK, Maybe, VM
<1>2. l # "vm" /\ l # "tool"
  BY LaunchersAssumption
<1>3. ASSUME NEW m \in Launcher \ {l}
      PROVE  LaunchInv(m)'
  <2>1. phase[m] \notin {"idle", "run"} => m \in Others(l)
    BY DEF Others
  <2>2. m \in changed => m \in changed'
    BY <1>3
  <2> QED
    BY <1>3, <2>1, <2>2, LaunchAside DEF IInv
<1>4. vm # None => "vm" \in Others(l)
  BY DEF Others
<1>5. RunningVM'
  BY <1>1, <1>2, <1>4 DEF IInv, RunningVM, AsConfigured, Chosen, Measure
<1>6. tool.phase # "idle" => "tool" \in Others(l)
  BY DEF Others
<1>7. tool.phase = "idle" => tool.vm = None /\ tool.expected = None
  BY DEF IInv, Tool, IdleTool
<1>8. Tool'
  BY <1>2, <1>6, <1>7 DEF IInv, Tool, AsConfigured, Chosen, Measure
<1>9. VMAsOrdered'
  BY <1>1 DEF IInv, VMAsOrdered
<1> QED
  BY <1>3, <1>5, <1>8, <1>9 DEF IInv

LEMMA Whole ==
    /\ Written = SubSeq(Written, 1, 4) /\ Parsed = SubSeq(Parsed, 1, 4)
    /\ <<>> = SubSeq(Written, 5, 4)
<1>1. Written \in Seq(Field) /\ Len(Written) = 4
  BY DEF Written, Field
<1>2. Parsed \in Seq(Field) /\ Len(Parsed) = 4
  BY DEF Parsed, Field
<1>3. SubSeq(Written, 5, 4) = <<>>
  BY SubSeqEmpty
<1> QED
  BY <1>1, <1>2, <1>3, SubSeqFull

Left == {SubSeq(list, i, 4) : list \in {Written, Parsed}, i \in 1 .. 5}

\* make starts a workflow: no field is written yet.
LEMMA StartWorkflowStep ==
    ASSUME IInv, NEW w \in Workflow, NEW o \in [cpus : Cpus, policy : Policy],
           StartWorkflow(w, o)
    PROVE  IInv'
<1>1. w \in Launcher /\ TypeOK
  BY DEF Launcher, IInv
<1>2. TypeOK'
  BY <1>1 DEF StartWorkflow, TypeOK
<1>3. phase'[w] = "copy" /\ phase[w] = "idle"
  BY <1>1 DEF StartWorkflow, TypeOK
<1>4. LaunchInv(w)'
  BY <1>3 DEF LaunchInv
<1>5. \A m \in Launcher \ {w} : phase'[m] = phase[m] /\ order'[m] = order[m]
  BY <1>1 DEF StartWorkflow, TypeOK
<1>6. UNCHANGED <<build, config, todo, opts, flags, vm, tool, changed>>
  BY DEF StartWorkflow
<1>7. phase[w] # "run"
  BY <1>3
<1>8. /\ UNCHANGED <<build, vm, tool>> /\ config' = config /\ changed \ {w} \subseteq changed'
      /\ \A m \in Launcher \ {w} :
           /\ phase'[m] = phase[m] /\ todo'[m] = todo[m] /\ order'[m] = order[m]
           /\ opts'[m] = opts[m] /\ flags'[m] = flags[m]
  BY <1>5, <1>6
<1> QED
  BY <1>1, <1>2, <1>4, <1>7, <1>8, LauncherStep

LEMMA CopyTemplateStep ==
    ASSUME IInv, NEW w \in Workflow, CopyTemplate(w)
    PROVE  IInv'
<1>1. w \in Launcher /\ TypeOK
  BY DEF Launcher, IInv
<1>2. Template \in ConfigFile /\ Template # None
  BY DefaultsAssumption, NoneAssumption DEF Template, ConfigFile, Maybe
<1>3. Others(w) \subseteq Launcher \cup {"vm", "tool"}
  BY DEF Others
<1>4. Written \in Left
  BY Whole DEF Left
<1>5. TypeOK'
  BY <1>1, <1>2, <1>3, <1>4 DEF CopyTemplate, TypeOK, Maybe, Left
<1>6. /\ phase'[w] = "write" /\ phase[w] = "copy" /\ todo'[w] = SubSeq(Written, 1, 4)
      /\ config' # None
  BY <1>1, <1>2, Whole DEF CopyTemplate, TypeOK
<1>7. Writing(w)'
  BY <1>6 DEF Writing
<1> QED
  BY <1>1, <1>5, <1>6, <1>7, LauncherStep DEF CopyTemplate, LaunchInv, TypeOK

\* One more field is what the workflow writes.
LEMMA WriteFieldStep ==
    ASSUME IInv, NEW w \in Workflow, WriteField(w)
    PROVE  IInv'
<1>1. w \in Launcher /\ TypeOK /\ phase[w] = "write" /\ Writing(w)
  BY DEF Launcher, IInv, LaunchInv, WriteField
<1>2. PICK i \in 1 .. 5 :
        /\ todo[w] = SubSeq(Written, i, 4)
        /\ w \notin changed =>
             \A j \in 1 .. 4 : j < i => config[Written[j]] = Value(w, Written[j])
  BY <1>1 DEF Writing
<1>3. i \in 1 .. 4 /\ Head(todo[w]) = Written[i] /\ Tail(todo[w]) = SubSeq(Written, i + 1, 4)
  BY <1>2, Suffixes DEF WriteField
<1>4. Written[i] \in Field /\ i + 1 \in 1 .. 5
  BY <1>3, Lists
<1>5. config \in ConfigFile
  BY <1>1 DEF TypeOK, Maybe, Writing
<1>6. config' = [config EXCEPT ![Written[i]] = Value(w, Written[i])]
  BY <1>3 DEF WriteField
<1>7. \A g \in Field : config'[g] = IF g = Written[i] THEN Value(w, Written[i]) ELSE config[g]
  <2>1. \A g \in Field : Put(config, Written[i], Value(w, Written[i]))[g]
                           = IF g = Written[i] THEN Value(w, Written[i]) ELSE config[g]
    BY <1>4, <1>5, SetField
  <2> QED
    BY <1>6, <2>1 DEF Put
<1>8. config' \in ConfigFile
  <2>1. order[w].cpus \in Cpus /\ order[w].policy \in Policy
    BY <1>1 DEF TypeOK
  <2>2. Written[i] = "files" => config' \in ConfigFile
    BY <1>5, <1>6 DEF Value, ConfigFile
  <2>3. Written[i] = "cmdline" => config' \in ConfigFile
    BY <1>5, <1>6 DEF Value, ConfigFile, Maybe
  <2>4. Written[i] = "cpus" => config' \in ConfigFile
    BY <1>5, <1>6, <2>1 DEF Value, ConfigFile
  <2>5. Written[i] = "policy" => config' \in ConfigFile
    BY <1>5, <1>6, <2>1 DEF Value, ConfigFile
  <2> QED
    BY <1>4, <2>2, <2>3, <2>4, <2>5 DEF Field
<1>9. Others(w) \subseteq Launcher \cup {"vm", "tool"}
  BY DEF Others
<1>10. Tail(todo[w]) \in Left
  BY <1>3, <1>4 DEF Left
<1>11. TypeOK'
  <2>1. todo' \in [Launcher -> Left]
    <3>1. todo \in [Launcher -> Left]
      BY <1>1 DEF TypeOK, Left
    <3> QED
      BY <1>1, <1>10, <3>1 DEF WriteField
  <2>2. changed' \subseteq Launcher \cup {"vm", "tool"}
    BY <1>1, <1>9 DEF WriteField, TypeOK
  <2>3. UNCHANGED <<build, phase, order, opts, flags, vm, tool>>
    BY DEF WriteField
  <2> QED
    BY <1>1, <1>8, <2>1, <2>2, <2>3 DEF TypeOK, Maybe, Left
<1>12. /\ todo'[w] = SubSeq(Written, i + 1, 4) /\ phase' = phase /\ order' = order
       /\ config' # None
  <2>1. todo'[w] = Tail(todo[w]) /\ phase' = phase /\ order' = order
    BY <1>1 DEF WriteField, TypeOK
  <2>2. config' # None
    BY <1>8, NoneAssumption
  <2> QED
    BY <1>3, <2>1, <2>2
<1>13. w \notin changed' => w \notin changed
  BY DEF WriteField
<1>14. ASSUME w \notin changed, NEW j \in 1 .. 4, j < i + 1
       PROVE  config'[Written[j]] = Value(w, Written[j])
  <2>1. CASE j = i
    BY <1>4, <1>7, <2>1
  <2>2. CASE j < i
    <3>1. Written[j] \in Field /\ Written[j] # Written[i]
      BY <1>3, <2>2, Lists
    <3> QED
      BY <1>2, <1>7, <1>14, <2>2, <3>1
  <2> QED
    BY <1>14, <2>1, <2>2
<1>15. \A f : Value(w, f)' = Value(w, f)
  BY <1>12 DEF Value
<1>16. Writing(w)'
  BY <1>4, <1>12, <1>13, <1>14, <1>15 DEF Writing
<1>17. LaunchInv(w)'
  BY <1>1, <1>12, <1>16 DEF LaunchInv
<1>18. \A m \in Launcher \ {w} : todo'[m] = todo[m]
  BY <1>1 DEF WriteField, TypeOK
<1> QED
  BY <1>1, <1>11, <1>12, <1>17, <1>18, LauncherStep DEF WriteField

\* launch.sh has read its flags, and nothing of the file.
LEMMA LaunchStep ==
    ASSUME IInv, NEW l \in Launcher, NEW given \in Settings,
           phase[l] # "run", config # None, Launch(l, given),
           UNCHANGED <<build, config, order, vm, tool, changed>>,
           l \in Workflow =>
             /\ given = [NoFlags EXCEPT !.cpus = order[l].cpus]
             /\ l \notin changed => \A f \in Field : config[f] = Value(l, f)
    PROVE  IInv'
<1>1. TypeOK
  BY DEF IInv
<1>2. Preset(given) \in Settings
  BY PresetType
<1>3. Parsed \in Left
  BY Whole DEF Left
<1>4. TypeOK'
  <2>1. todo' \in [Launcher -> Left]
    <3>1. todo \in [Launcher -> Left]
      BY <1>1 DEF TypeOK, Left
    <3> QED
      BY <1>3, <3>1 DEF Launch
  <2>2. /\ opts' \in [Launcher -> Settings] /\ flags' \in [Launcher -> Settings]
        /\ phase' \in [Launcher -> {"idle", "copy", "write", "parse", "run"}]
    BY <1>1, <1>2 DEF Launch, TypeOK
  <2> QED
    BY <1>1, <2>1, <2>2 DEF TypeOK, Left
<1>5. /\ opts'[l] = Preset(given) /\ flags'[l] = given /\ phase'[l] = "parse"
      /\ todo'[l] = SubSeq(Parsed, 1, 4)
      /\ \A m \in Launcher \ {l} :
           /\ phase'[m] = phase[m] /\ todo'[m] = todo[m] /\ order'[m] = order[m]
           /\ opts'[m] = opts[m] /\ flags'[m] = flags[m]
  BY <1>1, Whole DEF Launch, TypeOK
<1>6. \A f : Value(l, f)' = Value(l, f)
  BY DEF Value
<1>7. Parsing(l)'
  <2>1. Preset(flags[l])' = Preset(given) /\ opts'[l] = Preset(given)
    BY <1>5 DEF Preset
  <2>2. \E i \in 1 .. 5 :
          /\ todo'[l] = SubSeq(Parsed, i, 4)
          /\ \A j \in 1 .. 4 : j >= i => opts'[l][Parsed[j]] = Preset(flags[l])'[Parsed[j]]
          /\ l \notin changed' =>
               \A j \in 1 .. 4 : j < i => opts'[l][Parsed[j]] = Chosen(flags[l], config, Parsed[j])'
    BY <1>5, <2>1
  <2>3. l \in Workflow =>
          /\ flags'[l] = [NoFlags EXCEPT !.cpus = order'[l].cpus]
          /\ l \notin changed' => \A f \in Field : config'[f] = Value(l, f)'
    BY <1>5, <1>6
  <2>4. config' # None /\ \A f \in Field :
          Preset(flags[l])'[f] # None => opts'[l][f] = Preset(flags[l])'[f]
    BY <2>1
  <2> QED
    BY <2>2, <2>3, <2>4 DEF Parsing
<1>8. LaunchInv(l)'
  BY <1>5, <1>7 DEF LaunchInv
<1> QED
  BY <1>4, <1>5, <1>8, LauncherStep

LEMMA LaunchWorkflowStep ==
    ASSUME IInv, NEW w \in Workflow, LaunchWorkflow(w)
    PROVE  IInv'
<1>1. w \in Launcher /\ TypeOK /\ phase[w] = "write" /\ todo[w] = <<>> /\ Writing(w)
  BY DEF Launcher, IInv, LaunchInv, LaunchWorkflow
<1>2. PICK i \in 1 .. 5 :
        /\ todo[w] = SubSeq(Written, i, 4)
        /\ w \notin changed =>
             \A j \in 1 .. 4 : j < i => config[Written[j]] = Value(w, Written[j])
  BY <1>1 DEF Writing
<1>3. i = 5
  BY <1>1, <1>2, Suffixes
<1>4. w \notin changed => \A f \in Field : config[f] = Value(w, f)
  BY <1>2, <1>3, Lists
<1>5. [NoFlags EXCEPT !.cpus = order[w].cpus] \in Settings
  BY <1>1 DEF NoFlags, Settings, Maybe, TypeOK
<1> QED
  BY <1>1, <1>4, <1>5, LaunchStep DEF LaunchWorkflow, Writing

LEMMA LaunchByHandStep ==
    ASSUME IInv, NEW h \in Hand, NEW cpus \in Maybe(Cpus), NEW cmdline \in Maybe(Workflow),
           NEW policy \in Maybe(Policy), LaunchByHand(h, cpus, cmdline, policy)
    PROVE  IInv'
<1>1. h \in Launcher /\ h \notin Workflow
  BY LaunchersAssumption DEF Launcher
<1>2. [NoFlags EXCEPT !.cpus = cpus, !.cmdline = cmdline, !.policy = policy] \in Settings
  BY DEF NoFlags, Settings, Maybe
<1> QED
  BY <1>1, <1>2, LaunchStep DEF LaunchByHand

\* A field that no flag has set is taken from the file.
LEMMA ParseFieldStep ==
    ASSUME IInv, NEW l \in Launcher, ParseField(l)
    PROVE  IInv'
<1>1. TypeOK /\ phase[l] = "parse" /\ Parsing(l)
  BY DEF IInv, LaunchInv, ParseField
<1>2. PICK i \in 1 .. 5 :
        /\ todo[l] = SubSeq(Parsed, i, 4)
        /\ \A j \in 1 .. 4 : j >= i => opts[l][Parsed[j]] = Preset(flags[l])[Parsed[j]]
        /\ l \notin changed =>
             \A j \in 1 .. 4 : j < i => opts[l][Parsed[j]] = Chosen(flags[l], config, Parsed[j])
  BY <1>1 DEF Parsing
<1>3. i \in 1 .. 4 /\ Head(todo[l]) = Parsed[i] /\ Tail(todo[l]) = SubSeq(Parsed, i + 1, 4)
  <2>1. todo[l] # <<>>
    BY DEF ParseField
  <2>2. i < 5
    BY <1>2, <2>1, Suffixes
  <2> QED
    BY <1>2, <2>2, Suffixes
<1>4. Parsed[i] \in Field /\ i + 1 \in 1 .. 5
  BY <1>3, Lists
<1>5. config \in ConfigFile /\ opts[l] \in Settings /\ flags[l] \in Settings
  BY <1>1 DEF TypeOK, Maybe, Parsing
<1>6. opts[l][Parsed[i]] = Preset(flags[l])[Parsed[i]]
  BY <1>2, <1>3
<1>7. /\ opts' \in [Launcher -> Settings]
      /\ \A m \in Launcher \ {l} : opts'[m] = opts[m]
      /\ \A g \in Field : opts'[l][g] =
           IF g = Parsed[i] THEN Chosen(flags[l], config, g) ELSE opts[l][g]
  <2>1. CASE opts[l][Parsed[i]] = None
    <3>1. opts' = [opts EXCEPT ![l] = [opts[l] EXCEPT ![Parsed[i]] = config[Parsed[i]]]]
      BY <1>3, <2>1 DEF ParseField
    <3>2. [opts[l] EXCEPT ![Parsed[i]] = config[Parsed[i]]] \in Settings
      BY <1>4, <1>5, SetType
    <3>3. /\ opts' \in [Launcher -> Settings]
          /\ \A m \in Launcher \ {l} : opts'[m] = opts[m]
          /\ opts'[l] = [opts[l] EXCEPT ![Parsed[i]] = config[Parsed[i]]]
      BY <1>1, <3>1, <3>2 DEF TypeOK
    <3>4. \A g \in Field : Put(opts[l], Parsed[i], config[Parsed[i]])[g]
                             = IF g = Parsed[i] THEN config[Parsed[i]] ELSE opts[l][g]
      BY <1>4, <1>5, SetField
    <3>5. \A g \in Field : opts'[l][g] = IF g = Parsed[i] THEN config[g] ELSE opts[l][g]
      BY <3>3, <3>4 DEF Put
    <3> QED
      BY <1>6, <2>1, <3>3, <3>5 DEF Chosen
  <2>2. CASE opts[l][Parsed[i]] # None
    BY <1>1, <1>3, <1>6, <2>2 DEF ParseField, Chosen, TypeOK
  <2> QED
    BY <2>1, <2>2
<1>8. UNCHANGED <<build, config, phase, order, flags, vm, tool, changed>>
  BY DEF ParseField
<1>9. Tail(todo[l]) \in Left
  BY <1>3, <1>4 DEF Left
<1>10. todo' \in [Launcher -> Left] /\ todo'[l] = SubSeq(Parsed, i + 1, 4)
       /\ \A m \in Launcher \ {l} : todo'[m] = todo[m]
  <2>1. todo \in [Launcher -> Left]
    BY <1>1 DEF TypeOK, Left
  <2> QED
    BY <1>3, <1>9, <2>1 DEF ParseField
<1>11. TypeOK'
  BY <1>1, <1>7, <1>8, <1>10 DEF TypeOK, Left
<1>12. \A f : Value(l, f)' = Value(l, f) /\ Chosen(flags[l], config, f)' = Chosen(flags[l], config, f)
  BY <1>8 DEF Value, Chosen
<1>13. Preset(flags[l])' = Preset(flags[l])
  BY <1>8 DEF Preset
<1>14. \A f \in Field : Preset(flags[l])[f] # None => opts'[l][f] = Preset(flags[l])[f]
  BY <1>1, <1>7 DEF Parsing, Chosen
<1>15. ASSUME NEW j \in 1 .. 4, j >= i + 1
       PROVE  opts'[l][Parsed[j]] = Preset(flags[l])[Parsed[j]]
  <2>1. Parsed[j] \in Field /\ Parsed[j] # Parsed[i] /\ j >= i
    BY <1>3, <1>15, Lists
  <2> QED
    BY <1>2, <1>7, <2>1
<1>16. ASSUME l \notin changed, NEW j \in 1 .. 4, j < i + 1
       PROVE  opts'[l][Parsed[j]] = Chosen(flags[l], config, Parsed[j])
  <2>1. CASE j = i
    BY <1>4, <1>7, <2>1
  <2>2. CASE j < i
    <3>1. Parsed[j] \in Field /\ Parsed[j] # Parsed[i]
      BY <1>3, <2>2, Lists
    <3> QED
      BY <1>2, <1>7, <1>16, <2>2, <3>1
  <2> QED
    BY <1>16, <2>1, <2>2
<1>17. \E k \in 1 .. 5 :
         /\ todo'[l] = SubSeq(Parsed, k, 4)
         /\ \A j \in 1 .. 4 : j >= k => opts'[l][Parsed[j]] = Preset(flags[l])'[Parsed[j]]
         /\ l \notin changed' =>
              \A j \in 1 .. 4 : j < k => opts'[l][Parsed[j]] = Chosen(flags[l], config, Parsed[j])'
  BY <1>4, <1>8, <1>10, <1>12, <1>13, <1>15, <1>16
<1>18. l \in Workflow =>
         /\ flags'[l] = [NoFlags EXCEPT !.cpus = order'[l].cpus]
         /\ l \notin changed' => \A f \in Field : config'[f] = Value(l, f)'
  BY <1>1, <1>8, <1>12 DEF Parsing
<1>19. Parsing(l)'
  BY <1>1, <1>8, <1>13, <1>14, <1>17, <1>18 DEF Parsing
<1>20. LaunchInv(l)'
  BY <1>1, <1>8, <1>19 DEF LaunchInv
<1>21. /\ UNCHANGED <<build, vm, tool>> /\ config' = config /\ changed \ {l} \subseteq changed'
       /\ \A m \in Launcher \ {l} :
            /\ phase'[m] = phase[m] /\ todo'[m] = todo[m] /\ order'[m] = order[m]
            /\ opts'[m] = opts[m] /\ flags'[m] = flags[m]
  BY <1>7, <1>8, <1>10
<1>22. phase[l] # "run"
  BY <1>1
<1> QED
  BY <1>11, <1>20, <1>21, <1>22, LauncherStep

\* A script that ends has nothing more to do.
LEMMA LeaveStep ==
    ASSUME IInv, NEW l \in Launcher, phase[l] # "run", Leave(l),
           UNCHANGED <<build, config, vm, tool>>
    PROVE  IInv'
<1>1. TypeOK
  BY DEF IInv
<1>2. <<>> \in Left /\ NoFlags \in Settings /\ NoOrder \in [cpus : Cpus, policy : Policy]
  <2>1. <<>> \in Left
    BY Whole DEF Left
  <2> QED
    BY <2>1, DefaultsAssumption DEF NoFlags, Settings, Maybe, NoOrder
<1>3. TypeOK'
  <2>1. todo' \in [Launcher -> Left]
    <3>1. todo \in [Launcher -> Left]
      BY <1>1 DEF TypeOK, Left
    <3> QED
      BY <1>2, <3>1 DEF Leave
  <2> QED
    BY <1>1, <1>2, <2>1 DEF Leave, TypeOK, Left
<1>4. phase'[l] = "idle"
  BY <1>1 DEF Leave, TypeOK
<1>5. LaunchInv(l)'
  BY <1>4 DEF LaunchInv
<1>6. /\ config' = config /\ changed \ {l} \subseteq changed'
      /\ \A m \in Launcher \ {l} :
           /\ phase'[m] = phase[m] /\ todo'[m] = todo[m] /\ order'[m] = order[m]
           /\ opts'[m] = opts[m] /\ flags'[m] = flags[m]
  BY <1>1 DEF Leave, TypeOK
<1> QED
  BY <1>3, <1>5, <1>6, LauncherStep

------------------------------------------------------------------------------
(* The VM.                                                                 *)

\* QEMU starts with what launch.sh has gathered.
LEMMA StartVMStep ==
    ASSUME IInv, NEW l \in Launcher, StartVM(l)
    PROVE  IInv'
<1>1. TypeOK /\ phase[l] = "parse" /\ Parsing(l) /\ vm = None /\ l # "vm" /\ l # "tool"
  BY LaunchersAssumption DEF IInv, LaunchInv, StartVM
<1>2. UNCHANGED <<build, config, todo, order, tool>>
  BY DEF StartVM
<1>3. flags[l] \in Settings /\ opts[l] \in Settings /\ config \in ConfigFile
  BY <1>1 DEF TypeOK, Parsing, Maybe
<1>4. \A f \in Field : Preset(flags[l])[f] # None => opts[l][f] = Preset(flags[l])[f]
  BY <1>1 DEF Parsing
<1>5. l \notin changed => \A f \in Field : opts[l][f] = Chosen(flags[l], config, f)
  <2>1. PICK i \in 1 .. 5 :
          /\ todo[l] = SubSeq(Parsed, i, 4)
          /\ l \notin changed =>
               \A j \in 1 .. 4 : j < i => opts[l][Parsed[j]] = Chosen(flags[l], config, Parsed[j])
    BY <1>1 DEF Parsing
  <2>2. todo[l] = <<>>
    BY DEF StartVM
  <2>3. i = 5
    BY <2>1, <2>2, Suffixes
  <2> QED
    BY <2>1, <2>3, Lists
<1>6. opts[l].cpus = Preset(flags[l]).cpus /\ opts[l].cpus \in Cpus /\ opts[l].policy \in Policy
  <2>1. Preset(flags[l]).cpus \in Cpus
    BY <1>3, PresetType
  <2>2. opts[l].cpus = Preset(flags[l]).cpus
    BY <1>4, <2>1, NoneAssumption DEF Field
  <2>3. opts[l].policy \in Policy
    BY <1>3 DEF StartVM, Settings, Maybe
  <2> QED
    BY <2>1, <2>2, <2>3
<1>7. /\ vm' = [by |-> l, flags |-> flags[l], measured |-> Measure(opts[l])]
      /\ Measure(opts[l]) \in Measured
  BY <1>1, <1>3, <1>6 DEF StartVM, Measure, Measured, Settings, TypeOK
<1>8. vm' \in VM /\ vm' # None /\ vm'.by = l /\ vm'.flags = flags[l]
      /\ vm'.measured = Measure(opts[l])
  BY <1>3, <1>7, NoneAssumption DEF VM
<1>9. changed' = changed \/ changed' = changed \ {"vm"} \/ changed' = changed \cup {"vm"}
  BY DEF StartVM
<1>10. "vm" \in changed' <=> l \in changed
  BY <1>1 DEF StartVM
<1>11. TypeOK'
  <2>1. /\ phase' \in [Launcher -> {"idle", "copy", "write", "parse", "run"}]
        /\ opts' \in [Launcher -> Settings] /\ flags' \in [Launcher -> Settings]
    <3>1. NoFlags \in Settings
      BY DEF NoFlags, Settings, Maybe
    <3> QED
      BY <1>1, <3>1 DEF StartVM, TypeOK
  <2> QED
    BY <1>1, <1>2, <1>8, <1>9, <2>1 DEF TypeOK, Maybe
<1>12. /\ phase'[l] = "run"
       /\ \A m \in Launcher \ {l} :
            phase'[m] = phase[m] /\ opts'[m] = opts[m] /\ flags'[m] = flags[m]
  BY <1>1 DEF StartVM, TypeOK
<1>13. \A m \in Launcher \ {l} : LaunchInv(m)'
  <2> SUFFICES ASSUME NEW m \in Launcher \ {l}
               PROVE  LaunchInv(m)'
    OBVIOUS
  <2>1. m # "vm" /\ LaunchInv(m) /\ phase[m] # "run"
    BY <1>1, LaunchersAssumption DEF IInv, LaunchInv
  <2> QED
    BY <1>2, <1>9, <1>12, <2>1, LaunchAside
<1>14. LaunchInv(l)'
  BY <1>8, <1>12 DEF LaunchInv
<1>15. FlagsAgree(flags[l], Measure(opts[l]))
  <2>1. /\ flags[l].cmdline # None => opts[l].cmdline = flags[l].cmdline
        /\ flags[l].policy # None => opts[l].policy = flags[l].policy
    BY <1>3, <1>4, PresetType DEF Field
  <2> QED
    BY <1>6, <2>1 DEF FlagsAgree, Measure
<1>16. ASSUME l \notin changed
       PROVE  AsConfigured(vm)'
  <2>1. \A f \in Field \ {"files"} : Measure(opts[l])[f] = opts[l][f]
    BY DEF Measure, Field
  <2>2. \A f \in Field \ {"files"} : vm'.measured[f] = Chosen(vm'.flags, config', f)
    BY <1>2, <1>5, <1>8, <1>16, <2>1
  <2>3. vm'.measured.content = build'
    BY <1>2, <1>8 DEF Measure
  <2>4. ASSUME l \in Workflow
        PROVE  FlagsAgree(flags[l], Measure(config))
    <3>1. /\ flags[l] = [NoFlags EXCEPT !.cpus = order[l].cpus]
          /\ config.cpus = order[l].cpus /\ order[l].cpus \in Cpus
      BY <1>1, <1>16, <2>4 DEF Parsing, Field, Value, TypeOK
    <3>2. /\ flags[l].cpus = config.cpus /\ flags[l].cmdline = None
          /\ flags[l].policy = None /\ flags[l].cpus # None
      BY <3>1, NoneAssumption DEF NoFlags
    <3> QED
      BY <1>3, <3>2, PresetType DEF FlagsAgree, Measure
  <2>5. Measure(config)' = Measure(config)
    BY <1>2 DEF Measure
  <2> QED
    BY <1>2, <1>3, <1>8, <2>2, <2>3, <2>4, <2>5, NoneAssumption DEF AsConfigured
<1>17. RunningVM'
  BY <1>8, <1>10, <1>12, <1>15, <1>16 DEF RunningVM
<1>18. Tool'
  BY <1>2, <1>9 DEF IInv, Tool, AsConfigured, Measure
<1>19. VMAsOrdered'
  <2>1. ASSUME l \in Workflow, l \notin changed
        PROVE  /\ opts[l].cmdline = l
               /\ opts[l].cpus = order[l].cpus /\ opts[l].policy = order[l].policy
    <3>1. /\ flags[l] = [NoFlags EXCEPT !.cpus = order[l].cpus]
          /\ config.cmdline = l /\ config.policy = order[l].policy
          /\ order[l].cpus \in Cpus
      BY <1>1, <2>1 DEF Parsing, Field, Value, TypeOK
    <3>2. /\ flags[l].cpus = order[l].cpus /\ flags[l].cpus # None
          /\ flags[l].cmdline = None /\ flags[l].policy = None
      BY <3>1, NoneAssumption DEF NoFlags
    <3>3. /\ Preset(flags[l]).cpus = order[l].cpus
          /\ Preset(flags[l]).cmdline = None /\ Preset(flags[l]).policy = None
      BY <1>3, <3>2, PresetType
    <3>4. /\ opts[l].cmdline = Chosen(flags[l], config, "cmdline")
          /\ opts[l].policy = Chosen(flags[l], config, "policy")
      BY <1>5, <2>1 DEF Field
    <3> QED
      BY <1>6, <3>1, <3>3, <3>4 DEF Chosen
  <2>2. l \notin changed' => l \notin changed
    BY <1>1, <1>9
  <2> QED
    BY <1>2, <1>8, <2>1, <2>2 DEF VMAsOrdered, Measure
<1> QED
  BY <1>11, <1>13, <1>14, <1>17, <1>18, <1>19 DEF IInv

LEMMA StopVMStep ==
    ASSUME IInv, StopVM
    PROVE  IInv'
<1>1. TypeOK /\ vm \in VM /\ vm.by \in Launcher /\ phase[vm.by] = "run"
  BY DEF StopVM, IInv, RunningVM, TypeOK, Maybe, VM
<1>2. UNCHANGED <<build, config, todo, opts, flags, tool>> /\ vm' = None
  BY DEF StopVM
<1>3. TypeOK'
  BY <1>1, <1>2, DefaultsAssumption DEF StopVM, TypeOK, NoOrder, Maybe
<1>4. ASSUME NEW l \in Launcher
      PROVE  LaunchInv(l)'
  <2>1. CASE l = vm.by
    <3>1. phase'[l] = "idle"
      BY <1>1, <2>1 DEF StopVM, TypeOK
    <3> QED
      BY <3>1 DEF LaunchInv
  <2>2. CASE l # vm.by
    <3>1. phase'[l] = phase[l] /\ order'[l] = order[l]
      BY <1>1, <2>2 DEF StopVM, TypeOK
    <3>2. LaunchInv(l) /\ phase[l] # "run" /\ l # "vm"
      BY <2>2, LaunchersAssumption DEF IInv, LaunchInv
    <3>3. l \in changed => l \in changed'
      BY <2>2, <3>2 DEF StopVM
    <3> QED
      BY <1>2, <3>1, <3>2, <3>3, LaunchAside
  <2> QED
    BY <2>1, <2>2
<1>5. "tool" \in changed => "tool" \in changed'
  BY <1>1, LaunchersAssumption DEF StopVM
<1>6. Tool'
  BY <1>2, <1>5 DEF IInv, Tool, AsConfigured, Measure
<1>7. RunningVM' /\ VMAsOrdered'
  BY <1>2 DEF RunningVM, VMAsOrdered
<1> QED
  BY <1>3, <1>4, <1>6, <1>7 DEF IInv

------------------------------------------------------------------------------
(* The files and the tool.                                                 *)

LEMMA RebuildStep ==
    ASSUME IInv, Rebuild
    PROVE  IInv'
<1>1. TypeOK
  BY DEF IInv
<1>2. UNCHANGED <<config, phase, todo, order, opts, flags, vm, tool>>
  BY DEF Rebuild, launcherVars
<1>3. /\ changed \subseteq changed' /\ changed' \subseteq changed \cup {"vm", "tool"}
      /\ vm # None => "vm" \in changed'
      /\ tool.phase # "idle" => "tool" \in changed'
  BY DEF Rebuild
<1>4. build' \in 0 .. MaxBuild
  BY <1>1, MaxBuildAssumption DEF Rebuild, TypeOK
<1>5. TypeOK'
  BY <1>1, <1>2, <1>3, <1>4 DEF TypeOK
<1>6. \A l \in Launcher : LaunchInv(l)'
  BY <1>2, <1>3, LaunchAside DEF IInv
<1>7. RunningVM'
  BY <1>2, <1>3 DEF IInv, RunningVM
<1>8. Tool'
  BY <1>2, <1>3 DEF IInv, Tool, IdleTool
<1>9. VMAsOrdered'
  BY <1>2, <1>3 DEF IInv, VMAsOrdered
<1> QED
  BY <1>5, <1>6, <1>7, <1>8, <1>9 DEF IInv

\* A step of the tool disturbs no launcher and no VM.
LEMMA ToolStep ==
    ASSUME IInv, UNCHANGED <<build, config, phase, todo, order, opts, flags, vm>>,
           changed \ {"tool"} \subseteq changed', changed' \subseteq changed \cup {"tool"},
           Tool',
           tool' \in [phase : {"idle", "hash", "fetch", "done"}, workflow : Maybe(Workflow),
                      expected : Maybe(Measured), vm : Maybe(VM),
                      verdict : {"none", "Ok", "PolicyMismatch", "LaunchDigestMismatch"}]
    PROVE  IInv'
<1>1. TypeOK'
  BY DEF IInv, TypeOK
<1>2. \A l \in Launcher : l \in changed => l \in changed'
  BY LaunchersAssumption
<1>3. \A l \in Launcher : LaunchInv(l)'
  BY <1>2, LaunchAside DEF IInv
<1>4. "vm" \in changed => "vm" \in changed'
  OBVIOUS
<1>5. RunningVM'
  BY <1>4 DEF IInv, RunningVM, AsConfigured, Measure
<1>6. VMAsOrdered'
  <2>1. Workflow \subseteq Launcher
    BY DEF Launcher
  <2> QED
    BY <1>2, <2>1 DEF IInv, VMAsOrdered
<1> QED
  BY <1>1, <1>3, <1>5, <1>6 DEF IInv

LEMMA StartToolStep ==
    ASSUME IInv, NEW w \in Workflow, StartTool(w)
    PROVE  IInv'
<1>1. UNCHANGED <<build, config, phase, todo, order, opts, flags, vm, changed>>
  BY DEF StartTool, launcherVars
<1>2. /\ tool'.phase \in {"hash", "fetch"} /\ tool'.workflow = w
      /\ tool'.vm = None /\ tool'.expected = None /\ tool'.verdict = "none"
      /\ tool' = [phase |-> tool'.phase, workflow |-> w, expected |-> None,
                  vm |-> None, verdict |-> "none"]
  BY DEF StartTool, IdleTool
<1>3. Tool'
  BY <1>2 DEF Tool
<1> QED
  BY <1>1, <1>2, <1>3, ToolStep DEF Maybe

\* What the tool has computed is what the file says now.
LEMMA HashConfigStep ==
    ASSUME IInv, HashConfig
    PROVE  IInv'
<1>1. TypeOK /\ Tool /\ tool.phase = "hash" /\ config # None
  BY DEF HashConfig, IInv
<1>2. UNCHANGED <<build, config, phase, todo, order, opts, flags, vm, changed>>
  BY DEF HashConfig, launcherVars
<1>3. Expected \in Measured /\ Expected # None
  BY <1>1, NoneAssumption DEF TypeOK, Maybe, Expected, Measure, Measured, ConfigFile
<1>4. /\ tool'.vm = tool.vm /\ tool'.expected = Expected /\ tool'.workflow = tool.workflow
      /\ tool'.phase = (IF tool.vm = None THEN "fetch" ELSE "done")
      /\ tool'.verdict = (IF tool.vm = None THEN tool.verdict
                          ELSE Verdict(Expected, tool.vm.measured))
      /\ tool' = [phase |-> tool'.phase, workflow |-> tool.workflow, expected |-> Expected,
                  vm |-> tool.vm, verdict |-> tool'.verdict]
  <2>1. tool = [phase |-> tool.phase, workflow |-> tool.workflow, expected |-> tool.expected,
                vm |-> tool.vm, verdict |-> tool.verdict]
    BY <1>1 DEF TypeOK
  <2>2. CASE tool.vm = None
    <3>1. tool' = [tool EXCEPT !.expected = Expected, !.phase = "fetch"]
      BY <2>2 DEF HashConfig
    <3>2. tool' = [phase |-> "fetch", workflow |-> tool.workflow, expected |-> Expected,
                   vm |-> tool.vm, verdict |-> tool.verdict]
      BY <2>1, <3>1
    <3> QED
      BY <2>2, <3>2
  <2>3. CASE tool.vm # None
    <3>1. tool' = [tool EXCEPT !.expected = Expected, !.phase = "done",
                               !.verdict = Verdict(Expected, tool.vm.measured)]
      BY <2>3 DEF HashConfig
    <3>2. tool' = [phase |-> "done", workflow |-> tool.workflow, expected |-> Expected,
                   vm |-> tool.vm, verdict |-> Verdict(Expected, tool.vm.measured)]
      BY <2>1, <3>1
    <3> QED
      BY <2>3, <3>2
  <2> QED
    BY <2>2, <2>3
<1>5. Expected' = Expected
  BY <1>2 DEF Expected, Measure
<1>6. Tool'
  <2>1. /\ tool'.vm # None => FlagsAgree(tool.vm.flags, tool.vm.measured)
        /\ tool'.vm # None /\ "tool" \notin changed' => AsConfigured(tool.vm)
    BY <1>1, <1>2, <1>4 DEF Tool
  <2>2. AsConfigured(tool.vm) => AsConfigured(tool.vm)'
    BY <1>2, <1>4 DEF AsConfigured, Measure
  <2>3. config' # None /\ tool'.expected = Measure(config)'
    BY <1>1, <1>2, <1>4, <1>5 DEF Expected
  <2>4. /\ tool'.phase # "done" => tool'.verdict = "none"
        /\ tool'.phase = "done" =>
             /\ tool'.vm # None /\ tool'.expected # None
             /\ tool'.verdict = Verdict(tool'.expected, tool'.vm.measured)
        /\ tool'.phase # "idle"
    BY <1>1, <1>3, <1>4 DEF Tool
  <2>5. /\ tool'.vm # None => FlagsAgree(tool'.vm.flags, tool'.vm.measured)
        /\ tool'.vm # None /\ "tool" \notin changed' => AsConfigured(tool.vm)'
    BY <1>4, <2>1, <2>2
  <2> QED
    BY <2>3, <2>4, <2>5 DEF Tool
<1>7. Verdict(Expected, tool.vm.measured) \in {"Ok", "PolicyMismatch", "LaunchDigestMismatch"}
  BY DEF Verdict
<1>8. tool' \in [phase : {"idle", "hash", "fetch", "done"}, workflow : Maybe(Workflow),
                 expected : Maybe(Measured), vm : Maybe(VM),
                 verdict : {"none", "Ok", "PolicyMismatch", "LaunchDigestMismatch"}]
  <2>1. tool.workflow \in Maybe(Workflow) /\ tool.vm \in Maybe(VM)
        /\ tool.verdict \in {"none", "Ok", "PolicyMismatch", "LaunchDigestMismatch"}
    BY <1>1 DEF TypeOK
  <2>2. Expected \in Maybe(Measured)
    BY <1>3 DEF Maybe
  <2> QED
    BY <1>4, <1>7, <2>1, <2>2
<1> QED
  BY <1>2, <1>6, <1>8, ToolStep

\* The report is that of the VM that runs, and as good.
LEMMA FetchReportStep ==
    ASSUME IInv, FetchReport
    PROVE  IInv'
<1>1. TypeOK /\ Tool /\ RunningVM /\ tool.phase = "fetch" /\ vm # None /\ vm \in VM
  BY DEF FetchReport, IInv, TypeOK, Maybe
<1>2. /\ UNCHANGED <<build, config, phase, todo, order, opts, flags, vm>>
      /\ changed' = changed \cup (IF "vm" \in changed THEN {"tool"} ELSE {})
  BY DEF FetchReport, launcherVars
<1>3. /\ tool'.vm = vm /\ tool'.expected = tool.expected /\ tool'.workflow = tool.workflow
      /\ tool'.phase = (IF tool.expected = None THEN "hash" ELSE "done")
      /\ tool'.verdict = (IF tool.expected = None THEN tool.verdict
                          ELSE Verdict(tool.expected, vm.measured))
      /\ tool' = [phase |-> tool'.phase, workflow |-> tool.workflow,
                  expected |-> tool.expected, vm |-> vm, verdict |-> tool'.verdict]
  <2>1. tool = [phase |-> tool.phase, workflow |-> tool.workflow, expected |-> tool.expected,
                vm |-> tool.vm, verdict |-> tool.verdict]
    BY <1>1 DEF TypeOK
  <2>2. CASE tool.expected = None
    <3>1. tool' = [tool EXCEPT !.vm = vm, !.phase = "hash"]
      BY <2>2 DEF FetchReport
    <3>2. tool' = [phase |-> "hash", workflow |-> tool.workflow, expected |-> tool.expected,
                   vm |-> vm, verdict |-> tool.verdict]
      BY <2>1, <3>1
    <3> QED
      BY <2>2, <3>2
  <2>3. CASE tool.expected # None
    <3>1. tool' = [tool EXCEPT !.vm = vm, !.phase = "done",
                               !.verdict = Verdict(tool.expected, vm.measured)]
      BY <2>3 DEF FetchReport
    <3>2. tool' = [phase |-> "done", workflow |-> tool.workflow, expected |-> tool.expected,
                   vm |-> vm, verdict |-> Verdict(tool.expected, vm.measured)]
      BY <2>1, <3>1
    <3> QED
      BY <2>3, <3>2
  <2> QED
    BY <2>2, <2>3
<1>4. Tool'
  <2>1. /\ FlagsAgree(vm.flags, vm.measured)
        /\ "tool" \notin changed' => AsConfigured(vm)
    BY <1>1, <1>2 DEF RunningVM
  <2>2. AsConfigured(vm) => AsConfigured(tool.vm)'
    BY <1>2, <1>3 DEF AsConfigured, Measure
  <2>3. tool.expected # None /\ "tool" \notin changed' =>
          config' # None /\ tool'.expected = Measure(config)'
    BY <1>1, <1>2, <1>3 DEF Tool, Measure
  <2> QED
    BY <1>1, <1>3, <2>1, <2>2, <2>3 DEF Tool
<1>5. Verdict(tool.expected, vm.measured) \in {"Ok", "PolicyMismatch", "LaunchDigestMismatch"}
  BY DEF Verdict
<1>6. tool' \in [phase : {"idle", "hash", "fetch", "done"}, workflow : Maybe(Workflow),
                 expected : Maybe(Measured), vm : Maybe(VM),
                 verdict : {"none", "Ok", "PolicyMismatch", "LaunchDigestMismatch"}]
  <2>1. tool.workflow \in Maybe(Workflow) /\ tool.expected \in Maybe(Measured)
        /\ vm \in Maybe(VM)
        /\ tool.verdict \in {"none", "Ok", "PolicyMismatch", "LaunchDigestMismatch"}
    BY <1>1 DEF TypeOK
  <2> QED
    BY <1>3, <1>5, <2>1
<1> QED
  BY <1>2, <1>4, <1>6, ToolStep

LEMMA EndToolStep ==
    ASSUME IInv, EndTool
    PROVE  IInv'
<1>1. /\ UNCHANGED <<build, config, phase, todo, order, opts, flags, vm>>
      /\ tool' = IdleTool /\ changed' = changed \ {"tool"}
  BY DEF EndTool, launcherVars
<1>2. Tool'
  BY <1>1 DEF Tool, IdleTool
<1> QED
  BY <1>1, <1>2, ToolStep DEF IdleTool, Maybe

------------------------------------------------------------------------------
(* The theorems.                                                           *)

LEMMA InitInv == Init => IInv
<1> SUFFICES ASSUME Init
             PROVE  IInv
  OBVIOUS
<1>1. <<>> \in Left /\ NoFlags \in Settings /\ NoOrder \in [cpus : Cpus, policy : Policy]
  <2>1. <<>> \in Left
    BY Whole DEF Left
  <2> QED
    BY <2>1, DefaultsAssumption DEF NoFlags, Settings, Maybe, NoOrder
<1>2. TypeOK
  BY <1>1, MaxBuildAssumption DEF Init, TypeOK, Left, Maybe, IdleTool
<1>3. \A l \in Launcher : LaunchInv(l)
  BY DEF Init, LaunchInv
<1>4. RunningVM /\ Tool /\ VMAsOrdered
  BY DEF Init, RunningVM, Tool, VMAsOrdered, IdleTool
<1> QED
  BY <1>2, <1>3, <1>4 DEF IInv

LEMMA NextInv == IInv /\ [Next]_vars => IInv'
<1> SUFFICES ASSUME IInv, [Next]_vars
             PROVE  IInv'
  OBVIOUS
<1>1. CASE UNCHANGED vars
  <2>1. /\ UNCHANGED <<build, config, phase, todo, order, opts, flags, vm>>
        /\ tool' = tool /\ changed' = changed
    BY <1>1 DEF vars, launcherVars
  <2>2. Tool'
    BY <2>1 DEF IInv, Tool, AsConfigured, Measure
  <2> QED
    BY <2>1, <2>2, ToolStep DEF IInv, TypeOK
<1>2. ASSUME NEW w \in Workflow, NEW o \in [cpus : Cpus, policy : Policy], StartWorkflow(w, o)
      PROVE  IInv'
  BY <1>2, StartWorkflowStep
<1>3. ASSUME NEW w \in Workflow, CopyTemplate(w)
      PROVE  IInv'
  BY <1>3, CopyTemplateStep
<1>4. ASSUME NEW w \in Workflow, WriteField(w)
      PROVE  IInv'
  BY <1>4, WriteFieldStep
<1>5. ASSUME NEW w \in Workflow, LaunchWorkflow(w)
      PROVE  IInv'
  BY <1>5, LaunchWorkflowStep
<1>6. ASSUME NEW w \in Workflow, StartTool(w)
      PROVE  IInv'
  BY <1>6, StartToolStep
<1>7. ASSUME NEW h \in Hand, NEW cpus \in Maybe(Cpus), NEW cmdline \in Maybe(Workflow),
             NEW policy \in Maybe(Policy), LaunchByHand(h, cpus, cmdline, policy)
      PROVE  IInv'
  BY <1>7, LaunchByHandStep
<1>8. ASSUME NEW l \in Launcher, ParseField(l)
      PROVE  IInv'
  BY <1>8, ParseFieldStep
<1>9. ASSUME NEW l \in Launcher, StartVM(l)
      PROVE  IInv'
  BY <1>9, StartVMStep
<1>10. ASSUME NEW l \in Launcher, StartVMFails(l)
       PROVE  IInv'
  BY <1>10, LeaveStep DEF StartVMFails
<1>11. ASSUME NEW l \in Launcher, Stop(l)
       PROVE  IInv'
  BY <1>11, LeaveStep DEF Stop
<1>12. CASE StopVM
  BY <1>12, StopVMStep
<1>13. CASE Rebuild
  BY <1>13, RebuildStep
<1>14. CASE HashConfig
  BY <1>14, HashConfigStep
<1>15. CASE FetchReport
  BY <1>15, FetchReportStep
<1>16. CASE EndTool
  BY <1>16, EndToolStep
<1> QED
  BY <1>1, <1>2, <1>3, <1>4, <1>5, <1>6, <1>7, <1>8, <1>9, <1>10, <1>11, <1>12,
     <1>13, <1>14, <1>15, <1>16 DEF Next

LEMMA Inductive == Spec => []IInv
BY InitInv, NextInv, PTL DEF Spec

\* Every variable has its type, whatever make, the shell and the tool do in
\* whatever order (create-vm-config.sh, launch.sh, the client).
THEOREM TypeCorrect == Spec => []TypeOK
<1>1. IInv => TypeOK
  BY DEF IInv
<1> QED
  BY <1>1, Inductive, PTL

\* A workflow's VM runs the command line, the number of CPUs and the policy its
\* make was given, however often another make was interrupted half way through
\* the file, as long as nobody writes to it while this one uses it.
THEOREM AsOrdered == Spec => []VMAsOrdered
<1>1. IInv => VMAsOrdered
  BY DEF IInv
<1> QED
  BY <1>1, Inductive, PTL

\* What the tool computes from the file and what it finds in the report agree
\* if the file and the measured files have not changed and no flag of launch.sh
\* contradicts the file.
LEMMA UnchangedEqual ==
    ASSUME TypeOK, Tool, tool.phase = "done", "tool" \notin changed,
           tool.vm.by \in Workflow \/ FlagsAgree(tool.vm.flags, tool.expected)
    PROVE  tool.expected = tool.vm.measured
<1> DEFINE v == tool.vm
<1>1. /\ v \in VM /\ AsConfigured(v) /\ config \in ConfigFile
      /\ tool.expected = Measure(config)
  BY DEF Tool, TypeOK, Maybe, AsConfigured
<1>2. FlagsAgree(v.flags, Measure(config))
  BY <1>1 DEF AsConfigured
<1>3. v.flags \in Settings /\ v.measured \in Measured
  BY <1>1 DEF VM
<1>4. /\ v.measured.content = build
      /\ v.measured.cmdline = Chosen(v.flags, config, "cmdline")
      /\ v.measured.cpus = Chosen(v.flags, config, "cpus")
      /\ v.measured.policy = Chosen(v.flags, config, "policy")
  BY <1>1 DEF AsConfigured, Field
<1>5. /\ v.measured.cmdline = config.cmdline
      /\ v.measured.cpus = config.cpus
      /\ v.measured.policy = config.policy
  BY <1>2, <1>3, <1>4, PresetType DEF FlagsAgree, Measure, Chosen
<1> QED
  BY <1>1, <1>3, <1>4, <1>5 DEF Measure, Measured

\* No genuine VM is refused without reason: neither the order in which report
\* and digest are obtained, nor another launch, nor a stopped VM makes the tool
\* report a mismatch when nothing that it depends on has changed.
THEOREM Accepted == Spec => []AcceptedUnlessChanged
<1>1. IInv => AcceptedUnlessChanged
  <2> SUFFICES ASSUME IInv, tool.phase = "done", "tool" \notin changed,
                      tool.vm.by \in Workflow \/ FlagsAgree(tool.vm.flags, tool.expected)
               PROVE  tool.verdict = "Ok"
    BY DEF AcceptedUnlessChanged
  <2>1. TypeOK /\ Tool
    BY DEF IInv
  <2>2. tool.expected = tool.vm.measured
    BY <2>1, UnchangedEqual
  <2> QED
    BY <2>1, <2>2 DEF Tool, Verdict
<1> QED
  BY <1>1, Inductive, PTL

\* A VM launched with flags is accepted only if the file says what the flags
\* said, whether or not anything has changed in between.
THEOREM FlagsNoticed == Spec => []AcceptedFlagsAgree
<1>1. IInv => AcceptedFlagsAgree
  <2> SUFFICES ASSUME IInv, tool.verdict = "Ok"
               PROVE  FlagsAgree(tool.vm.flags, tool.expected)
    BY DEF AcceptedFlagsAgree
  <2>1. Tool /\ TypeOK
    BY DEF IInv
  <2>2. tool.phase = "done"
    BY <2>1 DEF Tool
  <2>3. tool.verdict = Verdict(tool.expected, tool.vm.measured)
        /\ FlagsAgree(tool.vm.flags, tool.vm.measured)
    BY <2>1, <2>2 DEF Tool
  <2>4. tool.expected = tool.vm.measured
    BY <2>3 DEF Verdict
  <2> QED
    BY <2>3, <2>4
<1> QED
  BY <1>1, Inductive, PTL
==============================================================================
