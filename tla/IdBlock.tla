------------------------------- MODULE IdBlock -------------------------------
(***************************************************************************)
(* The optional id block and its authentication block: idblock-generator   *)
(* writes them to two files, launch.sh passes the files to QEMU, whose VM  *)
(* starts only if the firmware accepts them, and the client or             *)
(* verify_report checks the VM's report against the same files.            *)
(*                                                                         *)
(* Generator, launch script and tool read and write the files one call at  *)
(* a time, fail, are killed and overlap, while the owner edits the vm      *)
(* config and chooses other keys.                                          *)
(***************************************************************************)
CONSTANTS
    Gen,        \* the runs of the generator, each at its own time
    Digest,     \* launch digests, that is, what is measured
    Ids,        \* family and image id
    Policy,     \* guest policies; the firmware's default is one of them
    DefaultPolicy,
    IdKey,      \* the keys that sign an id block
    AuthorKey,  \* the keys that sign an id key
    None        \* "nothing": no VM, an empty or a missing file, no option

\* A vm config, and what the firmware lets a VM be.
Definition == [ld : Digest, policy : Policy, ids : Ids]
Keys == [id_key : IdKey, author_key : AuthorKey]

\* The two files' contents.  Both signatures in an auth block, the id key's of
\* the id block and the author key's of the id key, fit no other block and key.
Block == Definition
AuthBlock == [signed : Definition, keys : Keys]

ASSUME DefaultPolicyAssumption == DefaultPolicy \in Policy
ASSUME NoneAssumption == None \notin Gen \cup Definition \cup AuthBlock \cup Keys
ASSUME GenAssumption == Gen \cap {"launch", "tool"} = {}    \* see intact

VARIABLES
    def,        \* the vm config and the files it names
    id_block,   \* id-block.base64
    auth_block, \* auth-block.base64
    gen,        \* the generator runs
    launch,     \* launch.sh: where it is, and what it has read
    vm,         \* the running VM, as its report describes it
    tool,       \* the client or verify_report
    intact      \* history: who has seen no file change and no edit since it
                \*   began: generator runs, "launch" until the VM is replaced,
                \*   and "tool"

files == <<id_block, auth_block>>
vars == <<def, files, gen, launch, vm, tool, intact>>

Idle == [pc |-> "idle", def |-> None, keys |-> None]

------------------------------------------------------------------------------
(* The owner.                                                              *)

\* The vm config, or a file it names, is changed.
Edit(d) ==
    /\ d # def
    /\ def' = d
    /\ intact' = {}
    /\ UNCHANGED <<files, gen, launch, vm, tool>>

------------------------------------------------------------------------------
(* idblock-generator.                                                      *)

Unfinished == {"create_auth", "write_auth", "create_id", "write_id"}

Goto(g, from, to) ==
    /\ gen[g].pc = from
    /\ gen' = [gen EXCEPT ![g].pc = to]
    /\ UNCHANGED <<def, launch, vm, tool>>

\* Mutant: the policy is left out, and the default takes its place.
Computed_NoPolicy(d) == [d EXCEPT !.policy = DefaultPolicy]

\* compute_id_block(): the digest, the ids and the policy of the vm config.
Computed(d) == d

\* The config is read, and both blocks are computed and signed.
Generate(g, k) ==
    /\ gen[g].pc = "idle"
    /\ gen' = [gen EXCEPT ![g] =
                [pc |-> "create_auth", def |-> Computed(def), keys |-> k]]
    /\ intact' = intact \cup {g}
    /\ UNCHANGED <<def, files, launch, vm, tool>>

\* File::create() and write_all() for the auth block, then for the id block.
CreateAuth(g) ==
    /\ Goto(g, "create_auth", "write_auth")
    /\ auth_block' = None
    /\ intact' = intact \cap {g}
    /\ UNCHANGED id_block

WriteAuth(g) ==
    /\ Goto(g, "write_auth", "create_id")
    /\ auth_block' = [signed |-> gen[g].def, keys |-> gen[g].keys]
    /\ intact' = intact \cap {g}
    /\ UNCHANGED id_block

CreateId(g) ==
    /\ Goto(g, "create_id", "write_id")
    /\ id_block' = None
    /\ intact' = intact \cap {g}
    /\ UNCHANGED auth_block

\* Mutant: the auth block is written to both files.
WriteId_Swapped(g) ==
    /\ Goto(g, "write_id", "exit_0")
    /\ id_block' = [signed |-> gen[g].def, keys |-> gen[g].keys]
    /\ intact' = intact \cap {g}
    /\ UNCHANGED auth_block

WriteId(g) ==
    /\ Goto(g, "write_id", "exit_0")
    /\ id_block' = gen[g].def
    /\ intact' = intact \cap {g}
    /\ UNCHANGED auth_block

\* A call fails: main() prints the error and returns, so that the status is 0.
GenerateFails(g) ==
    /\ \E from \in Unfinished : Goto(g, from, "error_0")
    /\ UNCHANGED <<files, intact>>

KillGenerator(g) ==
    /\ \E from \in Unfinished : Goto(g, from, "killed")
    /\ UNCHANGED <<files, intact>>

------------------------------------------------------------------------------
(* launch.sh and the firmware.                                             *)

\* -id-block and -id-auth, both or neither; the VM that ran is stopped.
Launch(with) ==
    /\ launch.pc = "idle"
    /\ launch' = [pc |-> IF with THEN "cat_id" ELSE "start", id |-> None, auth |-> None,
                  with |-> with]
    /\ vm' = None
    /\ intact' = (intact \ {"tool"}) \cup {"launch"}
    /\ UNCHANGED <<def, files, gen, tool>>

CatId ==
    /\ launch.pc = "cat_id"
    /\ launch' = [launch EXCEPT !.pc = "cat_auth", !.id = id_block]
    /\ UNCHANGED <<def, files, gen, vm, tool, intact>>

CatAuth ==
    /\ launch.pc = "cat_auth"
    /\ launch' = [launch EXCEPT !.pc = "start", !.auth = auth_block]
    /\ UNCHANGED <<def, files, gen, vm, tool, intact>>

\* SNP_LAUNCH_FINISH: the block describes this VM, and the signatures fit.
FirmwareAccepts ==
    launch.with =>
      /\ launch.id # None
      /\ launch.auth # None
      /\ launch.auth.signed = launch.id
      /\ launch.id.ld = def.ld
      /\ launch.id.policy = def.policy

StartVM ==
    /\ launch.pc = "start"
    /\ launch' = [launch EXCEPT !.pc = IF FirmwareAccepts THEN "idle" ELSE "refused",
                                !.id = None, !.auth = None]
    /\ vm' = IF ~FirmwareAccepts THEN None
             ELSE [ld |-> def.ld, policy |-> def.policy,
                   ids |-> IF launch.with THEN launch.id.ids ELSE None,
                   keys |-> IF launch.with THEN launch.auth.keys ELSE None]
    /\ UNCHANGED <<def, files, gen, tool, intact>>

\* QEMU has said why, and the owner is back at the prompt.
LaunchRefused ==
    /\ launch.pc = "refused"
    /\ launch' = [launch EXCEPT !.pc = "idle"]
    /\ UNCHANGED <<def, files, gen, vm, tool, intact>>

------------------------------------------------------------------------------
(* The client or verify_report with --id-block-path and                    *)
(* --author-block-path, both or neither.                                   *)

StartTool(with) ==
    /\ tool.pc \notin {"read_id", "read_auth", "check"}
    /\ vm # None
    /\ tool' = [pc |-> IF with THEN "read_id" ELSE "check", def |-> def,
                id |-> None, auth |-> None, with |-> with]
    /\ intact' = intact \cup {"tool"}
    /\ UNCHANGED <<def, files, gen, launch, vm>>

Refused == [tool EXCEPT !.pc = "refused", !.def = None, !.id = None, !.auth = None]

ReadId ==
    /\ tool.pc = "read_id"
    /\ tool' = [tool EXCEPT !.pc = "read_auth", !.id = id_block]
    /\ UNCHANGED <<def, files, gen, launch, vm, intact>>

\* Mutant: the check of the id block looks at the ids only.
CheckIdBlock_NoKeys == vm.ids = tool.id.ids

\* Mutant: the digests of the two keys are mixed up.
CheckIdBlock_Swapped ==
    /\ vm.ids = tool.id.ids
    /\ vm.keys = [id_key |-> tool.auth.keys.author_key,
                  author_key |-> tool.auth.keys.id_key]

\* IDBLockReportData::check(): ids and key digests of the report.
CheckIdBlock ==
    /\ vm.ids = tool.id.ids
    /\ vm.keys = tool.auth.keys

\* parse_id_block_data() needs two whole blocks, but checks no signature.
ReadAuth ==
    /\ tool.pc = "read_auth"
    /\ tool' = IF None \in {tool.id, auth_block} THEN Refused
                ELSE [tool EXCEPT !.auth = auth_block, !.pc = "check"]
    /\ UNCHANGED <<def, files, gen, launch, vm, intact>>

\* The report comes from the VM that runs now.
Check ==
    /\ tool.pc = "check"
    /\ vm # None
    /\ LET ok == /\ vm.policy = tool.def.policy
                 /\ tool.with => CheckIdBlock
                 /\ vm.ld = tool.def.ld
       IN tool' = IF ok THEN [tool EXCEPT !.pc = "accepted"] ELSE Refused
    /\ UNCHANGED <<def, files, gen, launch, vm, intact>>

\* There is no VM to get the report from.
NoReport ==
    /\ tool.pc = "check"
    /\ vm = None
    /\ tool' = Refused
    /\ UNCHANGED <<def, files, gen, launch, vm, intact>>

------------------------------------------------------------------------------
Init ==
    /\ def \in Definition
    /\ id_block = None
    /\ auth_block = None
    /\ gen = [g \in Gen |-> Idle]
    /\ launch = [pc |-> "idle", id |-> None, auth |-> None, with |-> FALSE]
    /\ vm = None
    /\ tool = [pc |-> "idle", def |-> None, id |-> None, auth |-> None, with |-> FALSE]
    /\ intact = {}

GeneratorNext(g) ==
    \/ \E k \in Keys : Generate(g, k)
    \/ CreateAuth(g)
    \/ WriteAuth(g)
    \/ CreateId(g)
    \/ WriteId(g)
    \/ GenerateFails(g)
    \/ KillGenerator(g)

LaunchNext ==
    \/ \E with \in BOOLEAN : Launch(with)
    \/ CatId
    \/ CatAuth
    \/ StartVM
    \/ LaunchRefused

ToolNext ==
    \/ \E with \in BOOLEAN : StartTool(with)
    \/ ReadId
    \/ ReadAuth
    \/ Check
    \/ NoReport

Next ==
    \/ \E d \in Definition : Edit(d)
    \/ \E g \in Gen : GeneratorNext(g)
    \/ LaunchNext
    \/ ToolNext

Spec == Init /\ [][Next]_vars
------------------------------------------------------------------------------
(* Properties.                                                             *)

\* Every variable has its type.
TypeOK ==
    /\ def \in Definition
    /\ id_block \in Block \cup {None}
    /\ auth_block \in AuthBlock \cup {None}
    /\ gen \in [Gen -> [pc : Unfinished \cup {"idle", "exit_0", "error_0", "killed"},
                        def : Definition \cup {None}, keys : Keys \cup {None}]]
    /\ launch \in [pc : {"idle", "cat_id", "cat_auth", "start", "refused"},
                   id : Block \cup {None}, auth : AuthBlock \cup {None}, with : BOOLEAN]
    /\ vm \in [ld : Digest, policy : Policy, ids : Ids \cup {None},
               keys : Keys \cup {None}] \cup {None}
    /\ tool \in [pc : {"idle", "read_id", "read_auth", "check", "accepted", "refused"},
                 def : Definition \cup {None}, id : Block \cup {None},
                 auth : AuthBlock \cup {None}, with : BOOLEAN]
    /\ intact \subseteq Gen \cup {"launch", "tool"}

\* A VM is accepted with id blocks only if a generator was once given exactly
\* this digest, policy and ids together with exactly these keys: a pair of two
\* generations, left by runs that failed or overlapped or read while it was
\* replaced, neither starts a VM nor passes for the blocks of another.
AcceptedWasGenerated ==
    tool.pc = "accepted" /\ tool.with =>
      \E g \in Gen :
        /\ gen[g].def = [ld |-> tool.def.ld, policy |-> tool.def.policy, ids |-> tool.id.ids]
        /\ gen[g].keys = tool.auth.keys

\* Blocks generated from the vm config as it is, by a run that nothing
\* overlapped or changed since, start the VM.
IntactPairStarts ==
    launch.pc = "refused" /\ "launch" \in intact =>
      \A g \in Gen \cap intact : gen[g].pc # "exit_0"

\* A VM started with id blocks is refused only if a file or the vm config was
\* changed, or the VM replaced, between its launch and the end of the check.
RefusedOnlyIfChanged ==
    tool.pc = "refused" /\ tool.with /\ launch.with /\ vm # None
      => ~({"launch", "tool"} \subseteq intact)
==============================================================================
