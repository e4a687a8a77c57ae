---------------------------- MODULE IdBlockProofs ----------------------------
(***************************************************************************)
(* Proofs about IdBlock, for any number of generator runs, keys and vm     *)
(* configs.                                                                *)
(***************************************************************************)
EXTENDS IdBlock, TLAPS

------------------------------------------------------------------------------
(* Types.                                                                  *)

\* A generator that has begun has something to write.
Begun == \A g \in Gen : gen[g].pc # "idle" => gen[g].def \in Definition /\ gen[g].keys \in Keys

Typed == TypeOK /\ Begun

LEMMA InitTyped == Init => Typed
BY DEF Init, Typed, Begun, TypeOK, Idle

LEMMA GeneratorTyped ==
    ASSUME Typed, NEW g \in Gen, GeneratorNext(g)
    PROVE  Typed'
<1> USE DEF Typed, Begun, TypeOK, Unfinished, Goto, files, Block, AuthBlock
<1>1. ASSUME NEW k \in Keys, Generate(g, k)
      PROVE  Typed'
  BY <1>1 DEF Generate, Computed
<1>2. CASE CreateAuth(g)
  BY <1>2 DEF CreateAuth
<1>3. CASE WriteAuth(g)
  BY <1>3 DEF WriteAuth
<1>4. CASE CreateId(g)
  BY <1>4 DEF CreateId
<1>5. CASE WriteId(g)
  BY <1>5 DEF WriteId
<1>6. CASE GenerateFails(g)
  BY <1>6 DEF GenerateFails
<1>7. CASE KillGenerator(g)
  BY <1>7 DEF KillGenerator
<1> QED
  BY <1>1, <1>2, <1>3, <1>4, <1>5, <1>6, <1>7, GeneratorNext(g) DEF GeneratorNext

LEMMA LaunchTyped ==
    ASSUME Typed, LaunchNext
    PROVE  Typed'
<1> USE DEF Typed, Begun, TypeOK, files, Block, AuthBlock
<1>1. ASSUME NEW with \in BOOLEAN, Launch(with)
      PROVE  Typed'
  BY <1>1 DEF Launch
<1>2. CASE CatId \/ CatAuth \/ LaunchRefused
  BY <1>2 DEF CatId, CatAuth, LaunchRefused
<1>3. CASE StartVM
  <2>1. ASSUME FirmwareAccepts, launch.with
        PROVE  launch.id.ids \in Ids /\ launch.auth.keys \in Keys
    BY <2>1 DEF FirmwareAccepts, Definition
  <2>2. def.ld \in Digest /\ def.policy \in Policy
    BY DEF Definition
  <2>3. vm' \in [ld : Digest, policy : Policy, ids : Ids \cup {None},
                 keys : Keys \cup {None}] \cup {None}
    BY <1>3, <2>1, <2>2 DEF StartVM
  <2>4. launch' \in [pc : {"idle", "cat_id", "cat_auth", "start", "refused"},
                     id : Block \cup {None}, auth : AuthBlock \cup {None}, with : BOOLEAN]
    BY <1>3 DEF StartVM
  <2> QED
    BY <1>3, <2>3, <2>4 DEF StartVM
<1> QED
  BY <1>1, <1>2, <1>3, LaunchNext DEF LaunchNext

LEMMA ToolTyped ==
    ASSUME Typed, ToolNext
    PROVE  Typed'
<1> DEFINE ToolRecord ==
      [pc : {"idle", "read_id", "read_auth", "check", "accepted", "refused"},
       def : Definition \cup {None}, id : Block \cup {None},
       auth : AuthBlock \cup {None}, with : BOOLEAN]
<1>1. tool \in ToolRecord /\ Refused \in ToolRecord
  BY DEF Typed, TypeOK, Refused
<1>2. ASSUME tool' \in ToolRecord, UNCHANGED <<def, files, gen, launch, vm>>,
             intact' \subseteq intact \cup {"tool"}
      PROVE  Typed'
  BY <1>2 DEF Typed, Begun, TypeOK, files
<1>3. ASSUME NEW with \in BOOLEAN, StartTool(with)
      PROVE  Typed'
  BY <1>2, <1>3 DEF StartTool, Typed, TypeOK
<1>4. CASE ReadId
  BY <1>1, <1>2, <1>4 DEF ReadId, Typed, TypeOK
<1>5. CASE ReadAuth
  BY <1>1, <1>2, <1>5 DEF ReadAuth, Typed, TypeOK
<1>6. CASE Check
  <2>1. tool' = [tool EXCEPT !.pc = "accepted"] \/ tool' = Refused
    BY <1>6 DEF Check
  <2> QED
    BY <1>1, <1>2, <1>6, <2>1 DEF Check
<1>7. CASE NoReport
  BY <1>1, <1>2, <1>7 DEF NoReport
<1> QED
  BY <1>3, <1>4, <1>5, <1>6, <1>7, ToolNext DEF ToolNext

LEMMA NextTyped == Typed /\ [Next]_vars => Typed'
<1> SUFFICES ASSUME Typed, [Next]_vars
             PROVE  Typed'
  OBVIOUS
<1>1. CASE UNCHANGED vars
  BY <1>1 DEF vars, files, Typed, Begun, TypeOK
<1>2. ASSUME NEW d \in Definition, Edit(d)
      PROVE  Typed'
  BY <1>2 DEF Edit, files, Typed, Begun, TypeOK
<1> QED
  BY <1>1, <1>2, GeneratorTyped, LaunchTyped, ToolTyped DEF Next

\* Every variable has its type in every behaviour.
THEOREM TypeCorrect == Spec => []TypeOK
<1>1. Typed => TypeOK
  BY DEF Typed
<1> QED
  BY <1>1, InitTyped, NextTyped, PTL DEF Spec

------------------------------------------------------------------------------
(* Where what is accepted comes from.                                      *)

\* A generator was given d and signed it with k.
Made(d, k) == \E g \in Gen : gen[g].pc # "idle" /\ gen[g].def = d /\ gen[g].keys = k

\* What has been made stays made: a generator run happens once.
LEMMA MadeStays ==
    ASSUME Typed, [Next]_vars
    PROVE  \A d \in Definition, k \in Keys : Made(d, k) => Made(d, k)'
<1>1. ASSUME NEW h \in Gen, gen[h].pc # "idle"
      PROVE  gen'[h].pc # "idle" /\ gen'[h].def = gen[h].def /\ gen'[h].keys = gen[h].keys
  <2>1. ASSUME NEW g \in Gen, GeneratorNext(g)
        PROVE  \/ gen'[h] = gen[h]
               \/ \E to \in Unfinished \cup {"exit_0", "error_0", "killed"} :
                    gen'[h] = [gen[h] EXCEPT !.pc = to]
    BY <1>1, <2>1 DEF GeneratorNext, Generate, CreateAuth, WriteAuth, CreateId, WriteId,
         GenerateFails, KillGenerator, Goto, Typed, TypeOK, Unfinished
  <2>2. CASE gen' = gen
    BY <1>1, <2>2
  <2>3. gen' = gen \/ \E g \in Gen : GeneratorNext(g)
    BY DEF Next, vars, Edit, LaunchNext, Launch, CatId, CatAuth, StartVM, LaunchRefused,
         ToolNext, StartTool, ReadId, ReadAuth, Check, NoReport
  <2> QED
    BY <1>1, <2>1, <2>2, <2>3 DEF Unfinished, Typed, TypeOK
<1> QED
  BY <1>1 DEF Made

\* The keys in a file, in a launch, in a report and in a verdict are those of a
\* generator that signed what is there with them.
Genuine ==
    /\ auth_block # None => Made(auth_block.signed, auth_block.keys)
    /\ launch.auth # None => Made(launch.auth.signed, launch.auth.keys)
    /\ vm # None /\ vm.keys # None =>
         /\ vm.ids \in Ids
         /\ Made([ld |-> vm.ld, policy |-> vm.policy, ids |-> vm.ids], vm.keys)
    /\ tool.pc \in {"read_id", "read_auth", "check"} => tool.def \in Definition
    /\ tool.pc = "check" /\ tool.with => tool.id # None /\ tool.auth # None
    /\ tool.pc = "accepted" /\ tool.with =>
         /\ tool.id # None /\ tool.auth # None /\ tool.def \in Definition
         /\ Made([ld |-> tool.def.ld, policy |-> tool.def.policy, ids |-> tool.id.ids],
                 tool.auth.keys)

LEMMA InitGenuine == Init => Genuine
BY DEF Init, Genuine

\* What launch.sh, the report and the tool hold stays genuine while only a
\* generator goes on.
LEMMA OthersStay ==
    ASSUME Typed, Genuine, [Next]_vars, UNCHANGED <<launch, vm, tool>>,
           auth_block' # None => Made(auth_block.signed, auth_block.keys)'
    PROVE  Genuine'
<1>1. \A d \in Definition, k \in Keys : Made(d, k) => Made(d, k)'
  BY MadeStays
<1>2. launch.auth # None => Made(launch.auth.signed, launch.auth.keys)'
  BY <1>1 DEF Genuine, Typed, TypeOK, AuthBlock
<1>3. ASSUME vm # None, vm.keys # None
      PROVE  Made([ld |-> vm.ld, policy |-> vm.policy, ids |-> vm.ids], vm.keys)'
  <2>1. [ld |-> vm.ld, policy |-> vm.policy, ids |-> vm.ids] \in Definition /\ vm.keys \in Keys
    BY <1>3 DEF Genuine, Typed, TypeOK, Definition
  <2> QED
    BY <1>1, <1>3, <2>1 DEF Genuine
<1>4. ASSUME tool.pc = "accepted", tool.with
      PROVE  Made([ld |-> tool.def.ld, policy |-> tool.def.policy, ids |-> tool.id.ids],
                  tool.auth.keys)'
  <2>1. /\ [ld |-> tool.def.ld, policy |-> tool.def.policy, ids |-> tool.id.ids] \in Definition
        /\ tool.auth.keys \in Keys
    BY <1>4 DEF Genuine, Typed, TypeOK, Definition, Block, AuthBlock
  <2> QED
    BY <1>1, <1>4, <2>1 DEF Genuine
<1> QED
  BY <1>2, <1>3, <1>4 DEF Genuine

\* The files: an auth block is written only by a generator that has begun.
LEMMA GeneratorGenuine ==
    ASSUME Typed, Genuine, [Next]_vars, NEW g \in Gen, GeneratorNext(g)
    PROVE  Genuine'
<1>1. UNCHANGED <<launch, vm, tool>>
  BY DEF GeneratorNext, Generate, CreateAuth, WriteAuth, CreateId, WriteId, GenerateFails,
         KillGenerator, Goto
<1>2. \A d \in Definition, k \in Keys : Made(d, k) => Made(d, k)'
  BY MadeStays
<1>3. /\ auth_block \in AuthBlock \cup {None} /\ launch.auth \in AuthBlock \cup {None}
      /\ vm # None => vm.keys \in Keys \cup {None}
  BY DEF Typed, TypeOK
<1>4. auth_block' # None => Made(auth_block.signed, auth_block.keys)'
  <2>1. CASE auth_block' = auth_block
    BY <1>2, <1>3, <2>1 DEF Genuine, AuthBlock
  <2>2. CASE WriteAuth(g)
    <3>1. auth_block' = [signed |-> gen'[g].def, keys |-> gen'[g].keys] /\ gen'[g].pc # "idle"
      BY <2>2 DEF WriteAuth, Goto, Typed, TypeOK
    <3> QED
      BY <3>1 DEF Made
  <2>3. auth_block' = auth_block \/ auth_block' = None \/ WriteAuth(g)
    BY DEF GeneratorNext, Generate, CreateAuth, CreateId, WriteId, GenerateFails,
           KillGenerator, files
  <2> QED
    BY <2>1, <2>2, <2>3
<1> QED
  BY <1>1, <1>4, OthersStay DEF Genuine

\* launch.sh reads the auth block, and the firmware lets only what is signed in
\* it be what it is.
LEMMA LaunchGenuine ==
    ASSUME Typed, Genuine, [Next]_vars, LaunchNext
    PROVE  Genuine'
<1>1. UNCHANGED <<def, id_block, auth_block, gen, tool>>
  BY DEF LaunchNext, Launch, CatId, CatAuth, StartVM, LaunchRefused, files
<1>2. \A d, k : Made(d, k)' = Made(d, k)
  BY <1>1 DEF Made
<1>3. CASE (\E with \in BOOLEAN : Launch(with)) \/ CatId \/ LaunchRefused
  <2>1. ASSUME NEW with \in BOOLEAN, Launch(with)
        PROVE  launch'.auth = None /\ vm' = None
    BY <2>1 DEF Launch
  <2>2. CatId \/ LaunchRefused => launch'.auth = launch.auth /\ vm' = vm
    BY DEF CatId, LaunchRefused, Typed, TypeOK
  <2> QED
    BY <1>1, <1>2, <1>3, <2>1, <2>2 DEF Genuine
<1>4. CASE CatAuth
  <2>1. launch'.auth = auth_block /\ vm' = vm
    BY <1>4 DEF CatAuth, Typed, TypeOK
  <2> QED
    BY <1>1, <1>2, <2>1 DEF Genuine
<1>5. CASE StartVM
  <2>1. launch'.auth = None
    BY <1>5 DEF StartVM, Typed, TypeOK
  <2>2. ASSUME vm' # None, vm'.keys # None
        PROVE  /\ vm'.ids \in Ids
               /\ Made([ld |-> vm'.ld, policy |-> vm'.policy, ids |-> vm'.ids], vm'.keys)
    <3>1. /\ FirmwareAccepts /\ launch.with
          /\ vm' = [ld |-> def.ld, policy |-> def.policy, ids |-> launch.id.ids,
                    keys |-> launch.auth.keys]
      BY <1>5, <2>2 DEF StartVM
    <3>2. /\ launch.id \in Definition /\ launch.auth # None /\ launch.auth.signed = launch.id
          /\ launch.id.ld = def.ld /\ launch.id.policy = def.policy
      BY <3>1 DEF FirmwareAccepts, Typed, TypeOK, Block
    <3>3. launch.id = [ld |-> vm'.ld, policy |-> vm'.policy, ids |-> vm'.ids]
      BY <3>1, <3>2 DEF Definition
    <3>4. Made(launch.auth.signed, launch.auth.keys)
      BY <3>2 DEF Genuine
    <3> QED
      BY <3>1, <3>2, <3>3, <3>4 DEF Definition
  <2> QED
    BY <1>1, <1>2, <2>1, <2>2 DEF Genuine
<1> QED
  BY <1>3, <1>4, <1>5, LaunchNext DEF LaunchNext

\* The tool compares the report with the two blocks and the vm config.
LEMMA ToolGenuine ==
    ASSUME Typed, Genuine, [Next]_vars, ToolNext
    PROVE  Genuine'
<1>1. UNCHANGED <<def, id_block, auth_block, gen, launch, vm>>
  BY DEF ToolNext, StartTool, ReadId, ReadAuth, Check, NoReport, files
<1>2. \A d, k : Made(d, k)' = Made(d, k)
  BY <1>1 DEF Made
<1>3. ASSUME NEW with \in BOOLEAN, StartTool(with)
      PROVE  Genuine'
  <2>1. /\ tool' = [pc |-> IF with THEN "read_id" ELSE "check", def |-> def,
                    id |-> None, auth |-> None, with |-> with]
        /\ def \in Definition
    BY <1>3 DEF StartTool, Typed, TypeOK
  <2> QED
    BY <1>1, <1>2, <2>1 DEF Genuine
<1>4. CASE ReadId
  <2>1. tool.pc = "read_id" /\ tool'.pc = "read_auth" /\ tool'.def = tool.def
    BY <1>4 DEF ReadId, Typed, TypeOK
  <2> QED
    BY <1>1, <1>2, <2>1 DEF Genuine
<1>5. ASSUME tool' = Refused
      PROVE  Genuine'
  <2>1. tool'.pc = "refused"
    BY <1>5 DEF Refused, Typed, TypeOK
  <2> QED
    BY <1>1, <1>2, <2>1 DEF Genuine
<1>6. CASE ReadAuth
  <2>1. CASE None \notin {tool.id, auth_block}
    <3>1. /\ tool.pc = "read_auth" /\ tool'.pc = "check" /\ tool'.def = tool.def
          /\ tool'.id = tool.id /\ tool'.auth = auth_block
      BY <1>6, <2>1 DEF ReadAuth, Typed, TypeOK
    <3> QED
      BY <1>1, <1>2, <2>1, <3>1 DEF Genuine
  <2> QED
    BY <1>5, <1>6, <2>1 DEF ReadAuth
<1>7. CASE Check
  <2>1. CASE tool' = Refused
    BY <1>5, <2>1
  <2>2. CASE tool' # Refused
    <3>1. /\ tool.pc = "check" /\ vm # None /\ tool' = [tool EXCEPT !.pc = "accepted"]
          /\ vm.policy = tool.def.policy /\ vm.ld = tool.def.ld
          /\ tool.with => CheckIdBlock
      BY <1>7, <2>2 DEF Check
    <3>2. /\ tool'.with = tool.with /\ tool'.def = tool.def /\ tool'.pc = "accepted"
          /\ tool'.id = tool.id /\ tool'.auth = tool.auth
      BY <3>1 DEF Typed, TypeOK
    <3>3. tool.def \in Definition
      BY <3>1 DEF Genuine
    <3>4. ASSUME tool.with
          PROVE  /\ tool.id # None /\ tool.auth # None
                 /\ Made([ld |-> tool.def.ld, policy |-> tool.def.policy,
                          ids |-> tool.id.ids], tool.auth.keys)
      <4>1. tool.id # None /\ tool.auth \in AuthBlock
        BY <3>1, <3>4 DEF Genuine, Typed, TypeOK
      <4>2. vm.ids = tool.id.ids /\ vm.keys = tool.auth.keys
        BY <3>1, <3>4 DEF CheckIdBlock
      <4>3. vm.keys # None
        BY <4>1, <4>2, NoneAssumption DEF AuthBlock
      <4> QED
        BY <3>1, <4>1, <4>2, <4>3, NoneAssumption DEF Genuine
    <3> QED
      BY <1>1, <1>2, <3>2, <3>3, <3>4 DEF Genuine
  <2> QED
    BY <2>1, <2>2
<1>8. CASE NoReport
  BY <1>5, <1>8 DEF NoReport
<1> QED
  BY <1>3, <1>4, <1>6, <1>7, <1>8, ToolNext DEF ToolNext

LEMMA NextGenuine == Typed /\ Genuine /\ [Next]_vars => Genuine'
<1> SUFFICES ASSUME Typed, Genuine, [Next]_vars
             PROVE  Genuine'
  OBVIOUS
<1>1. CASE UNCHANGED vars
  BY <1>1 DEF vars, files, Genuine, Made
<1>2. ASSUME NEW d \in Definition, Edit(d)
      PROVE  Genuine'
  BY <1>2 DEF Edit, files, Genuine, Made
<1> QED
  BY <1>1, <1>2, GeneratorGenuine, LaunchGenuine, ToolGenuine, [Next]_vars DEF Next

\* A VM accepted with id blocks is one that a generator was given, signed with
\* just those keys.
THEOREM AcceptedIsGenerated == Spec => []AcceptedWasGenerated
<1>1. Typed /\ Genuine /\ [Next]_vars => (Typed /\ Genuine)'
  BY NextTyped, NextGenuine
<1>2. Init => Typed /\ Genuine
  BY InitTyped, InitGenuine
<1>3. Genuine => AcceptedWasGenerated
  BY DEF Genuine, Made, AcceptedWasGenerated
<1> QED
  BY <1>1, <1>2, <1>3, PTL DEF Spec

------------------------------------------------------------------------------
(* What has not been disturbed.                                            *)

\* The files hold a pair that the firmware takes for the VM of the vm config.
Starts ==
    /\ id_block # None /\ auth_block # None
    /\ auth_block.signed = id_block
    /\ id_block.ld = def.ld /\ id_block.policy = def.policy

\* A run that nothing overlapped works from the vm config as it is, and what it
\* has written is what the files hold.
RunIntact(g) ==
    /\ gen[g].pc # "idle"
    /\ gen[g].def = def
    /\ gen[g].pc \in {"create_id", "write_id", "exit_0"}
         => auth_block = [signed |-> def, keys |-> gen[g].keys]
    /\ gen[g].pc = "exit_0" => id_block = def

\* What launch.sh has read, and the VM that came of it, is what the files hold.
LaunchIntact ==
    /\ launch.pc = "cat_auth" => launch.id = id_block
    /\ launch.pc = "start" /\ launch.with => launch.id = id_block /\ launch.auth = auth_block
    /\ launch.pc = "refused" => ~Starts
    /\ vm # None /\ launch.with =>
         /\ Starts
         /\ vm = [ld |-> def.ld, policy |-> def.policy,
                  ids |-> id_block.ids, keys |-> auth_block.keys]

\* What the tool has read is what the files hold.
ToolIntact ==
    /\ tool.pc \in {"read_id", "read_auth", "check"} => tool.def = def
    /\ tool.pc = "read_auth" => tool.id = id_block
    /\ tool.pc = "check" /\ tool.with => tool.id = id_block /\ tool.auth = auth_block

Undisturbed ==
    /\ \A g \in Gen \cap intact : RunIntact(g)
    /\ "launch" \in intact => LaunchIntact
    /\ "tool" \in intact => vm # None /\ ToolIntact
    /\ vm # None => launch.pc = "idle"
    /\ RefusedOnlyIfChanged

LEMMA InitUndisturbed == Init => Undisturbed
BY DEF Init, Undisturbed, RefusedOnlyIfChanged

\* A generator that writes disturbs everybody but itself.
LEMMA GeneratorUndisturbed ==
    ASSUME Typed, Undisturbed, NEW g \in Gen, GeneratorNext(g)
    PROVE  Undisturbed'
<1> USE GenAssumption DEF Typed, TypeOK
<1>1. UNCHANGED <<def, launch, vm, tool>>
  BY DEF GeneratorNext, Generate, CreateAuth, WriteAuth, CreateId, WriteId, GenerateFails,
         KillGenerator, Goto
<1>2. /\ \A h \in Gen \ {g} : gen'[h] = gen[h]
      /\ gen'[g].pc # "idle"
  BY DEF GeneratorNext, Generate, CreateAuth, WriteAuth, CreateId, WriteId, GenerateFails,
         KillGenerator, Goto, Unfinished
<1>3. ASSUME NEW k \in Keys, Generate(g, k)
      PROVE  Undisturbed'
  <2>1. UNCHANGED files /\ intact' = intact \cup {g}
    BY <1>3 DEF Generate
  <2>2. gen'[g].pc = "create_auth" /\ gen'[g].def = def
    BY <1>3 DEF Generate, Computed
  <2>3. \A h \in Gen \cap intact' : RunIntact(h)'
    BY <1>1, <1>2, <2>1, <2>2 DEF Undisturbed, RunIntact, files
  <2> QED
    BY <1>1, <2>1, <2>3 DEF Undisturbed, LaunchIntact, ToolIntact, RefusedOnlyIfChanged,
                            Starts, files
<1>4. ASSUME UNCHANGED <<files, intact>>, NEW to \in {"error_0", "killed"},
             gen' = [gen EXCEPT ![g].pc = to]
      PROVE  Undisturbed'
  <2>1. gen'[g].pc = to /\ gen'[g].def = gen[g].def
    BY <1>4
  <2>2. \A h \in Gen \cap intact' : RunIntact(h)'
    BY <1>1, <1>2, <1>4, <2>1 DEF Undisturbed, RunIntact, files
  <2> QED
    BY <1>1, <1>4, <2>2 DEF Undisturbed, LaunchIntact, ToolIntact, RefusedOnlyIfChanged,
                            Starts, files
<1>5. ASSUME intact' = intact \cap {g}, g \in intact => RunIntact(g)'
      PROVE  Undisturbed'
  <2>1. "launch" \notin intact' /\ "tool" \notin intact'
    BY <1>5
  <2> QED
    BY <1>1, <1>5, <2>1 DEF Undisturbed, RefusedOnlyIfChanged
<1>6. g \in intact => RunIntact(g)
  BY DEF Undisturbed
<1>7. CASE CreateAuth(g)
  BY <1>1, <1>5, <1>6, <1>7 DEF CreateAuth, Goto, RunIntact
<1>8. CASE WriteAuth(g)
  BY <1>1, <1>5, <1>6, <1>8 DEF WriteAuth, Goto, RunIntact
<1>9. CASE CreateId(g)
  BY <1>1, <1>5, <1>6, <1>9 DEF CreateId, Goto, RunIntact
<1>10. CASE WriteId(g)
  BY <1>1, <1>5, <1>6, <1>10 DEF WriteId, Goto, RunIntact
<1>11. CASE GenerateFails(g) \/ KillGenerator(g)
  BY <1>4, <1>11 DEF GenerateFails, KillGenerator, Goto
<1> QED
  BY <1>3, <1>7, <1>8, <1>9, <1>10, <1>11, GeneratorNext(g) DEF GeneratorNext

\* What launch.sh reads is what a run that nothing overlapped has written.
LEMMA LaunchUndisturbed ==
    ASSUME Typed, Undisturbed, LaunchNext
    PROVE  Undisturbed'
<1> USE GenAssumption DEF Typed, TypeOK
<1>1. UNCHANGED <<def, id_block, auth_block, gen, tool>>
  BY DEF LaunchNext, Launch, CatId, CatAuth, StartVM, LaunchRefused, files
<1>2. Gen \cap intact' = Gen \cap intact
  BY DEF LaunchNext, Launch, CatId, CatAuth, StartVM, LaunchRefused
<1>3. \A h \in Gen \cap intact' : RunIntact(h)'
  BY <1>1, <1>2 DEF Undisturbed, RunIntact
<1>4. ASSUME NEW with \in BOOLEAN, Launch(with)
      PROVE  Undisturbed'
  <2>1. /\ launch'.pc = IF with THEN "cat_id" ELSE "start"
        /\ launch'.with = with /\ vm' = None /\ "tool" \notin intact'
    BY <1>4 DEF Launch
  <2> QED
    BY <1>3, <2>1 DEF Undisturbed, LaunchIntact, RefusedOnlyIfChanged
<1>5. ASSUME UNCHANGED intact, launch.pc # "idle", vm' = None,
             "launch" \in intact => LaunchIntact'
      PROVE  Undisturbed'
  <2>1. vm = None /\ "tool" \notin intact'
    BY <1>5 DEF Undisturbed
  <2> QED
    BY <1>3, <1>5, <2>1 DEF Undisturbed, RefusedOnlyIfChanged
<1>6. "launch" \in intact => LaunchIntact
  BY DEF Undisturbed
<1>7. CASE CatId \/ CatAuth \/ LaunchRefused
  <2>1. launch.pc # "idle" /\ vm' = vm /\ UNCHANGED intact
    BY <1>7 DEF CatId, CatAuth, LaunchRefused
  <2>2. vm = None
    BY <2>1 DEF Undisturbed
  <2>3. \/ launch'.pc = "cat_auth" /\ launch'.id = id_block
        \/ launch'.pc = "idle"
        \/ /\ launch.pc = "cat_auth" /\ launch'.pc = "start"
           /\ launch'.id = launch.id /\ launch'.auth = auth_block
    BY <1>7 DEF CatId, CatAuth, LaunchRefused
  <2>4. "launch" \in intact => LaunchIntact'
    BY <1>1, <1>6, <2>1, <2>2, <2>3 DEF LaunchIntact
  <2> QED
    BY <1>5, <2>1, <2>2, <2>4
<1>8. CASE StartVM
  <2>1. launch.pc = "start" /\ UNCHANGED intact
    BY <1>8 DEF StartVM
  <2>2. vm = None /\ "tool" \notin intact
    BY <2>1 DEF Undisturbed
  <2>3. launch'.with = launch.with /\ launch'.pc \in {"idle", "refused"}
        /\ (launch'.pc = "refused" <=> ~FirmwareAccepts) /\ (vm' # None => FirmwareAccepts)
    BY <1>8 DEF StartVM
  <2>4. ASSUME "launch" \in intact, launch.with
        PROVE  FirmwareAccepts <=> Starts
    BY <1>6, <2>1, <2>4 DEF LaunchIntact, FirmwareAccepts, Starts
  <2>5. ASSUME "launch" \in intact
        PROVE  LaunchIntact'
    <3>1. ~launch.with => FirmwareAccepts
      BY DEF FirmwareAccepts
    <3>2. Starts' <=> Starts
      BY <1>1 DEF Starts
    <3>3. ASSUME vm' # None, launch.with
          PROVE  vm' = [ld |-> def.ld, policy |-> def.policy,
                        ids |-> id_block.ids, keys |-> auth_block.keys]
      BY <1>6, <1>8, <2>1, <2>5, <3>3 DEF StartVM, LaunchIntact
    <3> QED
      BY <1>1, <2>3, <2>4, <2>5, <3>1, <3>2, <3>3 DEF LaunchIntact
  <2> QED
    BY <1>3, <2>1, <2>2, <2>3, <2>5 DEF Undisturbed, RefusedOnlyIfChanged
<1> QED
  BY <1>4, <1>7, <1>8, LaunchNext DEF LaunchNext

\* The tool refuses nothing that it reads undisturbed.
LEMMA ToolUndisturbed ==
    ASSUME Typed, Undisturbed, ToolNext
    PROVE  Undisturbed'
<1> USE GenAssumption DEF Typed, TypeOK
<1>1. UNCHANGED <<def, id_block, auth_block, gen, launch, vm>>
  BY DEF ToolNext, StartTool, ReadId, ReadAuth, Check, NoReport, files
<1>2. intact' \in {intact, intact \cup {"tool"}}
  BY DEF ToolNext, StartTool, ReadId, ReadAuth, Check, NoReport
<1>3. /\ \A h \in Gen \cap intact' : RunIntact(h)'
      /\ "launch" \in intact' => LaunchIntact'
  BY <1>1, <1>2 DEF Undisturbed, RunIntact, LaunchIntact, Starts
<1>4. ASSUME "tool" \in intact' => vm # None /\ ToolIntact',
             tool'.pc # "refused" \/ ~tool'.with \/ ~launch.with \/ vm = None
               \/ ~({"launch", "tool"} \subseteq intact')
      PROVE  Undisturbed'
  BY <1>1, <1>3, <1>4 DEF Undisturbed, RefusedOnlyIfChanged
<1>5. ASSUME NEW with \in BOOLEAN, StartTool(with)
      PROVE  Undisturbed'
  BY <1>1, <1>4, <1>5 DEF StartTool, ToolIntact
<1>6. CASE ReadId
  BY <1>1, <1>4, <1>6 DEF ReadId, ToolIntact, Undisturbed
<1>7. ASSUME {"launch", "tool"} \subseteq intact, tool.with, launch.with
      PROVE  /\ Starts
             /\ vm = [ld |-> def.ld, policy |-> def.policy,
                      ids |-> id_block.ids, keys |-> auth_block.keys]
  BY <1>7 DEF Undisturbed, LaunchIntact
<1>8. Refused.pc = "refused" /\ Refused.with = tool.with
  BY DEF Refused
<1>9. CASE ReadAuth
  <2>1. tool.pc = "read_auth" /\ intact' = intact
    BY <1>9 DEF ReadAuth
  <2>2. CASE None \in {tool.id, auth_block}
    <3>1. tool' = Refused
      BY <1>9, <2>2 DEF ReadAuth
    <3>2. ASSUME {"launch", "tool"} \subseteq intact, tool.with, launch.with
          PROVE  FALSE
      BY <1>7, <2>1, <2>2, <3>2 DEF Undisturbed, ToolIntact, Starts
    <3> QED
      BY <1>1, <1>4, <1>8, <2>1, <3>1, <3>2 DEF Undisturbed, ToolIntact
  <2>3. CASE None \notin {tool.id, auth_block}
    BY <1>1, <1>4, <1>9, <2>1, <2>3 DEF ReadAuth, Undisturbed, ToolIntact
  <2> QED
    BY <2>2, <2>3
<1>10. CASE Check
  <2>1. tool.pc = "check" /\ intact' = intact
    BY <1>10 DEF Check
  <2>2. ASSUME {"launch", "tool"} \subseteq intact, tool.with, launch.with
        PROVE  tool'.pc = "accepted"
    <3>1. tool.def = def /\ tool.id = id_block /\ tool.auth = auth_block
      BY <2>1, <2>2 DEF Undisturbed, ToolIntact
    <3>2. vm.policy = tool.def.policy /\ CheckIdBlock /\ vm.ld = tool.def.ld
      BY <1>7, <2>2, <3>1 DEF CheckIdBlock
    <3> QED
      BY <1>10, <3>2 DEF Check
  <2>3. tool' = Refused \/ tool' = [tool EXCEPT !.pc = "accepted"]
    BY <1>10 DEF Check
  <2> QED
    BY <1>1, <1>4, <1>8, <2>1, <2>2, <2>3 DEF Undisturbed, ToolIntact
<1>11. CASE NoReport
  BY <1>1, <1>4, <1>8, <1>11 DEF NoReport, Undisturbed
<1> QED
  BY <1>5, <1>6, <1>9, <1>10, <1>11, ToolNext DEF ToolNext

LEMMA NextUndisturbed == Typed /\ Undisturbed /\ [Next]_vars => Undisturbed'
<1> SUFFICES ASSUME Typed, Undisturbed, [Next]_vars
             PROVE  Undisturbed'
  OBVIOUS
<1>1. CASE UNCHANGED vars
  BY <1>1 DEF vars, files, Undisturbed, RunIntact, LaunchIntact, ToolIntact, Starts,
              RefusedOnlyIfChanged
<1>2. ASSUME NEW d \in Definition, Edit(d)
      PROVE  Undisturbed'
  BY <1>2 DEF Edit, Undisturbed, RefusedOnlyIfChanged
<1> QED
  BY <1>1, <1>2, GeneratorUndisturbed, LaunchUndisturbed, ToolUndisturbed, [Next]_vars
     DEF Next

LEMMA AlwaysUndisturbed == Spec => [](Typed /\ Undisturbed)
<1>1. Typed /\ Undisturbed /\ [Next]_vars => (Typed /\ Undisturbed)'
  BY NextTyped, NextUndisturbed
<1> QED
  BY <1>1, InitTyped, InitUndisturbed, PTL DEF Spec

\* A pair of blocks that one undisturbed run made of the vm config as it is
\* starts the VM.
THEOREM IntactStarts == Spec => []IntactPairStarts
<1>1. Typed /\ Undisturbed => IntactPairStarts
  <2> SUFFICES ASSUME Typed, Undisturbed, launch.pc = "refused", "launch" \in intact,
                      NEW g \in Gen \cap intact, gen[g].pc = "exit_0"
               PROVE  Starts
    BY DEF Undisturbed, LaunchIntact, IntactPairStarts
  <2>1. /\ gen[g].def = def /\ id_block = def
        /\ auth_block = [signed |-> def, keys |-> gen[g].keys]
    BY DEF Undisturbed, RunIntact
  <2>2. def \in Definition /\ auth_block \in AuthBlock
    BY <2>1 DEF Typed, TypeOK, Begun, AuthBlock
  <2> QED
    BY <2>1, <2>2, NoneAssumption DEF Starts
<1> QED
  BY <1>1, AlwaysUndisturbed, PTL

\* A VM that was started with the blocks is refused only if something changed.
THEOREM RefusedIfChanged == Spec => []RefusedOnlyIfChanged
<1>1. Undisturbed => RefusedOnlyIfChanged
  BY DEF Undisturbed
<1> QED
  BY <1>1, AlwaysUndisturbed, PTL
==============================================================================
