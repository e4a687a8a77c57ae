----------------------- MODULE VerityAttestationProofs -----------------------
(***************************************************************************)
(* Proofs about VerityAttestation, for any number of runs of the script    *)
(* and of VMs.                                                             *)
(***************************************************************************)
EXTENDS VerityAttestation, TLAPS

LEMMA AppendRange ==
    ASSUME NEW S, NEW s \in Seq(S), NEW e \in S
    PROVE  Append(s, e) \in Seq(S) /\ Range(Append(s, e)) = Range(s) \cup {e}
<1>1. Append(s, e) \in Seq(S) /\ Len(Append(s, e)) = Len(s) + 1
  OBVIOUS
<1>2. \A i \in 1 .. Len(s) : Append(s, e)[i] = s[i]
  OBVIOUS
<1>3. Append(s, e)[Len(s) + 1] = e
  OBVIOUS
<1>4. DOMAIN s = 1 .. Len(s) /\ DOMAIN Append(s, e) = 1 .. Len(s) + 1
  BY <1>1
<1>5. Len(s) \in Nat
  OBVIOUS
<1>6. DOMAIN Append(s, e) = DOMAIN s \cup {Len(s) + 1}
  BY <1>4, <1>5
<1> QED
  BY <1>1, <1>2, <1>3, <1>4, <1>6 DEF Range

------------------------------------------------------------------------------
(* Types.                                                                  *)

RunRecord ==
    [pc : Running \cup {"idle", "done", "failed", "killed"},
     conn : SshKey \cup {None}, got : Seq(SshKey)]

\* Where a run goes keeps its record one.
LEMMA AtType ==
    ASSUME TypeOK, NEW s \in Script, NEW to \in Running \cup {"done", "failed", "killed"}
    PROVE  /\ At(s, to) \in RunRecord
           /\ \A k \in SshKey : [At(s, to) EXCEPT !.conn = k] \in RunRecord
           /\ \A q \in Seq(SshKey) : [At(s, to) EXCEPT !.got = q] \in RunRecord
BY DEF TypeOK, At, RunRecord

\* A run whose scp is connected is so to a VM.
Connected ==
    \A s \in Script : run[s].pc \in Copying \ {"connect"} => run[s].conn \in SshKey

Typed == TypeOK /\ Connected

LEMMA InitTyped == Init => Typed
BY DEF Init, Typed, Connected, TypeOK, Running, Copying

\* The script keeps the variables in their types.
LEMMA ProceedTyped ==
    ASSUME Typed, NEW s \in Script, Proceed(s)
    PROVE  Typed'
<1> USE DEF Step, RunRecord, Disturb, trustVars, hostVars
<1>1. TypeOK /\ Connected /\ run[s] \in RunRecord /\ known \in Seq(SshKey)
  BY DEF Typed, TypeOK
<1>2. CASE RemoveOld(s)
  <2>1. At(s, "connect") \in RunRecord /\ At(s, "connect").pc = "connect"
    BY <1>1, AtType DEF Running, Copying, At
  <2>2. TypeOK'
    BY <1>1, <1>2, <2>1 DEF TypeOK, RemoveOld, RemoveHosts
  <2>3. Connected'
    BY <1>1, <1>2, <2>1 DEF Connected, RemoveOld, TypeOK
  <2> QED
    BY <2>2, <2>3 DEF Typed
<1>3. CASE Connect(s)
  <2> DEFINE to == IF known = <<>> THEN "record" ELSE "transfer"
             then == [At(s, to) EXCEPT !.conn = vm]
  <2>1. vm \in SshKey
    BY <1>1, <1>3 DEF Connect, TypeOK
  <2>2. to \in Running
    BY DEF Running, Copying
  <2>3. then \in RunRecord /\ then.conn = vm
    BY <1>1, <2>1, <2>2, AtType DEF At
  <2>4. run' = [run EXCEPT ![s] = then]
    BY <1>3 DEF Connect
  <2> HIDE DEF then
  <2>5. TypeOK'
    BY <1>1, <1>3, <2>3, <2>4 DEF TypeOK, Connect
  <2>6. Connected'
    BY <1>1, <2>1, <2>3, <2>4 DEF Connected, TypeOK
  <2> QED
    BY <2>5, <2>6 DEF Typed
<1>4. CASE Record(s)
  <2>1. At(s, "transfer") \in RunRecord /\ At(s, "transfer").conn = run[s].conn
    BY <1>1, AtType DEF Running, Copying, At
  <2>2. run[s].conn \in SshKey
    BY <1>1, <1>4 DEF Record, Connected, Copying
  <2>3. Append(known, run[s].conn) \in Seq(SshKey)
    BY <1>1, <2>2
  <2>4. TypeOK'
    BY <1>1, <1>4, <2>1, <2>3 DEF TypeOK, Record
  <2>5. Connected'
    BY <1>1, <1>4, <2>1, <2>2 DEF Connected, Record, TypeOK
  <2> QED
    BY <2>4, <2>5 DEF Typed
<1>5. CASE Transfer(s)
  <2>1. \A t \in Script : /\ At(t, "writing") \in RunRecord
                          /\ At(t, "mixing") \in RunRecord
                          /\ At(t, "writing").conn = run[t].conn
                          /\ At(t, "mixing").conn = run[t].conn
    BY <1>1, AtType DEF Running, Copying, At, TypeOK
  <2>2. \A t \in Writers \cup {s} : run[t].pc \in Copying \ {"connect"}
    BY <1>5 DEF Writers, Transfer, Copying
  <2>3. TypeOK'
    BY <1>1, <1>5, <2>1 DEF TypeOK, Transfer
  <2>4. \A t \in Script : run'[t].conn = run[t].conn
    BY <1>1, <1>5, <2>1 DEF Transfer
  <2>5. \A t \in Script : run'[t].pc \in Copying \ {"connect"}
                             => run[t].pc \in Copying \ {"connect"}
    BY <1>1, <1>5, <2>2 DEF Transfer
  <2>6. Connected'
    BY <1>1, <2>4, <2>5 DEF Connected
  <2> QED
    BY <2>3, <2>6 DEF Typed
<1>6. CASE Transferred(s)
  <2>1. At(s, "fingerprint") \in RunRecord /\ At(s, "fingerprint").pc = "fingerprint"
    BY <1>1, AtType DEF Running, Copying, At
  <2>2. vm \in SshKey
    BY <1>1, <1>6 DEF Transferred, Connected, Copying
  <2>3. Served(vm) \subseteq SshKey \cup {Garbled}
    BY <2>2 DEF Served
  <2>4. report' \in SshKey \cup {None, Garbled}
    BY <1>1, <1>6, <2>3 DEF Transferred, TypeOK
  <2>5. TypeOK'
    BY <1>1, <1>6, <2>1, <2>4 DEF TypeOK, Transferred
  <2>6. Connected'
    BY <1>1, <1>6, <2>1 DEF Connected, Transferred, TypeOK, Copying
  <2> QED
    BY <2>5, <2>6 DEF Typed
<1>7. CASE ConnectionLost(s)
  <2>1. At(s, "refused") \in RunRecord /\ At(s, "refused").pc = "refused"
    BY <1>1, AtType DEF Running, Copying, At
  <2>2. TypeOK'
    BY <1>1, <1>7, <2>1 DEF TypeOK, ConnectionLost
  <2>3. Connected'
    BY <1>1, <1>7, <2>1 DEF Connected, ConnectionLost, TypeOK, Copying
  <2> QED
    BY <2>2, <2>3 DEF Typed
<1>8. CASE ReadFingerprint(s)
  <2> DEFINE then == [At(s, "verify") EXCEPT !.got = known]
  <2>1. then \in RunRecord /\ then.pc = "verify"
    BY <1>1, AtType DEF Running, Copying, At
  <2>2. run' = [run EXCEPT ![s] = then]
    BY <1>8 DEF ReadFingerprint
  <2> HIDE DEF then
  <2>3. TypeOK'
    BY <1>1, <1>8, <2>1, <2>2 DEF TypeOK, ReadFingerprint
  <2>4. Connected'
    BY <1>1, <2>1, <2>2 DEF Connected, TypeOK, Copying
  <2> QED
    BY <2>3, <2>4 DEF Typed
<1>9. CASE Verify(s)
  <2> DEFINE to == IF Attested(s) THEN "telling" ELSE "refused"
  <2>1. to \in Running /\ to \notin Copying
    BY DEF Running, Copying
  <2>2. At(s, to) \in RunRecord /\ At(s, to).pc = to
    BY <1>1, <2>1, AtType DEF At
  <2>3. run' = [run EXCEPT ![s] = At(s, to)]
    BY <1>9 DEF Verify
  <2> HIDE DEF to
  <2>4. TypeOK'
    BY <1>1, <1>9, <2>2, <2>3 DEF TypeOK, Verify
  <2>5. Connected'
    BY <1>1, <2>1, <2>2, <2>3 DEF Connected, TypeOK
  <2> QED
    BY <2>4, <2>5 DEF Typed
<1>10. CASE Tell(s)
  <2>1. At(s, "done") \in RunRecord /\ At(s, "done").pc = "done"
    BY <1>1, AtType DEF At
  <2>2. TypeOK'
    BY <1>1, <1>10, <2>1 DEF TypeOK, Tell
  <2>3. Connected'
    BY <1>1, <1>10, <2>1 DEF Connected, Tell, TypeOK, Copying
  <2> QED
    BY <2>2, <2>3 DEF Typed
<1>11. CASE CleanUp(s)
  <2>1. At(s, "failed") \in RunRecord /\ At(s, "failed").pc = "failed"
    BY <1>1, AtType DEF At
  <2>2. TypeOK'
    BY <1>1, <1>11, <2>1 DEF TypeOK, CleanUp, RemoveHosts
  <2>3. Connected'
    BY <1>1, <1>11, <2>1 DEF Connected, CleanUp, TypeOK, Copying
  <2> QED
    BY <2>2, <2>3 DEF Typed
<1> QED
  BY <1>2, <1>3, <1>4, <1>5, <1>6, <1>7, <1>8, <1>9, <1>10, <1>11 DEF Proceed

\* So do its faults, its owner and the host.
LEMMA NextTyped == Typed /\ [Next]_vars => Typed'
<1> SUFFICES ASSUME Typed, [Next]_vars
             PROVE  Typed'
  OBVIOUS
<1> USE DEF Step, Disturb, trustVars, hostVars
<1>1. TypeOK /\ Connected
  BY DEF Typed
<1>2. CASE UNCHANGED vars
  BY <1>1, <1>2 DEF vars, Typed, TypeOK, Connected
<1>3. CASE Host
  <2>1. \A k \in SshKey, how \in {"matching", "other"} :
          Boot(k, how) => Typed'
    BY <1>1 DEF Boot, Typed, TypeOK, Connected
  <2>2. ShutDown => Typed'
    BY <1>1 DEF ShutDown, Typed, TypeOK, Connected
  <2> QED
    BY <1>3, <2>1, <2>2 DEF Host
<1>4. CASE Owner
  <2>1. SshAsks => Typed'
    BY <1>1 DEF SshAsks, Typed, TypeOK, Connected
  <2>2. SshAccepted => Typed'
    BY <1>1, AppendRange DEF SshAccepted, Typed, TypeOK, Connected
  <2>3. SshDeclined => Typed'
    BY <1>1 DEF SshDeclined, Typed, TypeOK, Connected
  <2>4. LuksAttested => Typed'
    BY <1>1 DEF LuksAttested, RemoveHosts, Typed, TypeOK, Connected
  <2> QED
    BY <1>4, <2>1, <2>2, <2>3, <2>4 DEF Owner
<1>5. ASSUME NEW s \in Script, Start(s)
      PROVE  Typed'
  BY <1>1, <1>5 DEF Start, Typed, TypeOK, Connected, Running, Copying
<1>6. ASSUME NEW s \in Script, CallFails(s)
      PROVE  Typed'
  <2>1. At(s, "refused") \in RunRecord /\ At(s, "refused").pc = "refused"
    BY <1>1, AtType DEF Running, Copying, At, TypeOK
  <2> QED
    BY <1>1, <1>6, <2>1 DEF CallFails, Typed, TypeOK, Connected, RunRecord, Copying
<1>7. ASSUME NEW s \in Script, Kill(s)
      PROVE  Typed'
  <2>1. At(s, "killed") \in RunRecord /\ At(s, "killed").pc = "killed"
    BY <1>1, AtType DEF At, TypeOK
  <2> QED
    BY <1>1, <1>7, <2>1 DEF Kill, Typed, TypeOK, Connected, RunRecord, Copying
<1> QED
  BY <1>2, <1>3, <1>4, <1>5, <1>6, <1>7, ProceedTyped DEF Next

\* Every variable has its type in every behaviour.
THEOREM TypeCorrect == Spec => []TypeOK
<1>1. Init => Typed
  BY InitTyped
<1>2. Typed /\ [Next]_vars => Typed'
  BY NextTyped
<1>3. Typed => TypeOK
  BY DEF Typed
<1> QED
  BY <1>1, <1>2, <1>3, PTL DEF Spec

------------------------------------------------------------------------------
(* What make ssh trusts.  The run that recorded a key last answers for all *)
(* that is in known_hosts until it ends: what it read there is still all   *)
(* there is, unless the owner has vouched for more, when it is verified.   *)

Trusted == Matching \cup vouched

Recorded == {"start", "transfer", "writing", "mixing", "fingerprint", "verify",
             "telling", "refused", "killed"}

Proven ==
    /\ unproven = None => Range(known) \subseteq Trusted
    /\ \A s \in Script : unproven = s =>
         /\ run[s].pc \in Recorded
         /\ run[s].pc = "verify" => Range(known) \subseteq Range(run[s].got) \cup vouched
         /\ run[s].pc = "telling" => Range(known) \subseteq Trusted

\* A step that leaves known_hosts and the run that answers for it alone.
LEMMA ProvenUntouched ==
    ASSUME Proven, UNCHANGED trustVars, Matching \subseteq Matching',
           \A s \in Script : unproven = s => run'[s] = run[s]
    PROVE  Proven'
BY DEF Proven, Trusted, trustVars

\* A removed file holds nothing to answer for.
LEMMA ProvenRemoved == ASSUME RemoveHosts PROVE Proven'
<1>1. known' = <<>> /\ unproven' = None
  BY DEF RemoveHosts
<1>2. Range(known') = {}
  BY <1>1 DEF Range
<1>3. \A s \in Script : unproven' # s
  BY <1>1, NoneAssumption
<1> QED
  BY <1>1, <1>2, <1>3 DEF Proven

LEMMA MatchingStays ==
    ASSUME booted' = booted
    PROVE  Matching' = Matching
BY DEF Matching

\* The script keeps it.
LEMMA ProceedProven ==
    ASSUME Typed, Proven, NEW s \in Script, Proceed(s)
    PROVE  Proven'
<1> USE DEF Step, hostVars
<1>1. TypeOK /\ Connected /\ s # None
  BY NoneAssumption DEF Typed
<1>2. CASE RemoveOld(s)
  BY <1>2, ProvenRemoved DEF RemoveOld
<1>3. CASE Connect(s)
  <2>1. unproven # s
    BY <1>3 DEF Connect, Proven, Recorded
  <2> QED
    BY <1>1, <1>3, <2>1, ProvenUntouched, MatchingStays DEF Connect, TypeOK
<1>4. CASE Record(s)
  <2>1. run'[s].pc = "transfer" /\ unproven' = s
    BY <1>1, <1>4 DEF Record, TypeOK, At
  <2> QED
    BY <1>1, <2>1 DEF Proven, Recorded
<1>5. CASE Transfer(s)
  <2>1. \A t \in Script :
          \/ run'[t] = run[t]
          \/ run[t].pc \in Recorded /\ run'[t].pc \in {"writing", "mixing"}
    BY <1>1, <1>5 DEF Transfer, Writers, Recorded, At, TypeOK
  <2>2. UNCHANGED trustVars /\ Matching' = Matching
    BY <1>5, MatchingStays DEF Transfer
  <2> QED
    BY <2>1, <2>2 DEF Proven, Trusted, Recorded, trustVars
<1>6. CASE Transferred(s)
  <2>1. run'[s].pc = "fingerprint" /\ \A t \in Script \ {s} : run'[t] = run[t]
    BY <1>1, <1>6 DEF Transferred, TypeOK, At
  <2>2. UNCHANGED trustVars /\ Matching' = Matching
    BY <1>6, MatchingStays DEF Transferred
  <2> QED
    BY <2>1, <2>2 DEF Proven, Trusted, Recorded, trustVars
<1>7. CASE ConnectionLost(s)
  <2>1. run'[s].pc = "refused" /\ \A t \in Script \ {s} : run'[t] = run[t]
    BY <1>1, <1>7 DEF ConnectionLost, TypeOK, At
  <2>2. UNCHANGED trustVars /\ Matching' = Matching
    BY <1>7, MatchingStays DEF ConnectionLost
  <2> QED
    BY <2>1, <2>2 DEF Proven, Trusted, Recorded, trustVars
<1>8. CASE ReadFingerprint(s)
  <2>1. /\ run'[s].pc = "verify" /\ run'[s].got = known
        /\ \A t \in Script \ {s} : run'[t] = run[t]
    BY <1>1, <1>8 DEF ReadFingerprint, TypeOK, At
  <2>2. UNCHANGED trustVars /\ Matching' = Matching
    BY <1>8, MatchingStays DEF ReadFingerprint
  <2> QED
    BY <2>1, <2>2 DEF Proven, Trusted, Recorded, trustVars
<1>9. CASE Verify(s)
  <2>1. /\ run[s].pc = "verify"
        /\ run'[s].pc = IF Attested(s) THEN "telling" ELSE "refused"
        /\ \A t \in Script \ {s} : run'[t] = run[t]
    BY <1>1, <1>9 DEF Verify, TypeOK, At
  <2>2. UNCHANGED trustVars /\ Matching' = Matching
    BY <1>9, MatchingStays DEF Verify
  <2>3. ASSUME unproven = s, Attested(s)
        PROVE  Range(known) \subseteq Trusted
    <3>1. Range(known) \subseteq Range(run[s].got) \cup vouched
      BY <2>1, <2>3 DEF Proven
    <3>2. Range(run[s].got) = {report} /\ report \in Matching
      BY <2>3 DEF Attested, Range
    <3> QED
      BY <3>1, <3>2 DEF Trusted
  <2> QED
    BY <2>1, <2>2, <2>3 DEF Proven, Trusted, Recorded, trustVars
<1>10. CASE Tell(s)
  <2>1. run[s].pc = "telling" /\ \A t \in Script \ {s} : run'[t] = run[t]
    BY <1>1, <1>10 DEF Tell, TypeOK
  <2>2. /\ known' = known /\ vouched' = vouched /\ Matching' = Matching
        /\ unproven' = IF unproven = s THEN None ELSE unproven
    BY <1>10, MatchingStays DEF Tell
  <2>3. unproven \in {s, None} => Range(known) \subseteq Trusted
    BY <2>1 DEF Proven
  <2> QED
    BY <1>1, <2>1, <2>2, <2>3, NoneAssumption DEF Proven, Trusted
<1>11. CASE CleanUp(s)
  BY <1>11, ProvenRemoved DEF CleanUp
<1> QED
  BY <1>2, <1>3, <1>4, <1>5, <1>6, <1>7, <1>8, <1>9, <1>10, <1>11, Proceed(s) DEF Proceed

\* So do its faults, its owner and the host.
LEMMA NextProven == Typed /\ Proven /\ [Next]_vars => Proven'
<1> SUFFICES ASSUME Typed, Proven, [Next]_vars
             PROVE  Proven'
  OBVIOUS
<1> USE DEF Step, hostVars
<1>1. TypeOK
  BY DEF Typed
<1>2. CASE UNCHANGED vars
  BY <1>2, ProvenUntouched, MatchingStays DEF vars
<1>3. CASE Host
  <2>1. ASSUME NEW k \in SshKey, NEW how \in {"matching", "other"}, Boot(k, how)
        PROVE  Proven'
    <3>1. Matching \subseteq Matching'
      BY <1>1, <2>1 DEF Boot, Matching, TypeOK
    <3> QED
      BY <2>1, <3>1, ProvenUntouched DEF Boot
  <2>2. ASSUME ShutDown
        PROVE  Proven'
    BY <2>2, ProvenUntouched, MatchingStays DEF ShutDown
  <2> QED
    BY <1>3, <2>1, <2>2 DEF Host
<1>4. CASE Owner
  <2>1. ASSUME SshAsks \/ SshDeclined
        PROVE  Proven'
    BY <2>1, ProvenUntouched, MatchingStays DEF SshAsks, SshDeclined
  <2>2. ASSUME SshAccepted
        PROVE  Proven'
    <3>1. Range(known') = Range(known) \cup {asking}
      BY <1>1, <2>2, AppendRange DEF SshAccepted, TypeOK
    <3>2. /\ vouched' = vouched \cup {asking} /\ Matching' = Matching
          /\ unproven' = unproven /\ run' = run
      BY <2>2, MatchingStays DEF SshAccepted
    <3> QED
      BY <3>1, <3>2 DEF Proven, Trusted
  <2>3. ASSUME LuksAttested
        PROVE  Proven'
    BY <2>3, ProvenRemoved DEF LuksAttested
  <2> QED
    BY <1>4, <2>1, <2>2, <2>3 DEF Owner
<1>5. ASSUME NEW s \in Script, Start(s)
      PROVE  Proven'
  <2>1. /\ run[s].pc \notin Running /\ run'[s].pc = "start"
        /\ \A t \in Script \ {s} : run'[t] = run[t]
    BY <1>1, <1>5 DEF Start, TypeOK
  <2>2. UNCHANGED trustVars /\ Matching' = Matching
    BY <1>5, MatchingStays DEF Start
  <2> QED
    BY <2>1, <2>2 DEF Proven, Trusted, Recorded, trustVars
<1>6. ASSUME NEW s \in Script, CallFails(s) \/ Kill(s)
      PROVE  Proven'
  <2>1. /\ run'[s].pc \in {"refused", "killed"}
        /\ \A t \in Script \ {s} : run'[t] = run[t]
    BY <1>1, <1>6 DEF CallFails, Kill, TypeOK, At
  <2>2. UNCHANGED trustVars /\ Matching' = Matching
    BY <1>6, MatchingStays DEF CallFails, Kill
  <2> QED
    BY <2>1, <2>2 DEF Proven, Trusted, Recorded, trustVars
<1> QED
  BY <1>2, <1>3, <1>4, <1>5, <1>6, ProceedProven DEF Next

\* make ssh connects without a question only to a VM that was attested or that
\* the owner vouched for, once the run that recorded a key last has ended.
THEOREM SilentProven == Spec => []SilentOnlyWhenProven
<1>1. Init => Typed /\ Proven
  <2>1. ASSUME Init
        PROVE  Proven
    <3>1. Range(known) = {}
      BY <2>1 DEF Init, Range
    <3>2. \A s \in Script : unproven # s
      BY <2>1, NoneAssumption DEF Init
    <3> QED
      BY <3>1, <3>2 DEF Proven
  <2> QED
    BY <2>1, InitTyped
<1>2. Typed /\ Proven /\ [Next]_vars => (Typed /\ Proven)'
  BY NextTyped, NextProven
<1>3. Proven => SilentOnlyWhenProven
  BY DEF Proven, SilentOnlyWhenProven, Silent, Trusted
<1> QED
  BY <1>1, <1>2, <1>3, PTL DEF Spec

------------------------------------------------------------------------------
(* What an undisturbed run has read is about the VM it is connected to.    *)

Working == {"record", "transfer", "writing", "fingerprint", "verify"}

Faithful(s) ==
    /\ run[s].pc # "mixing"
    /\ run[s].pc \in Running => Writers \subseteq {s}
    /\ run[s].pc \in {"connect", "record"} => known = <<>>
    /\ run[s].pc \in {"transfer", "writing", "fingerprint"} => known = <<run[s].conn>>
    /\ run[s].pc \in Working => run[s].conn = vm /\ vm # None
    /\ run[s].pc \in {"fingerprint", "verify"} =>
         (run[s].conn \in Matching => report = run[s].conn)
    /\ run[s].pc = "verify" => run[s].got = <<run[s].conn>>
    /\ run[s].pc \in {"telling", "done"} => run[s].conn \in Matching
    /\ run[s].pc \in {"refused", "failed"} =>
         run[s].conn \in SshKey /\ booted[run[s].conn] = "other"

\* The VM that answers has been booted.
Answers == vm # None => booted[vm] # "unused"

Undisturbed == Answers /\ \A s \in Script \ disturbed : Faithful(s)

LEMMA InitUndisturbed == Init => Undisturbed
BY DEF Init, Undisturbed, Answers, Faithful, Working, Running, Copying

\* A step in which a run has no part, and which disturbs it if it is under way.
LEMMA FaithfulAside ==
    ASSUME TypeOK, NEW s \in Script, Faithful(s), run'[s] = run[s],
           run[s].pc \in Running =>
             UNCHANGED <<vm, known, report, booted>> /\ Writers' \subseteq Writers,
           \A k \in SshKey : booted[k] # "unused" => booted'[k] = booted[k]
    PROVE  Faithful(s)'
<1>1. Matching \subseteq Matching'
  BY DEF Matching
<1>2. CASE run[s].pc \in Running
  BY <1>1, <1>2 DEF Faithful, Working, Running, Copying, Matching
<1>3. CASE run[s].pc \notin Running
  <2>1. ASSUME run[s].pc = "failed"
        PROVE  run'[s].conn \in SshKey /\ booted'[run'[s].conn] = "other"
    BY <2>1 DEF Faithful
  <2> QED
    BY <1>1, <1>3, <2>1 DEF Faithful, Working, Running, Copying
<1> QED
  BY <1>2, <1>3

\* What run t does to the run s that it does not disturb: nothing.
LEMMA OtherFaithful ==
    ASSUME Typed, NEW t \in Script, Proceed(t),
           NEW s \in Script \ {t}, s \notin disturbed', s \notin disturbed, Faithful(s)
    PROVE  Faithful(s)'
<1> USE DEF Step, hostVars, trustVars
<1>1. TypeOK
  BY DEF Typed
<1>2. booted' = booted /\ vm' = vm
  BY DEF Proceed, RemoveOld, Connect, Record, Transfer, Transferred, ConnectionLost,
         ReadFingerprint, Verify, Tell, CleanUp
<1>3. CASE disturbed' = disturbed \cup {q \in Script \ {t} : run[q].pc \in Running}
  <2>1. run[s].pc \notin Running
    BY <1>3
  <2>2. run'[s] = run[s]
    <3>1. CASE Transfer(t)
      BY <1>1, <2>1, <3>1 DEF Transfer, Writers, Running, Copying
    <3>2. CASE ~Transfer(t)
      BY <1>1, <3>2 DEF Proceed, RemoveOld, Connect, Record, Transferred, ConnectionLost,
           ReadFingerprint, Verify, Tell, CleanUp, TypeOK
    <3> QED
      BY <3>1, <3>2
  <2> QED
    BY <1>1, <1>2, <2>1, <2>2, FaithfulAside
<1>4. CASE Connect(t) \/ ReadFingerprint(t) \/ Verify(t) \/ Tell(t) \/ ConnectionLost(t)
  <2>1. /\ run'[s] = run[s] /\ known' = known /\ report' = report
        /\ \A q \in Script \ {t} : run'[q] = run[q]
    BY <1>1, <1>4 DEF Connect, ReadFingerprint, Verify, Tell, ConnectionLost, TypeOK
  <2>2. ASSUME Connect(t)
        PROVE  run'[t].pc \in {"record", "transfer"}
    BY <1>1, <2>2 DEF Connect, At, TypeOK
  <2>3. ASSUME ~Connect(t)
        PROVE  run'[t].pc \in {"verify", "telling", "refused", "done"}
    <3>1. CASE ReadFingerprint(t)
      BY <1>1, <3>1 DEF ReadFingerprint, At, TypeOK
    <3>2. CASE Verify(t)
      BY <1>1, <3>2 DEF Verify, At, TypeOK
    <3>3. CASE Tell(t) \/ ConnectionLost(t)
      BY <1>1, <3>3 DEF Tell, ConnectionLost, At, TypeOK
    <3> QED
      BY <1>4, <2>3, <3>1, <3>2, <3>3
  <2>4. Writers' \subseteq Writers
    BY <2>1, <2>2, <2>3 DEF Writers
  <2> QED
    BY <1>1, <1>2, <2>1, <2>4, FaithfulAside
<1> QED
  BY <1>3, <1>4, Proceed(t) DEF Proceed, RemoveOld, Record, Transfer, Transferred, CleanUp,
       Disturb

\* A run that nothing disturbs stays so.
LEMMA ProceedFaithful ==
    ASSUME Typed, Undisturbed, NEW s \in Script, Proceed(s), s \notin disturbed'
    PROVE  Faithful(s)'
<1> USE DEF Step, hostVars, trustVars
<1>1. TypeOK /\ Connected
  BY DEF Typed
<1>2. s \notin disturbed
  BY DEF Proceed, RemoveOld, Connect, Record, Transfer, Transferred, ConnectionLost,
         ReadFingerprint, Verify, Tell, CleanUp, Disturb
<1>3. Faithful(s) /\ Answers /\ vm' = vm /\ booted' = booted /\ Matching' = Matching
  BY <1>2, MatchingStays DEF Undisturbed, Proceed, RemoveOld, Connect, Record, Transfer,
       Transferred, ConnectionLost, ReadFingerprint, Verify, Tell, CleanUp
<1>4. ASSUME NEW to, run' = [run EXCEPT ![s] = to], to \in RunRecord,
             run[s].pc \in Running
      PROVE  run'[s] = to /\ (to.pc # "mixing" => Writers' \subseteq {s})
  <2>1. run'[s] = to /\ \A q \in Script \ {s} : run'[q] = run[q]
    BY <1>1, <1>4 DEF TypeOK
  <2> QED
    BY <1>3, <1>4, <2>1 DEF Faithful, Writers
<1>5. \A to \in Running \cup {"done", "failed", "killed"} :
        /\ At(s, to) \in RunRecord
        /\ At(s, to).pc = to /\ At(s, to).conn = run[s].conn /\ At(s, to).got = run[s].got
  BY <1>1, AtType DEF At, TypeOK
<1>6. run[s].pc \in Running
  BY DEF Proceed, RemoveOld, Connect, Record, Transfer, Transferred, ConnectionLost,
         ReadFingerprint, Verify, Tell, CleanUp, Running, Copying
<1>7. {"start", "connect", "record", "transfer", "writing", "fingerprint", "verify",
       "telling", "refused"} \subseteq Running
  BY DEF Running, Copying
<1>8. CASE RemoveOld(s)
  <2>1. run'[s].pc = "connect" /\ known' = <<>> /\ Writers' \subseteq {s}
    BY <1>4, <1>5, <1>6, <1>7, <1>8 DEF RemoveOld, RemoveHosts
  <2> QED
    BY <2>1 DEF Faithful, Working
<1>9. CASE Connect(s)
  <2>1. run[s].pc = "connect" /\ known = <<>> /\ known' = known /\ vm \in SshKey /\ vm # None
    BY <1>1, <1>3, <1>9 DEF Connect, Faithful, TypeOK
  <2>2. [At(s, "record") EXCEPT !.conn = vm] \in RunRecord
    BY <1>1, <1>7, <2>1, AtType
  <2>3. run' = [run EXCEPT ![s] = [At(s, "record") EXCEPT !.conn = vm]]
    BY <1>9, <2>1 DEF Connect
  <2>4. /\ [At(s, "record") EXCEPT !.conn = vm].pc = "record"
        /\ [At(s, "record") EXCEPT !.conn = vm].conn = vm
    BY <1>1 DEF At, TypeOK
  <2>5. run'[s].pc = "record" /\ run'[s].conn = vm /\ Writers' \subseteq {s}
    BY <1>4, <1>6, <2>2, <2>3, <2>4
  <2> QED
    BY <1>3, <2>1, <2>5 DEF Faithful, Working
<1>10. CASE Record(s)
  <2>1. run[s].pc = "record" /\ known = <<>> /\ run[s].conn = vm /\ vm # None
    BY <1>3, <1>10 DEF Record, Faithful, Working
  <2>2. known' = <<run[s].conn>>
    BY <1>10, <2>1 DEF Record
  <2>3. run'[s] = At(s, "transfer") /\ Writers' \subseteq {s}
    BY <1>4, <1>5, <1>6, <1>7, <1>10 DEF Record
  <2>4. run'[s].pc = "transfer" /\ run'[s].conn = run[s].conn
    BY <1>5, <1>7, <2>3
  <2> QED
    BY <1>3, <2>1, <2>2, <2>3, <2>4 DEF Faithful, Working
<1>11. CASE Transfer(s)
  <2>1. run[s].pc = "transfer" /\ known' = known /\ known = <<run[s].conn>>
        /\ run[s].conn = vm /\ vm # None
    BY <1>3, <1>11 DEF Transfer, Faithful, Working
  <2>2. Writers = {}
    <3>1. Writers \subseteq {s}
      BY <1>3, <1>6 DEF Faithful
    <3> QED
      BY <2>1, <3>1 DEF Writers
  <2>3. run'[s] = At(s, "writing") /\ \A q \in Script \ {s} : run'[q] = run[q]
    BY <1>11, <2>2 DEF Transfer
  <2>4. Writers' \subseteq {s}
    BY <2>2, <2>3 DEF Writers
  <2>5. run'[s].pc = "writing" /\ run'[s].conn = run[s].conn
    BY <1>5, <1>7, <2>3
  <2> QED
    BY <1>3, <2>1, <2>4, <2>5 DEF Faithful, Working
<1>12. CASE Transferred(s)
  <2>1. run[s].pc = "writing" /\ known' = known /\ known = <<run[s].conn>>
        /\ run[s].conn = vm /\ vm # None
    BY <1>3, <1>12 DEF Transferred, Faithful, Working
  <2>2. run'[s] = At(s, "fingerprint") /\ Writers' \subseteq {s}
    <3>1. run' = [run EXCEPT ![s] = At(s, "fingerprint")]
      BY <1>12 DEF Transferred
    <3>2. At(s, "fingerprint") \in RunRecord /\ At(s, "fingerprint").pc # "mixing"
      BY <1>5, <1>7
    <3> QED
      BY <1>4, <1>6, <3>1, <3>2
  <2>3. run'[s].pc = "fingerprint" /\ run'[s].conn = run[s].conn
    BY <1>5, <1>7, <2>2
  <2>4. vm \in Matching => report' = vm
    BY <1>12, <2>1 DEF Transferred, Served, Matching
  <2> QED
    BY <1>3, <2>1, <2>2, <2>3, <2>4 DEF Faithful, Working
<1>13. CASE ConnectionLost(s)
  BY <1>6, <1>13 DEF ConnectionLost, Disturb
<1>14. CASE ReadFingerprint(s)
  <2>1. /\ run[s].pc = "fingerprint" /\ known = <<run[s].conn>>
        /\ run[s].conn = vm /\ vm # None
        /\ run[s].conn \in Matching => report = run[s].conn
        /\ report' = report
    BY <1>3, <1>14 DEF ReadFingerprint, Faithful, Working
  <2>2. [At(s, "verify") EXCEPT !.got = known] \in RunRecord
    BY <1>1, <1>7, AtType DEF TypeOK
  <2>3. /\ [At(s, "verify") EXCEPT !.got = known].pc = "verify"
        /\ [At(s, "verify") EXCEPT !.got = known].conn = run[s].conn
        /\ [At(s, "verify") EXCEPT !.got = known].got = known
    BY <1>1 DEF At, TypeOK
  <2>4. /\ run'[s].pc = "verify" /\ run'[s].conn = run[s].conn /\ run'[s].got = known
        /\ Writers' \subseteq {s}
    BY <1>4, <1>6, <1>14, <2>2, <2>3 DEF ReadFingerprint
  <2> QED
    BY <1>3, <2>1, <2>4 DEF Faithful, Working
<1>15. CASE Verify(s)
  <2>1. /\ run[s].pc = "verify" /\ run[s].got = <<run[s].conn>>
        /\ run[s].conn = vm /\ vm # None /\ vm \in SshKey
        /\ run[s].conn \in Matching => report = run[s].conn
    BY <1>1, <1>3, <1>15 DEF Verify, Faithful, Working, TypeOK
  <2>2. Attested(s) <=> run[s].conn \in Matching
    BY <2>1 DEF Attested
  <2>3. ~Attested(s) => booted[run[s].conn] = "other"
    BY <1>1, <1>3, <2>1, <2>2 DEF Answers, Matching, TypeOK
  <2>4. /\ run'[s] = At(s, IF Attested(s) THEN "telling" ELSE "refused")
        /\ Writers' \subseteq {s}
    BY <1>4, <1>5, <1>6, <1>7, <1>15 DEF Verify
  <2>5. /\ run'[s].pc = IF Attested(s) THEN "telling" ELSE "refused"
        /\ run'[s].conn = run[s].conn
    BY <1>5, <1>7, <2>4
  <2> QED
    BY <1>3, <2>1, <2>2, <2>3, <2>4, <2>5 DEF Faithful, Working
<1>16. CASE Tell(s) \/ CleanUp(s)
  <2>1. \/ run[s].pc = "telling" /\ run'[s] = At(s, "done")
        \/ run[s].pc = "refused" /\ run'[s] = At(s, "failed")
    BY <1>4, <1>5, <1>6, <1>16 DEF Tell, CleanUp
  <2>2. /\ run'[s].conn = run[s].conn
        /\ \/ run[s].pc = "telling" /\ run'[s].pc = "done"
           \/ run[s].pc = "refused" /\ run'[s].pc = "failed"
    BY <1>5, <2>1
  <2> QED
    BY <1>3, <2>2 DEF Faithful, Working, Running, Copying
<1> QED
  BY <1>8, <1>9, <1>10, <1>11, <1>12, <1>13, <1>14, <1>15, <1>16, Proceed(s) DEF Proceed

LEMMA NextUndisturbed == Typed /\ Undisturbed /\ [Next]_vars => Undisturbed'
<1> SUFFICES ASSUME Typed, Undisturbed, [Next]_vars
             PROVE  Undisturbed'
  OBVIOUS
<1> USE DEF Step, hostVars, trustVars
<1>1. TypeOK /\ Answers
  BY DEF Typed, Undisturbed
<1>2. CASE UNCHANGED vars
  BY <1>1, <1>2 DEF vars, Undisturbed, Answers, Faithful, Writers, Matching
<1>3. ASSUME run' = run, UNCHANGED <<booted, vm>>,
             \/ UNCHANGED <<known, report, disturbed>>
             \/ disturbed' = disturbed \cup {q \in Script : run[q].pc \in Running}
      PROVE  Undisturbed'
  <2>1. ASSUME NEW s \in Script \ disturbed'
        PROVE  Faithful(s)'
    <3>1. s \notin disturbed /\ Writers' = Writers
      BY <1>3, <2>1 DEF Writers
    <3>2. Faithful(s)
      BY <3>1 DEF Undisturbed
    <3> QED
      BY <1>1, <1>3, <2>1, <3>1, <3>2, FaithfulAside
  <2> QED
    BY <1>1, <1>3, <2>1 DEF Undisturbed, Answers
<1>4. CASE Host
  <2>1. /\ run' = run /\ disturbed' = disturbed \cup {q \in Script : run[q].pc \in Running}
        /\ \A k \in SshKey : booted[k] # "unused" => booted'[k] = booted[k]
        /\ Answers'
    BY <1>1, <1>4 DEF Host, Boot, ShutDown, Disturb, Answers, TypeOK
  <2>2. ASSUME NEW s \in Script \ disturbed'
        PROVE  Faithful(s)'
    BY <1>1, <2>1, <2>2, FaithfulAside DEF Undisturbed
  <2> QED
    BY <2>1, <2>2 DEF Undisturbed
<1>5. CASE Owner
  BY <1>3, <1>5 DEF Owner, SshAsks, SshAccepted, SshDeclined, LuksAttested, Disturb
<1>6. ASSUME NEW t \in Script, Start(t)
      PROVE  Undisturbed'
  <2>1. /\ \A q \in Script \ {t} : run'[q] = run[q]
        /\ run'[t].pc = "start" /\ run[t].pc \notin Running
        /\ UNCHANGED <<booted, vm, known, report>>
    BY <1>1, <1>6 DEF Start, TypeOK
  <2>2. Writers' \subseteq Writers
    BY <2>1 DEF Writers
  <2>3. ASSUME t \notin disturbed'
        PROVE  Faithful(t)'
    <3>1. Writers = {}
      BY <1>6, <2>3 DEF Start
    <3> QED
      BY <2>1, <2>2, <3>1 DEF Faithful, Working
  <2>4. ASSUME NEW s \in Script \ disturbed', s # t
        PROVE  Faithful(s)'
    <3>1. s \notin disturbed
      BY <1>6, <2>4 DEF Start
    <3> QED
      BY <1>1, <2>1, <2>2, <2>4, <3>1, FaithfulAside DEF Undisturbed
  <2> QED
    BY <1>1, <2>1, <2>3, <2>4 DEF Undisturbed, Answers
<1>7. ASSUME NEW t \in Script, CallFails(t) \/ Kill(t)
      PROVE  Undisturbed'
  <2>1. /\ \A q \in Script \ {t} : run'[q] = run[q]
        /\ \/ run'[t].pc = "killed"
           \/ run'[t].pc = "refused" /\ t \in disturbed'
        /\ disturbed \subseteq disturbed'
        /\ UNCHANGED <<booted, vm, known, report>>
    BY <1>1, <1>7 DEF CallFails, Kill, Disturb, At, TypeOK, Running
  <2>2. Writers' \subseteq Writers
    BY <2>1 DEF Writers
  <2>3. t \notin disturbed' => Faithful(t)'
    BY <2>1 DEF Faithful, Working, Running, Copying
  <2>4. ASSUME NEW s \in Script \ disturbed', s # t
        PROVE  Faithful(s)'
    BY <1>1, <2>1, <2>2, <2>4, FaithfulAside DEF Undisturbed
  <2> QED
    BY <1>1, <2>1, <2>3, <2>4 DEF Undisturbed, Answers
<1>8. ASSUME NEW t \in Script, Proceed(t)
      PROVE  Undisturbed'
  <2>1. booted' = booted /\ vm' = vm /\ disturbed \subseteq disturbed'
    BY <1>8 DEF Proceed, RemoveOld, Connect, Record, Transfer, Transferred, ConnectionLost,
         ReadFingerprint, Verify, Tell, CleanUp, Disturb
  <2>2. ASSUME NEW s \in Script \ disturbed'
        PROVE  Faithful(s)'
    BY <1>8, <2>1, <2>2, OtherFaithful, ProceedFaithful DEF Undisturbed
  <2> QED
    BY <1>1, <2>1, <2>2 DEF Undisturbed, Answers
<1> QED
  BY <1>2, <1>4, <1>5, <1>6, <1>7, <1>8 DEF Next

\* The verdict of an undisturbed run is about the VM that it was connected to.
THEOREM VerdictUndisturbed == Spec => []VerdictOfUndisturbed
<1>1. Init => Typed /\ Undisturbed
  BY InitTyped, InitUndisturbed
<1>2. Typed /\ Undisturbed /\ [Next]_vars => (Typed /\ Undisturbed)'
  BY NextTyped, NextUndisturbed
<1>3. Undisturbed => VerdictOfUndisturbed
  BY DEF Undisturbed, Faithful, VerdictOfUndisturbed, Matching
<1> QED
  BY <1>1, <1>2, <1>3, PTL DEF Spec
==============================================================================
