-------------------------- MODULE ReportCheckProofs --------------------------
(***************************************************************************)
(* Proofs about ReportCheck, for any number of TCB components and levels.  *)
(***************************************************************************)
EXTENDS ReportCheck, TLAPS

\* What check_report_data() may return.
DataVerdict ==
    {"Ok", "PolicyMismatch", "InvalidIdBlock", "TcbVersionMismatch",
     "PlatformInfoMismatch", "ReportDataMismatch", "LaunchDigestMismatch"}

\* check_report_data() returns Ok exactly when every stated expectation holds:
\* no check is skipped because an earlier one was passed or left out.
LEMMA OkMeansAllHold ==
    ASSUME NEW exp \in Expectation,
           NEW rep \in Report
    PROVE  /\ CheckReportData(exp, rep) = "Ok" <=> Satisfies(exp, rep)
           /\ CheckReportData(exp, rep) \in DataVerdict
<1> DEFINE checks == <<
      Check("PolicyMismatch", exp.policy = "right"),
      Check("InvalidIdBlock", IdBlockMatches(exp.idblock)),
      Check("TcbVersionMismatch", TcbSuffices(rep.committed, exp.tcb)),
      Check("PlatformInfoMismatch", exp.plat_info = "right"),
      Check("ReportDataMismatch", exp.report_data # None => exp.report_data = "right"),
      Check("LaunchDigestMismatch", exp.ld = "right")>>
           failed == {i \in DOMAIN checks : ~checks[i].holds}
<1>1. DOMAIN checks = 1 .. 6
  OBVIOUS
<1>2. /\ \A i \in 1 .. 6 : checks[i].error \in DataVerdict \ {"Ok"}
      /\ checks[1].holds <=> exp.policy = "right"
      /\ checks[2].holds <=> IdBlockMatches(exp.idblock)
      /\ checks[3].holds <=> TcbSuffices(rep.committed, exp.tcb)
      /\ checks[4].holds <=> exp.plat_info = "right"
      /\ checks[5].holds <=> (exp.report_data # None => exp.report_data = "right")
      /\ checks[6].holds <=> exp.ld = "right"
  <2>1. /\ checks[1].error = "PolicyMismatch" /\ checks[2].error = "InvalidIdBlock"
        /\ checks[3].error = "TcbVersionMismatch"
        /\ checks[4].error = "PlatformInfoMismatch"
        /\ checks[5].error = "ReportDataMismatch"
        /\ checks[6].error = "LaunchDigestMismatch"
    BY DEF Check
  <2>2. checks[1].holds <=> exp.policy = "right"
    BY DEF Check
  <2>3. checks[2].holds <=> IdBlockMatches(exp.idblock)
    BY DEF Check
  <2>4. checks[3].holds <=> TcbSuffices(rep.committed, exp.tcb)
    BY DEF Check
  <2>5. checks[4].holds <=> exp.plat_info = "right"
    BY DEF Check
  <2>6. checks[5].holds <=> (exp.report_data # None => exp.report_data = "right")
    BY DEF Check
  <2>7. checks[6].holds <=> exp.ld = "right"
    BY DEF Check
  <2> HIDE DEF checks
  <2>8. \A i \in 1 .. 6 : checks[i].error \in DataVerdict \ {"Ok"}
    BY <2>1 DEF DataVerdict
  <2> QED
    BY <2>2, <2>3, <2>4, <2>5, <2>6, <2>7, <2>8
<1>3. CheckReportData(exp, rep) = IF failed = {} THEN "Ok" ELSE checks[Min(failed)].error
  BY DEF CheckReportData, FirstError
<1> HIDE DEF checks
<1>4. ASSUME failed # {} PROVE Min(failed) \in 1 .. 6
  <2>1. PICK i \in failed : \A j \in failed : i <= j
    <3>1. failed \subseteq 1 .. 6
      BY <1>1
    <3> HIDE DEF failed
    <3>2. \A j \in failed :
            j = 1 \/ j = 2 \/ j = 3 \/ j = 4 \/ j = 5 \/ j = 6
      BY <3>1
    <3>3. CASE 1 \in failed
      BY <3>1, <3>3
    <3>4. CASE 1 \notin failed /\ 2 \in failed
      BY <3>2, <3>4
    <3>5. CASE 1 \notin failed /\ 2 \notin failed /\ 3 \in failed
      BY <3>2, <3>5
    <3>6. CASE 1 \notin failed /\ 2 \notin failed /\ 3 \notin failed /\ 4 \in failed
      BY <3>2, <3>6
    <3>7. CASE {1, 2, 3, 4} \cap failed = {} /\ 5 \in failed
      BY <3>2, <3>7
    <3>8. CASE {1, 2, 3, 4, 5} \cap failed = {} /\ 6 \in failed
      BY <3>2, <3>8
    <3> QED
      BY <3>2, <3>3, <3>4, <3>5, <3>6, <3>7, <3>8, <1>4
  <2> QED
    BY <2>1, <1>1 DEF Min
<1>5. /\ CheckReportData(exp, rep) = "Ok" <=> \A i \in 1 .. 6 : checks[i].holds
      /\ CheckReportData(exp, rep) \in DataVerdict
  BY <1>1, <1>2, <1>3, <1>4 DEF DataVerdict
<1>6. IdBlockMatches(exp.idblock)
        <=> (exp.idblock # None => exp.idblock = [f \in IdField |-> "right"])
  BY DEF IdBlockMatches, Expectation
<1>7. TcbSuffices(rep.committed, exp.tcb) <=> AtLeast(rep.committed, exp.tcb)
  <2>1. rep.committed \in [Component -> 0 .. MaxLevel] /\ exp.tcb \in [Component -> 0 .. MaxLevel]
    BY DEF Expectation, Report, Tcb
  <2>2. \A p \in Component : rep.committed[p] \in Nat /\ exp.tcb[p] \in Nat
    BY <2>1, MaxLevelAssumption
  <2>3. \A p \in Component :
          ~(rep.committed[p] < exp.tcb[p]) <=> rep.committed[p] >= exp.tcb[p]
    BY <2>2
  <2> QED
    BY <2>3 DEF TcbSuffices, AtLeast
<1>8. exp.report_data # "wrong" <=> (exp.report_data # None => exp.report_data = "right")
  BY NoneAssumption DEF Expectation, Value
<1> QED
  BY <1>2, <1>5, <1>6, <1>7, <1>8 DEF Satisfies

\* Versions are compared part by part, so that "at least" is transitive.
LEMMA AtLeastTransitive ==
    ASSUME NEW a \in Tcb, NEW b \in Tcb, NEW c \in Tcb,
           AtLeast(a, b), AtLeast(b, c)
    PROVE  AtLeast(a, c)
<1>1. \A p \in Component : a[p] \in Nat /\ b[p] \in Nat /\ c[p] \in Nat
  BY MaxLevelAssumption DEF Tcb
<1>2. \A p \in Component : a[p] >= b[p] /\ b[p] >= c[p]
  BY DEF AtLeast
<1> QED
  BY <1>1, <1>2 DEF AtLeast

------------------------------------------------------------------------------
(* The inductive invariant: the host stays at least where its report says  *)
(* it is, and the verdict is the one verify_and_check_report() gives.      *)

HostTypeOK ==
    /\ committed \in Tcb /\ current \in Tcb
    /\ report \in Report \cup {None}
    /\ expected \in Expectation \cup {None}

IInv ==
    /\ HostTypeOK
    /\ AtLeast(current, committed)
    /\ report # None => AtLeast(committed, report.committed)
    /\ verdict # "none" =>
         /\ report \in Report /\ expected \in Expectation
         /\ verdict = VerifyAndCheckReport(expected, report)

\* The invariant holds of a host that has just come up and of every host that
\* updates, rolls back and commits, while reports are taken and checked.
THEOREM Invariance == Spec => []IInv
<1>1. Init => IInv
  <2> SUFFICES ASSUME Init PROVE IInv
    OBVIOUS
  <2>1. committed \in Tcb /\ current = committed
    BY MaxLevelAssumption DEF Init, Tcb
  <2>2. AtLeast(current, committed)
    BY <2>1, MaxLevelAssumption DEF AtLeast, Tcb
  <2> QED
    BY <2>1, <2>2 DEF Init, IInv, HostTypeOK
<1>2. IInv /\ [Next]_vars => IInv'
  <2> SUFFICES ASSUME IInv, [Next]_vars PROVE IInv'
    OBVIOUS
  <2>1. ASSUME NEW tcb \in Tcb, UseFirmware(tcb) PROVE IInv'
    BY <2>1 DEF UseFirmware, IInv, HostTypeOK
  <2>2. ASSUME NEW tcb \in Tcb, TakeReport(tcb) PROVE IInv'
    <3>1. report' \in Report /\ report'.committed = committed
      BY <2>2 DEF TakeReport, IInv, HostTypeOK, Report
    <3>2. AtLeast(committed, committed)
      BY MaxLevelAssumption DEF AtLeast, IInv, HostTypeOK, Tcb
    <3>3. verdict = "none"
      BY <2>2, NoneAssumption DEF TakeReport, IInv
    <3> QED
      BY <2>2, <3>1, <3>2, <3>3 DEF TakeReport, IInv, HostTypeOK
  <2>3. CASE CommitFirmware
    <3>1. AtLeast(current, current)
      BY MaxLevelAssumption DEF AtLeast, IInv, HostTypeOK, Tcb
    <3>2. ASSUME report # None PROVE AtLeast(current, report.committed)
      BY <3>2, AtLeastTransitive DEF IInv, HostTypeOK, Report
    <3> QED
      BY <2>3, <3>1, <3>2 DEF CommitFirmware, IInv, HostTypeOK
  <2>4. ASSUME NEW exp \in Expectation, VerifyReport(exp) PROVE IInv'
    BY <2>4 DEF VerifyReport, IInv, HostTypeOK
  <2>5. CASE Conclude
    BY <2>5 DEF Conclude, IInv, HostTypeOK
  <2>6. CASE UNCHANGED vars
    BY <2>6 DEF vars, IInv, HostTypeOK
  <2> QED
    BY <2>1, <2>2, <2>3, <2>4, <2>5, <2>6 DEF Next
<1> QED
  BY <1>1, <1>2, PTL DEF Spec

\* TypeOK: every variable has its type; a verdict is one of the errors that
\* verify_and_check_report() may return, or Ok.
THEOREM TypeCorrect == Spec => []TypeOK
<1>1. IInv => TypeOK
  <2> SUFFICES ASSUME IInv
               PROVE  verdict \in DataVerdict \cup {"none", "InvalidSignature"}
    BY DEF IInv, HostTypeOK, TypeOK, DataVerdict
  <2>1. CASE verdict = "none"
    BY <2>1
  <2>2. CASE verdict # "none"
    <3>1. CheckReportData(expected, report) \in DataVerdict
      BY <2>2, OkMeansAllHold DEF IInv
    <3>2. verdict \in {"Ok", "InvalidSignature", CheckReportData(expected, report)}
      BY <2>2 DEF IInv, VerifyAndCheckReport
    <3> QED
      BY <3>1, <3>2 DEF DataVerdict
  <2> QED
    BY <2>1, <2>2
<1> QED
  BY <1>1, Invariance, PTL

\* AcceptedHostStaysAtLeast: whatever the host does with its firmware between
\* the report and its check, or afterwards, an accepted host is at least at the
\* version that min_commited_tcb asks for.
THEOREM AcceptedHost == Spec => []AcceptedHostStaysAtLeast
<1>1. IInv => AcceptedHostStaysAtLeast
  <2> SUFFICES ASSUME IInv, verdict = "Ok"
               PROVE  AtLeast(current, expected.tcb) /\ AtLeast(committed, expected.tcb)
    BY DEF AcceptedHostStaysAtLeast
  <2>1. report \in Report /\ expected \in Expectation
    BY DEF IInv
  <2>2. CheckReportData(expected, report) = "Ok"
    BY DEF IInv, VerifyAndCheckReport
  <2>3. AtLeast(report.committed, expected.tcb)
    BY <2>1, <2>2, OkMeansAllHold DEF Satisfies
  <2>4. /\ committed \in Tcb /\ current \in Tcb
        /\ report.committed \in Tcb /\ expected.tcb \in Tcb
    BY <2>1 DEF IInv, HostTypeOK, Report, Expectation
  <2>5. AtLeast(committed, report.committed) /\ AtLeast(current, committed)
    BY <2>1, NoneAssumption DEF IInv
  <2>6. AtLeast(committed, expected.tcb)
    BY <2>3, <2>4, <2>5, AtLeastTransitive
  <2> QED
    BY <2>4, <2>5, <2>6, AtLeastTransitive
<1> QED
  BY <1>1, Invariance, PTL

\* VerdictNamesTheCause: a report is blamed on its signature, or accepted, only
\* when everything the owner stated about it holds.
THEOREM NamedCause == Spec => []VerdictNamesTheCause
<1>1. IInv => VerdictNamesTheCause
  <2> SUFFICES ASSUME IInv, verdict # "none"
               PROVE  verdict \in {"Ok", "InvalidSignature"} <=> Satisfies(expected, report)
    BY DEF VerdictNamesTheCause
  <2>1. /\ CheckReportData(expected, report) = "Ok" <=> Satisfies(expected, report)
        /\ CheckReportData(expected, report) # "InvalidSignature"
    BY OkMeansAllHold DEF IInv, DataVerdict
  <2>2. verdict \in {"Ok", "InvalidSignature"} <=> CheckReportData(expected, report) = "Ok"
    BY <2>1 DEF IInv, VerifyAndCheckReport
  <2> QED
    BY <2>1, <2>2
<1> QED
  BY <1>1, Invariance, PTL

\* RefusedOnlyWhileUncommitted: an owner whose expectations are met is refused
\* only when the host has its reports signed for another version than the one
\* whose certificate the tools fetch.
THEOREM RefusedForTheKey == Spec => []RefusedOnlyWhileUncommitted
<1>1. IInv => RefusedOnlyWhileUncommitted
  <2> SUFFICES ASSUME IInv, verdict \notin {"none", "Ok"}, Satisfies(expected, report)
               PROVE  report.reported # report.committed
    BY DEF RefusedOnlyWhileUncommitted
  <2>1. CheckReportData(expected, report) = "Ok"
    BY OkMeansAllHold DEF IInv
  <2> QED
    BY <2>1 DEF IInv, VerifyAndCheckReport, VerifyReportSignature, Vcek, SignedFor
<1> QED
  BY <1>1, Invariance, PTL
==============================================================================
