----------------------------- MODULE ReportCheck -----------------------------
(***************************************************************************)
(* Checking an attestation report (snp_validate_report.rs, and its callers *)
(* client_main.rs and verify_report/main.rs) against what the guest owner  *)
(* expects, while the host updates, rolls back and commits its firmware.   *)
(*                                                                         *)
(* Only equality matters of a policy, digest, id or nonce, so each is      *)
(* "right", what this VM reports, or something else.  The host may run a   *)
(* newer firmware than the one it has committed to, and may have the       *)
(* firmware report an older one than it runs.                              *)
(***************************************************************************)
EXTENDS Naturals, FiniteSetsExt

CONSTANTS
    Component,  \* the parts of a TcbVersion: four in the code
    MaxLevel,   \* bound on the security patch level of a part
    IdField,    \* the fields compared of an id block: five in the code
    None        \* an expectation that is not given

Value == {"right", "wrong"}

Tcb == [Component -> 0 .. MaxLevel]

\* The versions a report states: committed, in use, and the one it is signed for.
Report == [committed : Tcb, current : Tcb, reported : Tcb]

ASSUME MaxLevelAssumption == MaxLevel \in Nat
ASSUME NoneAssumption == None \notin Value \cup Report

\* What a caller passes; id block and report data may be left out.
Expectation == [policy : Value, idblock : [IdField -> Value] \cup {None},
                tcb : Tcb, plat_info : Value, report_data : Value \cup {None},
                ld : Value]

VARIABLES
    committed,  \* the host's committed TCB version: cannot be rolled back
    current,    \* the version in use
    report,     \* the TCB versions of the report under check, or None
    expected,   \* what it is checked against
    verdict     \* "none", "Ok" or the error

vars == <<committed, current, report, expected, verdict>>

AtLeast(a, b) == \A p \in Component : a[p] >= b[p]

------------------------------------------------------------------------------
(* The checks.                                                             *)

\* The outcome of checks made in this order, each with the error it returns.
FirstError(checks) ==
    LET failed == {i \in DOMAIN checks : ~checks[i].holds}
    IN  IF failed = {} THEN "Ok" ELSE checks[Min(failed)].error

Check(error, holds) == [error |-> error, holds |-> holds]

\* IDBlockReportData::check()
IdBlockMatches(idblock) == idblock # None => \A f \in IdField : idblock[f] = "right"

\* Mutant: it is enough that one part reaches the minimum.
TcbSuffices_AnyPart(got, min) == \E p \in Component : got[p] >= min[p]

\* Mutant: the minimum itself is not enough.
TcbSuffices_Strict(got, min) == ~ \E p \in Component : got[p] <= min[p]

\* Every part of the committed version reaches the minimum.
TcbSuffices(got, min) == ~ \E p \in Component : got[p] < min[p]

\* Mutant: the version in use is compared, not the committed one.
CheckReportData_Current(exp, rep) == FirstError(<<
    Check("PolicyMismatch", exp.policy = "right"),
    Check("InvalidIdBlock", IdBlockMatches(exp.idblock)),
    Check("TcbVersionMismatch", TcbSuffices(rep.current, exp.tcb)),
    Check("PlatformInfoMismatch", exp.plat_info = "right"),
    Check("ReportDataMismatch", exp.report_data # None => exp.report_data = "right"),
    Check("LaunchDigestMismatch", exp.ld = "right")>>)

\* Mutant: host data, which nobody expects, is compared all the same.
CheckReportData_HostData(exp, rep) == FirstError(<<
    Check("PolicyMismatch", exp.policy = "right"),
    Check("InvalidIdBlock", IdBlockMatches(exp.idblock)),
    Check("TcbVersionMismatch", TcbSuffices(rep.committed, exp.tcb)),
    Check("HostDataMismatch", FALSE)>>)

\* check_report_data(); no caller passes host data.
CheckReportData(exp, rep) == FirstError(<<
    Check("PolicyMismatch", exp.policy = "right"),
    Check("InvalidIdBlock", IdBlockMatches(exp.idblock)),
    Check("TcbVersionMismatch", TcbSuffices(rep.committed, exp.tcb)),
    Check("PlatformInfoMismatch", exp.plat_info = "right"),
    Check("ReportDataMismatch", exp.report_data # None => exp.report_data = "right"),
    Check("LaunchDigestMismatch", exp.ld = "right")>>)

\* The firmware signs with the key of the version it reports.
SignedFor(rep) == rep.reported

\* Both callers fetch the certificate of the committed version.
Vcek(rep) == rep.committed

\* verify_report_signature()
VerifyReportSignature(rep, vcek) == vcek = SignedFor(rep)

\* Mutant: the signature comes first.
VerifyAndCheckReport_SignatureFirst(exp, rep) ==
    IF ~VerifyReportSignature(rep, Vcek(rep)) THEN "InvalidSignature"
    ELSE CheckReportData(exp, rep)

\* verify_and_check_report(): the data first, then the signature.
VerifyAndCheckReport(exp, rep) ==
    IF CheckReportData(exp, rep) # "Ok" THEN CheckReportData(exp, rep)
    ELSE IF VerifyReportSignature(rep, Vcek(rep)) THEN "Ok" ELSE "InvalidSignature"

------------------------------------------------------------------------------
(* The host and the check.                                                 *)

Init ==
    /\ committed = [p \in Component |-> 0]
    /\ current = committed
    /\ report = None
    /\ expected = None
    /\ verdict = "none"

\* The host changes the version in use, never below the committed one.
UseFirmware(tcb) ==
    /\ AtLeast(tcb, committed)
    /\ current' = tcb
    /\ UNCHANGED <<committed, report, expected, verdict>>

\* The version in use can no longer be rolled back.
CommitFirmware ==
    /\ committed' = current
    /\ UNCHANGED <<current, report, expected, verdict>>

\* The VM produces a report; the host has set the version it is signed for.
TakeReport(tcb) ==
    /\ report = None
    /\ AtLeast(current, tcb)
    /\ report' = [committed |-> committed, current |-> current, reported |-> tcb]
    /\ UNCHANGED <<committed, current, expected, verdict>>

\* The report is checked, maybe long after it was taken.
VerifyReport(exp) ==
    /\ report # None
    /\ verdict = "none"
    /\ expected' = exp
    /\ verdict' = VerifyAndCheckReport(exp, report)
    /\ UNCHANGED <<committed, current, report>>

\* The verdict is known; another report may be asked for.
Conclude ==
    /\ verdict # "none"
    /\ report' = None /\ expected' = None /\ verdict' = "none"
    /\ UNCHANGED <<committed, current>>

Next ==
    \/ \E tcb \in Tcb : UseFirmware(tcb) \/ TakeReport(tcb)
    \/ CommitFirmware
    \/ \E exp \in Expectation : VerifyReport(exp)
    \/ Conclude

Spec == Init /\ [][Next]_vars

------------------------------------------------------------------------------
(* Properties.                                                             *)

\* Every variable has its type.
TypeOK ==
    /\ committed \in Tcb /\ current \in Tcb
    /\ report \in Report \cup {None}
    /\ expected \in Expectation \cup {None}
    /\ verdict \in {"none", "Ok", "PolicyMismatch", "InvalidIdBlock",
         "TcbVersionMismatch", "PlatformInfoMismatch", "ReportDataMismatch",
         "LaunchDigestMismatch", "InvalidSignature"}

\* Everything the owner stated is so: the reference the checks are held to.
Satisfies(exp, rep) ==
    /\ exp.policy = "right" /\ exp.plat_info = "right" /\ exp.ld = "right"
    /\ exp.idblock # None => exp.idblock = [f \in IdField |-> "right"]
    /\ exp.report_data # "wrong"
    /\ AtLeast(rep.committed, exp.tcb)

\* A report that is accepted stays true of the host: however the host updates
\* and rolls back between the report and its check, or afterwards, it is at
\* least at the version the owner requires.
AcceptedHostStaysAtLeast ==
    verdict = "Ok" => AtLeast(current, expected.tcb) /\ AtLeast(committed, expected.tcb)

\* snp_validate_report.rs:458: a signature error is a signature error, every
\* stated expectation being met; conversely nothing is accepted or blamed on
\* the signature while an expectation is not met.
VerdictNamesTheCause ==
    verdict # "none" =>
      (verdict \in {"Ok", "InvalidSignature"} <=> Satisfies(expected, report))

\* A genuine report that meets every expectation is refused only when the host
\* has it signed for another version than the one it has committed to, whose
\* certificate is fetched: never because of the time between report and check.
RefusedOnlyWhileUncommitted ==
    verdict \notin {"none", "Ok"} /\ Satisfies(expected, report)
      => report.reported # report.committed
==============================================================================
