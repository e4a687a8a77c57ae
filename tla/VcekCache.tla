------------------------------ MODULE VcekCache ------------------------------
(***************************************************************************)
(* CachingVCEKDownloader (snp_validate_report.rs): runs of the attestation *)
(* tools share one cache directory under the system's temporary directory. *)
(* Runs overlap, fail and are killed; a file is created, then written piece *)
(* by piece, and may be read while it is written.                          *)
(*                                                                         *)
(* A file is the sequence of its pieces: a piece is the certificate it was *)
(* taken from, or Hole where a writer wrote past the end.                  *)
(***************************************************************************)
EXTENDS Naturals, Sequences

CONSTANTS
    Run,        \* processes that may run at the same time
    Chip,       \* chip ids
    Tcb,        \* TCB versions
    Pieces,     \* write calls it takes to store a certificate
    Hole,       \* a piece nobody wrote
    Absent      \* "no such file"

ASSUME PiecesAssumption == Pieces \in Nat \ {0}

Cert == Chip \X Tcb

VARIABLES
    dir,        \* whether the cache directory exists
    file,       \* the cache directory: the content under every name
    pc,         \* where each run is
    want,       \* the certificate each run looks for
    bytes,      \* cert_bytes of each run
    pos,        \* the offset of each run in its open file
    broken,     \* history: some call has failed or some run was killed
    alone       \* history: the runs that no other run has overlapped

runVars == <<pc, want, bytes, pos, alone>>
vars == <<dir, file, runVars, broken>>

\* What a file or a buffer may hold, up to a certificate's length.
Content == UNION {[1 .. k -> Cert \cup {Hole}] : k \in 0 .. Pieces}

ASSUME MarkAssumption == Hole \notin Cert /\ Absent \notin Content

Whole(cert) == [i \in 1 .. Pieces |-> cert]

\* Mutant: the TCB version is left out of the file name.
FileName_NoTcb(cert) == cert[1]

\* filename_for_vcek(): chip id and every component of the TCB version.
FileName(cert) == cert

Name == {FileName(cert) : cert \in Cert}

\* The file the run works on.
Mine(r) == FileName(want[r])

Active == {"exists", "mkdir", "open", "read", "download", "create", "write", "parse"}

Goto(r, label) == pc' = [pc EXCEPT ![r] = label]

------------------------------------------------------------------------------
Start(r, cert) ==
    /\ pc[r] \notin Active
    /\ Goto(r, "exists")
    /\ want' = [want EXCEPT ![r] = cert]
    /\ bytes' = [bytes EXCEPT ![r] = <<>>]
    /\ pos' = [pos EXCEPT ![r] = 1]
    /\ alone' = IF \A q \in Run : pc[q] \notin Active THEN {r} ELSE {}
    /\ UNCHANGED <<dir, file, broken>>

\* new(): does the directory exist?
CheckDir(r) ==
    /\ pc[r] = "exists"
    /\ Goto(r, IF dir THEN "open" ELSE "mkdir")
    /\ UNCHANGED <<dir, file, want, bytes, pos, alone, broken>>

\* new(): create_dir() fails when another run was faster.
MakeDir(r) ==
    /\ pc[r] = "mkdir"
    /\ Goto(r, IF dir THEN "failed" ELSE "open")
    /\ dir' = TRUE
    /\ UNCHANGED <<file, want, bytes, pos, alone, broken>>

\* Mutant: an empty or shorter file counts as not found.
Open_ShortIsMissing(r) ==
    /\ pc[r] = "open"
    /\ Goto(r, IF file[Mine(r)] = Absent \/ Len(file[Mine(r)]) < Pieces
               THEN "download" ELSE "read")
    /\ UNCHANGED <<dir, file, want, bytes, pos, alone, broken>>

\* The cached file is opened, or there is none and the download begins.
Open(r) ==
    /\ pc[r] = "open"
    /\ Goto(r, IF file[Mine(r)] = Absent THEN "download" ELSE "read")
    /\ UNCHANGED <<dir, file, want, bytes, pos, alone, broken>>

\* read_to_end(): one more piece, or the end of the file as it is now.
Read(r) ==
    /\ pc[r] = "read"
    /\ IF pos[r] <= Len(file[Mine(r)])
       THEN /\ bytes' = [bytes EXCEPT ![r] = Append(@, file[Mine(r)][pos[r]])]
            /\ pos' = [pos EXCEPT ![r] = @ + 1]
            /\ UNCHANGED pc
       ELSE /\ Goto(r, "parse")
            /\ UNCHANGED <<bytes, pos>>
    /\ UNCHANGED <<dir, file, want, alone, broken>>

\* download_vceck_cert() returns the body of a successful answer.
Download(r) ==
    /\ pc[r] = "download"
    /\ bytes' = [bytes EXCEPT ![r] = Whole(want[r])]
    /\ Goto(r, "create")
    /\ UNCHANGED <<dir, file, want, pos, alone, broken>>

\* File::create() empties a file that another run has created meanwhile.
Create(r) ==
    /\ pc[r] = "create"
    /\ file' = [file EXCEPT ![Mine(r)] = <<>>]
    /\ Goto(r, "write")
    /\ UNCHANGED <<dir, want, bytes, pos, alone, broken>>

\* Mutant: the file is opened for appending.
Written_Append(old, p, piece) == Append(old, piece)

\* What a file holds after a piece is written at offset p.
Written(old, p, piece) ==
    [i \in 1 .. (IF p > Len(old) THEN p ELSE Len(old)) |->
        IF i = p THEN piece ELSE IF i <= Len(old) THEN old[i] ELSE Hole]

\* Mutant: write() is called once, so that a short write goes unnoticed.
Write_Once(r) ==
    /\ pc[r] = "write"
    /\ file' = [file EXCEPT ![Mine(r)] = Written(@, pos[r], bytes[r][pos[r]])]
    /\ pos' = [pos EXCEPT ![r] = @ + 1]
    /\ Goto(r, "parse")
    /\ UNCHANGED <<dir, want, bytes, alone, broken>>

\* write_all(): one more piece, at the run's own offset.
Write(r) ==
    /\ pc[r] = "write"
    /\ file' = [file EXCEPT ![Mine(r)] = Written(@, pos[r], bytes[r][pos[r]])]
    /\ pos' = [pos EXCEPT ![r] = @ + 1]
    /\ Goto(r, IF pos[r] = Pieces THEN "parse" ELSE "write")
    /\ UNCHANGED <<dir, want, bytes, alone, broken>>

\* Certificate::from_bytes() takes any whole certificate.
Parses(b) == \E cert \in Cert : b = Whole(cert)

Parse(r) ==
    /\ pc[r] = "parse"
    /\ Goto(r, IF Parses(bytes[r]) THEN "done" ELSE "failed")
    /\ UNCHANGED <<dir, file, want, bytes, pos, alone, broken>>

\* A call returns an error, or the run is killed; files stay as they are.
Break(r) ==
    /\ pc[r] \in Active
    /\ Goto(r, "failed")
    /\ broken' = TRUE
    /\ UNCHANGED <<dir, file, want, bytes, pos, alone>>

------------------------------------------------------------------------------
Init ==
    /\ dir \in BOOLEAN
    /\ file = [n \in Name |-> Absent]
    /\ pc = [r \in Run |-> "idle"]
    /\ want \in [Run -> Cert]
    /\ bytes = [r \in Run |-> <<>>]
    /\ pos = [r \in Run |-> 1]
    /\ broken = FALSE
    /\ alone = {}

Step(r) ==
    \/ CheckDir(r)
    \/ MakeDir(r)
    \/ Open(r)
    \/ Read(r)
    \/ Download(r)
    \/ Create(r)
    \/ Write(r)
    \/ Parse(r)

Next ==
    \E r \in Run :
      \/ \E cert \in Cert : Start(r, cert)
      \/ Step(r)
      \/ Break(r)

Spec == Init /\ [][Next]_vars

\* Runs go on by themselves, and their owners run the tool again.
RetrySpec ==
    /\ Spec
    /\ \A r \in Run : WF_vars(Step(r)) /\ WF_vars(\E cert \in Cert : Start(r, cert))

------------------------------------------------------------------------------
(* Properties.                                                             *)

\* Every variable has its type; file contents and buffers stay within a
\* certificate's length.
TypeOK ==
    /\ dir \in BOOLEAN /\ broken \in BOOLEAN
    /\ file \in [Name -> {Absent} \cup Content]
    /\ pc \in [Run -> Active \cup {"idle", "done", "failed"}]
    /\ want \in [Run -> Cert]
    /\ bytes \in [Run -> Content]
    /\ pos \in [Run -> 1 .. Pieces + 1]
    /\ alone \in SUBSET Run

\* A run that gets a certificate gets the one of the chip and TCB version it
\* asked for, whatever other runs write into the shared cache meanwhile.
ReturnsWanted == \A r \in Run : pc[r] = "done" => bytes[r] = Whole(want[r])

\* A run that may still create or write the file n.
MayWrite(r, n) == pc[r] \in {"download", "create", "write"} /\ Mine(r) = n

\* Overlapping writers repair each other's holes: unless a call failed or a run
\* was killed, a file nobody is writing any more is whole.
SettledFilesWhole ==
    ~broken => \A n \in Name :
      file[n] # Absent /\ (\A r \in Run : ~MayWrite(r, n))
        => \E cert \in Cert : file[n] = Whole(cert)

\* A run fails only for a reason: another run overlapped it, or some call
\* failed or some run was killed before.
FailureHasCause ==
    \A r \in Run : pc[r] = "failed" /\ r \in alone => broken

\* The cache never heals: a file that a killed run left incomplete is neither
\* downloaded again nor rewritten by any later run, each of which fails on it.
NeverRepaired ==
    [][\A n \in Name :
         /\ file[n] # Absent
         /\ ~Parses(file[n])
         /\ \A r \in Run : ~MayWrite(r, n)
         => file'[n] = file[n] /\ \A r \in Run : ~MayWrite(r, n)']_vars

\* Runs that race for the directory and the files cannot starve each other: as
\* long as no call fails and nobody is killed, every owner who tries again after
\* a failure gets a certificate again and again.
RetriesSucceed == []~broken => \A r \in Run : []<>(pc[r] = "done")
==============================================================================
