--------------------------- MODULE VcekCacheProofs ---------------------------
(***************************************************************************)
(* Proofs about VcekCache, for any number of runs, certificates and pieces *)
(* of a certificate.                                                       *)
(***************************************************************************)
EXTENDS VcekCache, SequenceTheorems, TLAPS

\* Nothing but pieces of one certificate, and holes.
Of(cert, content) == \A i \in DOMAIN content : content[i] \in {cert, Hole}

LEMMA ContentIsSeq ==
    ASSUME NEW c \in Content
    PROVE  /\ c \in Seq(Cert \cup {Hole})
           /\ Len(c) \in 0 .. Pieces
           /\ DOMAIN c = 1 .. Len(c)
<1>1. PICK k \in 0 .. Pieces : c \in [1 .. k -> Cert \cup {Hole}]
  BY DEF Content
<1>2. k \in Nat
  BY <1>1, PiecesAssumption
<1>3. c \in Seq(Cert \cup {Hole})
  BY <1>1, <1>2
<1>4. Len(c) = k
  BY <1>1, <1>2
<1> QED
  BY <1>1, <1>3, <1>4

LEMMA ContentOf ==
    ASSUME NEW k \in 0 .. Pieces, NEW c \in [1 .. k -> Cert \cup {Hole}]
    PROVE  c \in Content
BY DEF Content

LEMMA WholeContent ==
    ASSUME NEW cert \in Cert
    PROVE  Whole(cert) \in Content /\ Of(cert, Whole(cert)) /\ Whole(cert)[1] = cert
<1>1. Pieces \in 0 .. Pieces /\ 1 \in 1 .. Pieces
  BY PiecesAssumption
<1>2. Whole(cert) \in [1 .. Pieces -> Cert \cup {Hole}]
  BY DEF Whole
<1> QED
  BY <1>1, <1>2, ContentOf DEF Whole, Of

\* A written piece keeps a file one of its certificate.
LEMMA WrittenOf ==
    ASSUME NEW old \in Content, NEW p \in 1 .. Pieces, NEW cert \in Cert, Of(cert, old)
    PROVE  Written(old, p, cert) \in Content /\ Of(cert, Written(old, p, cert))
<1> DEFINE n == IF p > Len(old) THEN p ELSE Len(old)
<1>1. Len(old) \in 0 .. Pieces /\ DOMAIN old = 1 .. Len(old)
  BY ContentIsSeq
<1>2. n \in 0 .. Pieces
  BY <1>1, PiecesAssumption
<1>3. \A i \in 1 .. n : i # p /\ i <= Len(old) => old[i] \in {cert, Hole}
  BY <1>1, <1>2, PiecesAssumption DEF Of
<1>4. Written(old, p, cert) \in [1 .. n -> {cert, Hole}]
  BY <1>3 DEF Written
<1>5. Written(old, p, cert) \in [1 .. n -> Cert \cup {Hole}]
  BY <1>4
<1> QED
  BY <1>2, <1>4, <1>5, ContentOf DEF Of

------------------------------------------------------------------------------
(* The cache and the buffers.                                              *)

\* Under the name of a certificate there is only that certificate, in pieces
\* and with holes; a run that has opened or created a file finds it there.
Filed ==
    /\ \A cert \in Cert : file[cert] # Absent => Of(cert, file[cert])
    /\ \A r \in Run : pc[r] \in {"read", "write"} => file[want[r]] # Absent

\* A run has read or downloaded nothing but the certificate it looks for; while
\* it reads, pos is one past what it has, and while it writes, within it.
HeldBy(cert, label, b, p) ==
    /\ Of(cert, b)
    /\ label \in {"exists", "mkdir", "open"} => p = 1 /\ b = <<>>
    /\ label = "read" => p = Len(b) + 1
    /\ label \in {"download", "create"} => p = 1
    /\ label \in {"create", "write"} => b = Whole(cert)
    /\ label = "write" => p \in 1 .. Pieces
    /\ label = "done" => Parses(b)

Held == \A r \in Run : HeldBy(want[r], pc[r], bytes[r], pos[r])

IInv == TypeOK /\ Filed /\ Held

LEMMA NamesAreCerts == Name = Cert /\ \A r \in Run : Mine(r) = want[r]
BY DEF Name, FileName, Mine

LEMMA EmptyContent == <<>> \in Content /\ Len(<<>>) = 0 /\ \A cert \in Cert : Of(cert, <<>>)
<1>1. <<>> \in [1 .. 0 -> Cert \cup {Hole}] /\ 0 \in 0 .. Pieces
  BY PiecesAssumption
<1>2. DOMAIN <<>> = {}
  OBVIOUS
<1> QED
  BY <1>1, <1>2, ContentOf DEF Of

LEMMA InitIInv == Init => IInv
<1> SUFFICES ASSUME Init
             PROVE  IInv
  OBVIOUS
<1>1. TypeOK
  <2>1. bytes \in [Run -> Content]
    BY EmptyContent DEF Init
  <2>2. pos \in [Run -> 1 .. Pieces + 1]
    BY PiecesAssumption DEF Init
  <2>3. pc \in [Run -> Active \cup {"idle", "done", "failed"}]
    BY DEF Init
  <2> QED
    BY <2>1, <2>2, <2>3 DEF Init, TypeOK
<1>2. Filed
  BY NamesAreCerts DEF Init, Filed
<1>3. Held
  BY EmptyContent DEF Init, Held, HeldBy
<1> QED
  BY <1>1, <1>2, <1>3 DEF IInv

\* One more piece is read.
LEMMA AppendOf ==
    ASSUME NEW c \in Content, NEW f \in Content, NEW cert \in Cert, Of(cert, c), Of(cert, f),
           Len(c) + 1 <= Len(f)
    PROVE  LET d == Append(c, f[Len(c) + 1])
           IN d \in Content /\ Of(cert, d) /\ Len(d) = Len(c) + 1
<1> DEFINE d == Append(c, f[Len(c) + 1])
<1>1. /\ c \in Seq(Cert \cup {Hole}) /\ Len(c) \in 0 .. Pieces /\ DOMAIN c = 1 .. Len(c)
      /\ Len(f) \in 0 .. Pieces /\ DOMAIN f = 1 .. Len(f)
  BY ContentIsSeq
<1>2. Len(c) + 1 \in 0 .. Pieces /\ Len(c) + 1 \in DOMAIN f
  BY <1>1, PiecesAssumption
<1>3. f[Len(c) + 1] \in {cert, Hole}
  BY <1>2 DEF Of
<1>4. /\ d \in Seq(Cert \cup {Hole}) /\ Len(d) = Len(c) + 1
      /\ \A i \in 1 .. Len(c) : d[i] = c[i]
      /\ d[Len(c) + 1] = f[Len(c) + 1]
  BY <1>1, <1>3, AppendProperties
<1>5. d \in [1 .. Len(c) + 1 -> Cert \cup {Hole}]
  BY <1>4, LenProperties
<1>6. d \in Content
  BY <1>2, <1>5, ContentOf
<1>7. Of(cert, d)
  <2>1. \A i \in 1 .. Len(c) + 1 : i \in 1 .. Len(c) \/ i = Len(c) + 1
    BY <1>1
  <2> QED
    BY <1>1, <1>3, <1>4, <1>5, <2>1, Z3 DEF Of
<1> QED
  BY <1>4, <1>6, <1>7

\* A step of run r, to a label, a buffer and an offset that hold together.
LEMMA StepOf ==
    ASSUME IInv, NEW r \in Run, NEW to \in Active \cup {"idle", "done", "failed"},
           NEW b \in Content, NEW p \in 1 .. Pieces + 1, HeldBy(want[r], to, b, p),
           pc' = [pc EXCEPT ![r] = to],
           bytes' = [bytes EXCEPT ![r] = b],
           pos' = [pos EXCEPT ![r] = p],
           want' = want, alone' = alone, dir' \in BOOLEAN, broken' \in BOOLEAN,
           NEW f \in Content, Of(want[r], f),
           file' = file \/ file' = [file EXCEPT ![want[r]] = f],
           to \in {"read", "write"} => file'[want[r]] # Absent
    PROVE  IInv'
<1>1. TypeOK'
  <2>1. file' \in [Name -> {Absent} \cup Content]
    <3>1. file \in [Name -> {Absent} \cup Content]
      BY DEF IInv, TypeOK
    <3> QED
      BY <3>1
  <2>2. pc' \in [Run -> Active \cup {"idle", "done", "failed"}]
    BY DEF IInv, TypeOK
  <2>3. bytes' \in [Run -> Content] /\ pos' \in [Run -> 1 .. Pieces + 1]
    BY DEF IInv, TypeOK
  <2>4. want' \in [Run -> Cert] /\ alone' \in SUBSET Run
    BY DEF IInv, TypeOK
  <2> QED
    BY <2>1, <2>2, <2>3, <2>4 DEF TypeOK
<1>2. \A q \in Run \ {r} : pc'[q] = pc[q] /\ bytes'[q] = bytes[q] /\ pos'[q] = pos[q]
  BY DEF IInv, TypeOK
<1>3. pc'[r] = to /\ bytes'[r] = b /\ pos'[r] = p
  BY DEF IInv, TypeOK
<1>4. Held'
  <2> SUFFICES ASSUME NEW q \in Run
               PROVE  HeldBy(want'[q], pc'[q], bytes'[q], pos'[q])
    BY DEF Held
  <2>1. CASE q = r
    BY <1>3, <2>1
  <2>2. CASE q # r
    <3>1. HeldBy(want[q], pc[q], bytes[q], pos[q])
      BY DEF IInv, Held
    <3>2. pc'[q] = pc[q] /\ bytes'[q] = bytes[q] /\ pos'[q] = pos[q]
      BY <1>2, <2>2
    <3> QED
      BY <3>1, <3>2
  <2> QED
    BY <2>1, <2>2
<1>5. \A cert \in Cert :
        file'[cert] = file[cert] \/ (cert = want[r] /\ file'[cert] = f)
  <2>1. file \in [Cert -> {Absent} \cup Content]
    BY NamesAreCerts DEF IInv, TypeOK
  <2> QED
    BY <2>1
<1>6. \A cert \in Cert : file'[cert] # Absent => Of(cert, file'[cert])
  BY <1>5 DEF IInv, Filed
<1>7. ASSUME NEW q \in Run, pc'[q] \in {"read", "write"}
      PROVE  file'[want'[q]] # Absent
  <2>1. CASE q = r
    BY <1>3, <1>7, <2>1
  <2>2. CASE q # r
    <3>1. file[want[q]] # Absent /\ want[q] \in Cert
      BY <1>2, <1>7, <2>2 DEF IInv, Filed, TypeOK
    <3> QED
      BY <3>1, <1>5, MarkAssumption
  <2> QED
    BY <2>1, <2>2
<1>8. Filed'
  BY <1>6, <1>7 DEF Filed
<1> QED
  BY <1>1, <1>4, <1>8 DEF IInv

------------------------------------------------------------------------------
(* The steps.                                                              *)

\* What a step of run r starts from.
LEMMA RunHeld ==
    ASSUME IInv, NEW r \in Run
    PROVE  /\ want[r] \in Cert /\ bytes[r] \in Content /\ pos[r] \in 1 .. Pieces + 1
           /\ pc[r] \in Active \cup {"idle", "done", "failed"}
           /\ HeldBy(want[r], pc[r], bytes[r], pos[r])
           /\ bytes = [bytes EXCEPT ![r] = bytes[r]] /\ pos = [pos EXCEPT ![r] = pos[r]]
           /\ file[want[r]] # Absent => file[want[r]] \in Content /\ Of(want[r], file[want[r]])
           /\ pc[r] \in {"read", "write"} => file[want[r]] # Absent
           /\ Mine(r) = want[r]
           /\ dir \in BOOLEAN /\ broken \in BOOLEAN
<1>1. want[r] \in Cert /\ bytes[r] \in Content /\ pos[r] \in 1 .. Pieces + 1
  BY DEF IInv, TypeOK
<1>2. bytes = [bytes EXCEPT ![r] = bytes[r]] /\ pos = [pos EXCEPT ![r] = pos[r]]
  BY DEF IInv, TypeOK
<1>3. file[want[r]] # Absent => file[want[r]] \in Content /\ Of(want[r], file[want[r]])
  <2>1. file \in [Cert -> {Absent} \cup Content]
    BY NamesAreCerts DEF IInv, TypeOK
  <2> QED
    BY <1>1, <2>1 DEF IInv, Filed
<1>4. Mine(r) = want[r]
  BY NamesAreCerts
<1>5. HeldBy(want[r], pc[r], bytes[r], pos[r]) /\ pc[r] \in Active \cup {"idle", "done", "failed"}
  BY DEF IInv, TypeOK, Held
<1>6. pc[r] \in {"read", "write"} => file[want[r]] # Absent
  BY DEF IInv, Filed
<1> QED
  BY <1>1, <1>2, <1>3, <1>4, <1>5, <1>6 DEF IInv, TypeOK

\* A step of run r that only goes on to another label.
LEMMA GoOn ==
    ASSUME IInv, NEW r \in Run, NEW to \in Active \cup {"idle", "done", "failed"},
           HeldBy(want[r], to, bytes[r], pos[r]), Goto(r, to),
           to \in {"read", "write"} => file[want[r]] # Absent,
           dir' \in BOOLEAN, broken' \in BOOLEAN, UNCHANGED <<file, want, bytes, pos, alone>>
    PROVE  IInv'
<1>1. <<>> \in Content /\ Of(want[r], <<>>)
  BY RunHeld, EmptyContent
<1>2. /\ bytes[r] \in Content /\ pos[r] \in 1 .. Pieces + 1
      /\ bytes' = [bytes EXCEPT ![r] = bytes[r]] /\ pos' = [pos EXCEPT ![r] = pos[r]]
  BY RunHeld
<1>3. /\ pc' = [pc EXCEPT ![r] = to] /\ want' = want /\ alone' = alone /\ file' = file
      /\ to \in {"read", "write"} => file'[want[r]] # Absent
  BY DEF Goto
<1> QED
  BY <1>1, <1>2, <1>3, StepOf

LEMMA CheckDirStep == ASSUME IInv, NEW r \in Run, CheckDir(r) PROVE IInv'
<1>1. HeldBy(want[r], "open", bytes[r], pos[r]) /\ HeldBy(want[r], "mkdir", bytes[r], pos[r])
  BY RunHeld DEF CheckDir, HeldBy
<1> QED
  BY <1>1, RunHeld, GoOn DEF CheckDir, Active

LEMMA MakeDirStep == ASSUME IInv, NEW r \in Run, MakeDir(r) PROVE IInv'
<1>1. HeldBy(want[r], "open", bytes[r], pos[r]) /\ HeldBy(want[r], "failed", bytes[r], pos[r])
  BY RunHeld DEF MakeDir, HeldBy
<1> QED
  BY <1>1, RunHeld, GoOn DEF MakeDir, Active

LEMMA OpenStep == ASSUME IInv, NEW r \in Run, Open(r) PROVE IInv'
<1>1. HeldBy(want[r], "download", bytes[r], pos[r]) /\ HeldBy(want[r], "read", bytes[r], pos[r])
  BY RunHeld, EmptyContent DEF Open, HeldBy
<1> QED
  BY <1>1, RunHeld, GoOn DEF Open, Active

LEMMA ParseStep == ASSUME IInv, NEW r \in Run, Parse(r) PROVE IInv'
<1>1. HeldBy(want[r], IF Parses(bytes[r]) THEN "done" ELSE "failed", bytes[r], pos[r])
  BY RunHeld DEF HeldBy
<1> QED
  BY <1>1, RunHeld, GoOn DEF Parse

LEMMA BreakStep == ASSUME IInv, NEW r \in Run, Break(r) PROVE IInv'
<1>1. HeldBy(want[r], "failed", bytes[r], pos[r])
  BY RunHeld DEF HeldBy
<1> QED
  BY <1>1, RunHeld, GoOn DEF Break

LEMMA ReadStep == ASSUME IInv, NEW r \in Run, Read(r) PROVE IInv'
<1> DEFINE f == file[want[r]]
           b == bytes[r]
<1>1. /\ f \in Content /\ Of(want[r], f) /\ b \in Content /\ Of(want[r], b)
      /\ want[r] \in Cert /\ pos[r] = Len(b) + 1 /\ Mine(r) = want[r] /\ f # Absent
  BY RunHeld DEF Read, HeldBy
<1>2. CASE pos[r] <= Len(f)
  <2> DEFINE d == Append(b, f[Len(b) + 1])
  <2>1. d \in Content /\ Of(want[r], d) /\ Len(d) = Len(b) + 1
    BY <1>1, <1>2, AppendOf
  <2>2. Len(d) \in 0 .. Pieces
    BY <2>1, ContentIsSeq
  <2>3. HeldBy(want[r], "read", d, Len(d) + 1) /\ Len(d) + 1 \in 1 .. Pieces + 1
    BY <2>1, <2>2, PiecesAssumption DEF HeldBy
  <2>4. bytes' = [bytes EXCEPT ![r] = d] /\ pos' = [pos EXCEPT ![r] = Len(d) + 1]
    BY <1>1, <1>2, <2>1 DEF Read
  <2>5. pc' = [pc EXCEPT ![r] = "read"]
    BY <1>1, <1>2 DEF Read, IInv, TypeOK
  <2>6. /\ file' = file /\ want' = want /\ alone' = alone
        /\ dir' \in BOOLEAN /\ broken' \in BOOLEAN /\ file'[want[r]] # Absent
    BY <1>1, RunHeld DEF Read
  <2> HIDE DEF d, f
  <2> QED
    BY <1>1, <2>1, <2>3, <2>4, <2>5, <2>6, StepOf DEF Active
<1>3. CASE ~(pos[r] <= Len(f))
  <2>1. HeldBy(want[r], "parse", b, pos[r])
    BY <1>1 DEF HeldBy
  <2>2. Goto(r, "parse") /\ UNCHANGED <<file, want, bytes, pos, alone, dir, broken>>
    BY <1>1, <1>3 DEF Read
  <2> QED
    BY <2>1, <2>2, RunHeld, GoOn DEF Active
<1> QED
  BY <1>2, <1>3

LEMMA DownloadStep == ASSUME IInv, NEW r \in Run, Download(r) PROVE IInv'
<1>1. want[r] \in Cert /\ pos[r] = 1 /\ <<>> \in Content /\ Of(want[r], <<>>)
  BY RunHeld, EmptyContent DEF Download, HeldBy
<1>2. Whole(want[r]) \in Content /\ HeldBy(want[r], "create", Whole(want[r]), pos[r])
  BY <1>1, WholeContent DEF HeldBy
<1>3. pos[r] \in 1 .. Pieces + 1 /\ pos' = [pos EXCEPT ![r] = pos[r]]
  BY RunHeld DEF Download
<1>4. /\ bytes' = [bytes EXCEPT ![r] = Whole(want[r])] /\ pc' = [pc EXCEPT ![r] = "create"]
      /\ file' = file /\ want' = want /\ alone' = alone
      /\ dir' \in BOOLEAN /\ broken' \in BOOLEAN
  BY RunHeld DEF Download, Goto
<1>5. "create" \in Active /\ "create" \notin {"read", "write"}
  BY DEF Active
<1> QED
  BY <1>1, <1>2, <1>3, <1>4, <1>5, StepOf

LEMMA CreateStep == ASSUME IInv, NEW r \in Run, Create(r) PROVE IInv'
<1>1. /\ want[r] \in Cert /\ pos[r] = 1 /\ <<>> \in Content /\ Of(want[r], <<>>)
      /\ bytes[r] \in Content /\ HeldBy(want[r], "create", bytes[r], pos[r])
  BY RunHeld, EmptyContent DEF Create, HeldBy
<1>2. HeldBy(want[r], "write", bytes[r], pos[r])
  BY <1>1, PiecesAssumption DEF HeldBy
<1>3. /\ pos[r] \in 1 .. Pieces + 1 /\ pos' = [pos EXCEPT ![r] = pos[r]]
      /\ bytes' = [bytes EXCEPT ![r] = bytes[r]]
  BY RunHeld DEF Create
<1>4. /\ file' = [file EXCEPT ![want[r]] = <<>>] /\ pc' = [pc EXCEPT ![r] = "write"]
      /\ want' = want /\ alone' = alone /\ dir' \in BOOLEAN /\ broken' \in BOOLEAN
  BY RunHeld DEF Create, Goto
<1>5. file'[want[r]] # Absent
  <2>1. file'[want[r]] = <<>>
    BY <1>1, <1>4, NamesAreCerts DEF IInv, TypeOK
  <2> QED
    BY <2>1, <1>1, MarkAssumption
<1> QED
  BY <1>1, <1>2, <1>3, <1>4, <1>5, StepOf DEF Active

LEMMA WriteStep == ASSUME IInv, NEW r \in Run, Write(r) PROVE IInv'
<1> DEFINE old == file[want[r]]
           new == Written(old, pos[r], want[r])
           to == IF pos[r] = Pieces THEN "parse" ELSE "write"
<1>1. /\ want[r] \in Cert /\ pos[r] \in 1 .. Pieces /\ bytes[r] = Whole(want[r])
      /\ old \in Content /\ Of(want[r], old) /\ Mine(r) = want[r]
      /\ bytes[r] \in Content /\ Of(want[r], bytes[r])
  BY RunHeld DEF Write, HeldBy
<1>2. bytes[r][pos[r]] = want[r]
  BY <1>1 DEF Whole
<1>3. new \in Content /\ Of(want[r], new)
  BY <1>1, WrittenOf
<1>4. pos[r] + 1 \in 1 .. Pieces + 1 /\ HeldBy(want[r], to, bytes[r], pos[r] + 1)
  BY <1>1, PiecesAssumption DEF HeldBy
<1>5. /\ file' = [file EXCEPT ![want[r]] = new] /\ pos' = [pos EXCEPT ![r] = pos[r] + 1]
      /\ pc' = [pc EXCEPT ![r] = to]
  BY <1>1, <1>2 DEF Write, Goto
<1>6. /\ want' = want /\ alone' = alone /\ dir' \in BOOLEAN /\ broken' \in BOOLEAN
      /\ bytes' = [bytes EXCEPT ![r] = bytes[r]]
  BY RunHeld DEF Write
<1>7. file'[want[r]] # Absent
  <2>1. file'[want[r]] = new
    BY <1>1, <1>5, NamesAreCerts DEF IInv, TypeOK
  <2> QED
    BY <2>1, <1>3, MarkAssumption
<1>8. to \in Active \cup {"idle", "done", "failed"}
  BY DEF Active
<1> HIDE DEF new, to
<1> QED
  BY <1>1, <1>3, <1>4, <1>5, <1>6, <1>7, <1>8, StepOf

LEMMA StartStep == ASSUME IInv, NEW r \in Run, NEW cert \in Cert, Start(r, cert) PROVE IInv'
<1>1. TypeOK'
  <2>1. bytes' \in [Run -> Content]
    BY EmptyContent DEF Start, IInv, TypeOK
  <2>2. pos' \in [Run -> 1 .. Pieces + 1]
    BY PiecesAssumption DEF Start, IInv, TypeOK
  <2>3. pc' \in [Run -> Active \cup {"idle", "done", "failed"}] /\ want' \in [Run -> Cert]
    BY DEF Start, Goto, IInv, TypeOK, Active
  <2>4. alone' \in SUBSET Run
    BY DEF Start
  <2> QED
    BY <2>1, <2>2, <2>3, <2>4 DEF Start, IInv, TypeOK
<1>2. /\ pc'[r] = "exists" /\ want'[r] = cert /\ bytes'[r] = <<>> /\ pos'[r] = 1
      /\ \A q \in Run \ {r} : /\ pc'[q] = pc[q] /\ want'[q] = want[q]
                             /\ bytes'[q] = bytes[q] /\ pos'[q] = pos[q]
  BY DEF Start, Goto, IInv, TypeOK
<1>3. Filed'
  BY <1>2 DEF Start, IInv, Filed
<1>4. HeldBy(cert, "exists", <<>>, 1)
  BY EmptyContent DEF HeldBy
<1>5. Held'
  BY <1>2, <1>4 DEF IInv, Held
<1> QED
  BY <1>1, <1>3, <1>5 DEF IInv

\* Every step preserves the invariant.
LEMMA NextIInv == IInv /\ [Next]_vars => IInv'
<1> SUFFICES ASSUME IInv, [Next]_vars
             PROVE  IInv'
  OBVIOUS
<1>1. CASE Next
  <2>1. PICK r \in Run : (\E cert \in Cert : Start(r, cert)) \/ Step(r) \/ Break(r)
    BY <1>1 DEF Next
  <2>2. CASE \E cert \in Cert : Start(r, cert)
    BY <2>2, StartStep
  <2>3. CASE Step(r)
    BY <2>3, CheckDirStep, MakeDirStep, OpenStep, ReadStep, DownloadStep, CreateStep, WriteStep,
       ParseStep DEF Step
  <2>4. CASE Break(r)
    BY <2>4, BreakStep
  <2> QED
    BY <2>1, <2>2, <2>3, <2>4
<1>2. CASE UNCHANGED vars
  BY <1>2 DEF vars, runVars, IInv, TypeOK, Filed, Held
<1> QED
  BY <1>1, <1>2

LEMMA Invariance == Spec => []IInv
BY InitIInv, NextIInv, PTL DEF Spec

------------------------------------------------------------------------------
\* The type invariant of the cache, its files and its runs: no file and no buffer
\* outgrows a certificate, whoever writes.
THEOREM TypeCorrect == Spec => []TypeOK
<1>1. IInv => TypeOK
  BY DEF IInv
<1> QED
  BY <1>1, Invariance, PTL

\* get_vceck_cert() returns the certificate of the chip and the TCB version asked
\* for, or an error: a whole certificate made of pieces of one name is that one.
THEOREM Returned == Spec => []ReturnsWanted
<1>1. ASSUME IInv PROVE ReturnsWanted
  <2> SUFFICES ASSUME NEW r \in Run, pc[r] = "done"
               PROVE  bytes[r] = Whole(want[r])
    BY DEF ReturnsWanted
  <2>1. Of(want[r], bytes[r]) /\ Parses(bytes[r])
    BY <1>1 DEF IInv, Held, HeldBy
  <2>2. PICK cert \in Cert : bytes[r] = Whole(cert)
    BY <2>1 DEF Parses
  <2>3. 1 \in DOMAIN bytes[r] /\ bytes[r][1] = cert
    BY <2>2, PiecesAssumption DEF Whole
  <2>4. cert \in {want[r], Hole}
    BY <2>1, <2>3 DEF Of
  <2> QED
    BY <2>2, <2>4, MarkAssumption
<1> QED
  BY <1>1, Invariance, PTL

\* A file that is there, incomplete, with nobody about to write it stays so.
LEMMA StaysIncomplete ==
    ASSUME IInv, [Next]_vars, NEW n \in Name, file[n] # Absent, \A r \in Run : ~MayWrite(r, n)
    PROVE  file'[n] = file[n] /\ \A r \in Run : ~MayWrite(r, n)'
<1>0. /\ n \in Cert /\ file \in [Name -> {Absent} \cup Content] /\ DOMAIN pc = Run
      /\ \A r \in Run : Mine(r) = want[r]
  BY NamesAreCerts DEF IInv, TypeOK
<1>w. \A r \in Run : pc[r] \in {"download", "create", "write"} => want[r] # n
  BY <1>0 DEF MayWrite
<1>1. CASE Next
  <2>1. PICK r \in Run : (\E cert \in Cert : Start(r, cert)) \/ Step(r) \/ Break(r)
    BY <1>1 DEF Next
  <2>2. file'[n] = file[n]
    <3>1. CASE \E cert \in Cert : Start(r, cert)
      BY <3>1 DEF Start
    <3>2. CASE Create(r) \/ Write(r)
      BY <3>2, <1>0, <1>w DEF Create, Write
    <3>3. CASE CheckDir(r) \/ MakeDir(r) \/ Open(r) \/ Read(r) \/ Download(r) \/ Parse(r)
      BY <3>3 DEF CheckDir, MakeDir, Open, Read, Download, Parse
    <3>4. CASE Break(r)
      BY <3>4 DEF Break
    <3> QED
      BY <2>1, <3>1, <3>2, <3>3, <3>4 DEF Step
  <2>3. \A q \in Run : pc'[q] \in {"download", "create", "write"} => want'[q] # n
    <3>1. CASE \E cert \in Cert : Start(r, cert)
      BY <3>1, <1>0, <1>w DEF Start, Goto, IInv, TypeOK
    <3>2. CASE Create(r) \/ Write(r)
      BY <3>2, <1>0, <1>w DEF Create, Write, Goto
    <3>3. CASE CheckDir(r) \/ MakeDir(r) \/ Read(r) \/ Download(r) \/ Parse(r)
      BY <3>3, <1>0, <1>w DEF CheckDir, MakeDir, Read, Download, Parse, Goto
    <3>4. CASE Open(r)
      BY <3>4, <1>0, <1>w DEF Open, Goto
    <3>5. CASE Break(r)
      BY <3>5, <1>0, <1>w DEF Break, Goto
    <3> QED
      BY <2>1, <3>1, <3>2, <3>3, <3>4, <3>5 DEF Step
  <2> QED
    BY <2>2, <2>3, NamesAreCerts DEF MayWrite, Mine, FileName
<1>2. CASE UNCHANGED vars
  BY <1>2 DEF vars, runVars, MayWrite, Mine
<1> QED
  BY <1>1, <1>2

\* The cache never heals: what get_vceck_cert() finds under the name it reads and
\* never replaces, so that an incomplete file outlives every later run.
THEOREM NeverHeals == Spec => NeverRepaired
<1>1. IInv /\ [Next]_vars =>
        [\A n \in Name :
           /\ file[n] # Absent
           /\ ~Parses(file[n])
           /\ \A r \in Run : ~MayWrite(r, n)
           => file'[n] = file[n] /\ \A r \in Run : ~MayWrite(r, n)']_vars
  BY StaysIncomplete
<1> QED
  BY <1>1, Invariance, PTL DEF Spec, NeverRepaired

------------------------------------------------------------------------------
(* What no failure and no kill has disturbed.                              *)

\* Piece i of a certificate is in its file, or run r has still to write it.
Stored(cert, i) == i <= Len(file[cert]) /\ file[cert][i] = cert
ToWrite(r, cert, i) ==
    /\ want[r] = cert
    /\ pc[r] \in {"download", "create"} \/ (pc[r] = "write" /\ pos[r] <= i)

Covered ==
    ~broken => \A cert \in Cert, i \in 1 .. Pieces :
      file[cert] # Absent => Stored(cert, i) \/ \E r \in Run : ToWrite(r, cert, i)

\* A run that nobody overlaps does not fail: it finds the directory as it was a
\* moment ago, and whole what is there.
Unfailing(r) ==
    /\ pc[r] = "mkdir" => ~dir
    /\ pc[r] = "read" => /\ file[want[r]] = Whole(want[r])
                         /\ \A i \in 1 .. Len(bytes[r]) : bytes[r][i] = want[r]
    /\ pc[r] = "parse" => Parses(bytes[r])
    /\ pc[r] # "failed"

Lone ==
    \A r \in alone :
      /\ \A q \in Run \ {r} : pc[q] \notin Active
      /\ ~broken => Unfailing(r)

CauseInv == IInv /\ Covered /\ Lone

\* A step of run r, which neither was about to write nor writes, uncovers nothing.
LEMMA CoveredAside ==
    ASSUME Covered, NEW r \in Run, pc[r] \notin {"download", "create", "write"},
           \A q \in Run \ {r} : pc'[q] = pc[q] /\ want'[q] = want[q] /\ pos'[q] = pos[q],
           file' = file, broken' = broken
    PROVE  Covered'
<1> SUFFICES ASSUME ~broken, NEW cert \in Cert, NEW i \in 1 .. Pieces, file[cert] # Absent
             PROVE  Stored(cert, i)' \/ \E q \in Run : ToWrite(q, cert, i)'
  BY DEF Covered
<1>1. Stored(cert, i) => Stored(cert, i)'
  BY DEF Stored
<1>2. \A q \in Run : ToWrite(q, cert, i) => ToWrite(q, cert, i)'
  BY DEF ToWrite
<1> QED
  BY <1>1, <1>2 DEF Covered

\* A piece that is written, and those that were there, are stored.
LEMMA WrittenStored ==
    ASSUME NEW old \in Content, NEW p \in 1 .. Pieces, NEW cert \in Cert, NEW i \in 1 .. Pieces,
           i = p \/ (i <= Len(old) /\ old[i] = cert)
    PROVE  i <= Len(Written(old, p, cert)) /\ Written(old, p, cert)[i] = cert
<1> DEFINE n == IF p > Len(old) THEN p ELSE Len(old)
<1>1. Len(old) \in 0 .. Pieces
  BY ContentIsSeq
<1>2. n \in Nat /\ i \in 1 .. n
  BY <1>1, PiecesAssumption
<1>3. Written(old, p, cert)[i] = cert
  BY <1>2 DEF Written
<1>4. DOMAIN Written(old, p, cert) = 1 .. n
  BY DEF Written
<1>5. Written(old, p, cert) \in Seq(Range(Written(old, p, cert)))
  <2>1. Written(old, p, cert) \in [1 .. n -> Range(Written(old, p, cert))]
    BY <1>4 DEF Written, Range
  <2> QED
    BY <1>2, <2>1
<1>6. Len(Written(old, p, cert)) = n
  BY <1>2, <1>4, <1>5, LenProperties
<1> QED
  BY <1>2, <1>3, <1>6

LEMMA CoveredStep ==
    ASSUME IInv, Covered, NEW r \in Run,
           (\E cert \in Cert : Start(r, cert)) \/ Step(r) \/ Break(r)
    PROVE  Covered'
<1>0. /\ DOMAIN pc = Run /\ DOMAIN want = Run /\ DOMAIN pos = Run
      /\ file \in [Cert -> {Absent} \cup Content]
  BY NamesAreCerts DEF IInv, TypeOK
<1>1. CASE \E cert \in Cert : Start(r, cert)
  <2>1. \A q \in Run \ {r} : pc'[q] = pc[q] /\ want'[q] = want[q] /\ pos'[q] = pos[q]
    BY <1>0, <1>1 DEF Start, Goto
  <2>2. pc[r] \notin {"download", "create", "write"} /\ file' = file /\ broken' = broken
    BY <1>1 DEF Start, Active
  <2> QED
    BY <2>1, <2>2, CoveredAside
<1>2. CASE Break(r)
  BY <1>2 DEF Break, Covered
<1>3. CASE CheckDir(r) \/ MakeDir(r) \/ Open(r) \/ Read(r) \/ Parse(r)
  <2>1. \A q \in Run \ {r} : pc'[q] = pc[q] /\ want'[q] = want[q] /\ pos'[q] = pos[q]
    BY <1>0, <1>3 DEF CheckDir, MakeDir, Open, Read, Parse, Goto
  <2>2. pc[r] \notin {"download", "create", "write"} /\ file' = file /\ broken' = broken
    BY <1>3 DEF CheckDir, MakeDir, Open, Read, Parse
  <2> QED
    BY <2>1, <2>2, CoveredAside
<1>4. CASE Download(r)
  <2>1. /\ file' = file /\ broken' = broken /\ want' = want /\ pos' = pos
        /\ pc'[r] = "create" /\ \A q \in Run \ {r} : pc'[q] = pc[q]
    BY <1>0, <1>4 DEF Download, Goto
  <2>2. \A cert \in Cert, i \in 1 .. Pieces, q \in Run :
          ToWrite(q, cert, i) => ToWrite(q, cert, i)'
    BY <2>1 DEF ToWrite
  <2> QED
    BY <2>1, <2>2 DEF Covered, Stored
<1>5. CASE Create(r)
  <2>1. /\ broken' = broken /\ want' = want /\ pos' = pos /\ want[r] \in Cert /\ pos[r] = 1
        /\ pc'[r] = "write" /\ \A q \in Run \ {r} : pc'[q] = pc[q]
        /\ \A cert \in Cert \ {want[r]} : file'[cert] = file[cert]
    BY <1>0, <1>5, RunHeld DEF Create, Goto, HeldBy
  <2>2. \A i \in 1 .. Pieces : ToWrite(r, want[r], i)'
    BY <2>1 DEF ToWrite
  <2>3. \A cert \in Cert \ {want[r]}, i \in 1 .. Pieces, q \in Run :
          ToWrite(q, cert, i) => ToWrite(q, cert, i)'
    BY <2>1 DEF ToWrite
  <2>4. \A cert \in Cert \ {want[r]}, i \in 1 .. Pieces : Stored(cert, i) => Stored(cert, i)'
    BY <2>1 DEF Stored
  <2> QED
    BY <2>1, <2>2, <2>3, <2>4 DEF Covered
<1>6. CASE Write(r)
  <2> DEFINE old == file[want[r]]
  <2>1. /\ want[r] \in Cert /\ pos[r] \in 1 .. Pieces /\ old \in Content /\ Mine(r) = want[r]
        /\ bytes[r][pos[r]] = want[r] /\ old # Absent
    <3>1. /\ want[r] \in Cert /\ pos[r] \in 1 .. Pieces /\ bytes[r] = Whole(want[r])
          /\ old \in Content /\ Mine(r) = want[r] /\ old # Absent
      BY <1>6, RunHeld DEF Write, HeldBy
    <3>2. bytes[r][pos[r]] = want[r]
      BY <3>1 DEF Whole
    <3> QED
      BY <3>1, <3>2
  <2>2. /\ broken' = broken /\ want' = want
        /\ file'[want[r]] = Written(old, pos[r], want[r])
        /\ \A cert \in Cert \ {want[r]} : file'[cert] = file[cert]
        /\ pos'[r] = pos[r] + 1 /\ pc'[r] = (IF pos[r] = Pieces THEN "parse" ELSE "write")
        /\ \A q \in Run \ {r} : pc'[q] = pc[q] /\ pos'[q] = pos[q]
    BY <1>0, <1>6, <2>1 DEF Write, Goto
  <2> SUFFICES ASSUME ~broken, NEW cert \in Cert, NEW i \in 1 .. Pieces, file'[cert] # Absent
               PROVE  Stored(cert, i)' \/ \E q \in Run : ToWrite(q, cert, i)'
    BY <2>2 DEF Covered
  <2>3. \A q \in Run \ {r} : ToWrite(q, cert, i) => ToWrite(q, cert, i)'
    BY <2>2 DEF ToWrite
  <2>4. file[cert] # Absent
    BY <2>1, <2>2
  <2>5. Stored(cert, i) \/ \E q \in Run : ToWrite(q, cert, i)
    BY <2>4 DEF Covered
  <2>6. CASE cert # want[r]
    <3>1. ~ToWrite(r, cert, i) /\ (Stored(cert, i) => Stored(cert, i)')
      BY <2>2, <2>6 DEF ToWrite, Stored
    <3> QED
      BY <2>3, <2>5, <3>1
  <2>7. CASE cert = want[r]
    <3>1. i = pos[r] \/ Stored(cert, i) => Stored(cert, i)'
      BY <2>1, <2>2, <2>7, WrittenStored DEF Stored
    <3>2. ToWrite(r, cert, i) /\ i # pos[r] => ToWrite(r, cert, i)'
      BY <1>6, <2>1, <2>2, <2>7, PiecesAssumption DEF ToWrite, Write
    <3> QED
      BY <2>3, <2>5, <3>1, <3>2
  <2> QED
    BY <2>6, <2>7
<1> QED
  BY <1>1, <1>2, <1>3, <1>4, <1>5, <1>6 DEF Step

\* A file that nobody is about to write is whole.
LEMMA SettledWhole ==
    ASSUME IInv, Covered, ~broken, NEW cert \in Cert, file[cert] # Absent,
           \A r \in Run : ~MayWrite(r, cert)
    PROVE  file[cert] = Whole(cert)
<1>1. file[cert] \in Content
  BY NamesAreCerts DEF IInv, TypeOK
<1>2. \A r \in Run, i \in 1 .. Pieces : ~ToWrite(r, cert, i)
  BY NamesAreCerts DEF MayWrite, ToWrite
<1>3. \A i \in 1 .. Pieces : i <= Len(file[cert]) /\ file[cert][i] = cert
  BY <1>2 DEF Covered, Stored
<1>4. /\ Len(file[cert]) \in 0 .. Pieces /\ DOMAIN file[cert] = 1 .. Len(file[cert])
      /\ file[cert] \in Seq(Cert \cup {Hole})
  BY <1>1, ContentIsSeq
<1>5. Len(file[cert]) = Pieces
  BY <1>3, <1>4, PiecesAssumption
<1>6. file[cert] = [i \in 1 .. Pieces |-> file[cert][i]]
  BY <1>1, <1>4, <1>5 DEF Content
<1> QED
  BY <1>3, <1>6 DEF Whole

\* A run that is alone is the only one that steps.
LEMMA AloneStep ==
    ASSUME IInv, Lone, NEW r \in Run, pc[r] \in Active, alone' = alone,
           \A q \in Run \ {r} : pc'[q] = pc[q],
           r \in alone /\ ~broken' => Unfailing(r)'
    PROVE  Lone'
<1> SUFFICES ASSUME NEW q \in alone
             PROVE  /\ \A p \in Run \ {q} : pc'[p] \notin Active
                    /\ ~broken' => Unfailing(q)'
  BY DEF Lone
<1>1. q \in Run
  BY DEF IInv, TypeOK
<1>2. q = r
  BY <1>1 DEF Lone
<1> QED
  BY <1>2 DEF Lone

LEMMA LoneStep ==
    ASSUME IInv, Covered, Lone, NEW r \in Run,
           (\E cert \in Cert : Start(r, cert)) \/ Step(r) \/ Break(r)
    PROVE  Lone'
<1>0. DOMAIN pc = Run /\ DOMAIN bytes = Run /\ DOMAIN pos = Run /\ DOMAIN want = Run
  BY DEF IInv, TypeOK
<1>1. CASE \E cert \in Cert : Start(r, cert)
  <2>1. /\ alone' \subseteq {r} /\ pc'[r] = "exists"
        /\ r \in alone' => \A q \in Run \ {r} : pc'[q] \notin Active
    BY <1>0, <1>1 DEF Start, Goto
  <2>2. Unfailing(r)'
    BY <2>1 DEF Unfailing
  <2> QED
    BY <2>1, <2>2 DEF Lone
<1>2. CASE Break(r)
  <2>1. pc[r] \in Active /\ alone' = alone /\ broken' /\ \A q \in Run \ {r} : pc'[q] = pc[q]
    BY <1>0, <1>2 DEF Break, Goto
  <2> QED
    BY <2>1, AloneStep
<1>3. CASE CheckDir(r) \/ MakeDir(r) \/ Download(r) \/ Create(r)
  <2>1. /\ pc[r] \in Active /\ alone' = alone /\ broken' = broken
        /\ \A q \in Run \ {r} : pc'[q] = pc[q]
    BY <1>0, <1>3 DEF CheckDir, MakeDir, Download, Create, Goto, Active
  <2>2. ASSUME r \in alone, ~broken
        PROVE  pc'[r] \in {"open", "create", "write"} \/ (pc'[r] = "mkdir" /\ ~dir')
    BY <1>0, <1>3, <2>2 DEF Lone, Unfailing, CheckDir, MakeDir, Download, Create, Goto
  <2>3. r \in alone /\ ~broken' => Unfailing(r)'
    BY <2>1, <2>2 DEF Unfailing
  <2> QED
    BY <2>1, <2>3, AloneStep
<1>4. CASE Open(r)
  <2>1. /\ pc[r] \in Active /\ alone' = alone /\ broken' = broken /\ file' = file
        /\ want' = want /\ bytes' = bytes
        /\ \A q \in Run \ {r} : pc'[q] = pc[q]
        /\ pc'[r] = IF file[want[r]] = Absent THEN "download" ELSE "read"
    BY <1>0, <1>4, RunHeld DEF Open, Goto, Active
  <2>2. ASSUME r \in alone, ~broken, file[want[r]] # Absent
        PROVE  file[want[r]] = Whole(want[r])
    <3>1. \A q \in Run : ~MayWrite(q, want[r])
      BY <1>4, <2>2 DEF Lone, MayWrite, Active, Open
    <3> QED
      BY <2>2, <3>1, RunHeld, SettledWhole
  <2>3. Len(bytes[r]) = 0
    BY <1>4, RunHeld, EmptyContent DEF Open, HeldBy
  <2>4. r \in alone /\ ~broken' => Unfailing(r)'
    BY <2>1, <2>2, <2>3 DEF Unfailing
  <2> QED
    BY <2>1, <2>4, AloneStep
<1>5. CASE Read(r)
  <2> DEFINE f == file[want[r]]
             b == bytes[r]
  <2>1. /\ pc[r] = "read" /\ alone' = alone /\ broken' = broken /\ file' = file /\ want' = want
        /\ \A q \in Run \ {r} : pc'[q] = pc[q] /\ Mine(r) = want[r]
    BY <1>0, <1>5, RunHeld DEF Read, Goto
  <2>2. ASSUME r \in alone, ~broken
        PROVE  Unfailing(r)'
    <3>1. /\ f = Whole(want[r]) /\ \A i \in 1 .. Len(b) : b[i] = want[r]
      BY <2>1, <2>2 DEF Lone, Unfailing
    <3>2. /\ f \in Content /\ Of(want[r], f) /\ b \in Content /\ Of(want[r], b)
          /\ want[r] \in Cert /\ pos[r] = Len(b) + 1 /\ Mine(r) = want[r]
      BY <2>1, <3>1, RunHeld, WholeContent DEF HeldBy
    <3>3. Len(f) = Pieces /\ Len(b) \in 0 .. Pieces /\ DOMAIN b = 1 .. Len(b)
      <4>1. DOMAIN f = 1 .. Pieces
        BY <3>1 DEF Whole
      <4> QED
        BY <3>2, <4>1, ContentIsSeq, PiecesAssumption
    <3>4. CASE pos[r] <= Len(f)
      <4> DEFINE d == Append(b, f[Len(b) + 1])
      <4>1. Len(d) = Len(b) + 1
        BY <3>2, <3>4, AppendOf
      <4>2. f[Len(b) + 1] = want[r]
        <5>1. Len(b) + 1 \in 1 .. Pieces
          BY <3>2, <3>3, <3>4, PiecesAssumption
        <5>2. \A i \in 1 .. Pieces : f[i] = want[r]
          BY <3>1 DEF Whole
        <5> HIDE DEF f
        <5> QED
          BY <5>1, <5>2
      <4>3. \A i \in 1 .. Len(d) : d[i] = want[r]
        <5>1. b \in Seq(Cert \cup {Hole})
          BY <3>2, ContentIsSeq
        <5>2. \A i \in 1 .. Len(b) : d[i] = b[i]
          BY <4>2, <3>2, <5>1, AppendProperties
        <5>3. d[Len(b) + 1] = want[r]
          BY <4>2, <3>2, <5>1, AppendProperties
        <5>4. \A i \in 1 .. Len(b) + 1 : i \in 1 .. Len(b) \/ i = Len(b) + 1
          BY <3>3
        <5> HIDE DEF d
        <5> QED
          BY <3>1, <4>1, <5>2, <5>3, <5>4
      <4>4. bytes'[r] = d /\ pc'[r] = "read"
        BY <1>0, <1>5, <2>1, <3>2, <3>4 DEF Read
      <4> HIDE DEF d
      <4> QED
        BY <2>1, <3>1, <4>3, <4>4 DEF Unfailing
    <3>5. CASE ~(pos[r] <= Len(f))
      <4>1. bytes' = bytes /\ pc'[r] = "parse"
        BY <1>0, <1>5, <3>2, <3>5 DEF Read, Goto
      <4>2. Len(b) = Pieces
        BY <3>2, <3>3, <3>5, PiecesAssumption
      <4>3. b = [i \in 1 .. Pieces |-> b[i]]
        BY <3>2, <3>3, <4>2 DEF Content
      <4>4. b = Whole(want[r])
        BY <3>1, <4>2, <4>3 DEF Whole
      <4> QED
        BY <3>2, <4>1, <4>4 DEF Unfailing, Parses
    <3> QED
      BY <3>4, <3>5
  <2> QED
    BY <2>1, <2>2, AloneStep DEF Active
<1>6. CASE Write(r)
  <2>1. /\ pc[r] \in Active /\ alone' = alone /\ bytes' = bytes
        /\ \A q \in Run \ {r} : pc'[q] = pc[q]
        /\ pc'[r] \in {"write", "parse"}
    BY <1>0, <1>6 DEF Write, Goto, Active
  <2>2. Parses(bytes[r])
    BY <1>6, RunHeld DEF Write, HeldBy, Parses
  <2>3. Unfailing(r)'
    BY <2>1, <2>2 DEF Unfailing, Parses
  <2> QED
    BY <2>1, <2>3, AloneStep
<1>7. CASE Parse(r)
  <2>1. /\ pc[r] = "parse" /\ alone' = alone /\ broken' = broken
        /\ \A q \in Run \ {r} : pc'[q] = pc[q]
        /\ pc'[r] = IF Parses(bytes[r]) THEN "done" ELSE "failed"
    BY <1>0, <1>7 DEF Parse, Goto
  <2>2. r \in alone /\ ~broken => Parses(bytes[r])
    BY <2>1 DEF Lone, Unfailing
  <2>3. r \in alone /\ ~broken' => Unfailing(r)'
    BY <2>1, <2>2 DEF Unfailing
  <2> QED
    BY <2>1, <2>3, AloneStep DEF Active
<1> QED
  BY <1>1, <1>2, <1>3, <1>4, <1>5, <1>6, <1>7 DEF Step

LEMMA Undisturbed == Spec => []CauseInv
<1>1. Init => CauseInv
  BY InitIInv, NamesAreCerts DEF Init, CauseInv, Covered, Lone
<1>2. CauseInv /\ [Next]_vars => CauseInv'
  <2> SUFFICES ASSUME CauseInv, [Next]_vars
               PROVE  CauseInv'
    OBVIOUS
  <2>1. IInv /\ Covered /\ Lone /\ IInv'
    BY NextIInv DEF CauseInv
  <2>2. CASE Next
    BY <2>1, <2>2, CoveredStep, LoneStep DEF Next, CauseInv
  <2>3. CASE UNCHANGED vars
    BY <2>1, <2>3 DEF vars, runVars, CauseInv, Covered, Stored, ToWrite, Lone, Unfailing, Parses
  <2> QED
    BY <2>2, <2>3
<1> QED
  BY <1>1, <1>2, PTL DEF Spec

\* Overlapping writers of get_vceck_cert() repair each other's holes: a file that
\* nobody writes any more is whole, unless a call failed or a run was killed.
THEOREM SettledWholeAlways == Spec => []SettledFilesWhole
<1>1. CauseInv => SettledFilesWhole
  BY SettledWhole, NamesAreCerts DEF CauseInv, SettledFilesWhole
<1> QED
  BY <1>1, Undisturbed, PTL

\* new() and get_vceck_cert() fail only if another run overlaps, a call fails or
\* a run was killed before.
THEOREM CausedFailure == Spec => []FailureHasCause
<1>1. CauseInv => FailureHasCause
  BY DEF CauseInv, FailureHasCause, Lone, Unfailing
<1> QED
  BY <1>1, Undisturbed, PTL
==============================================================================
