----------------------- MODULE SecretInjectionProofs -----------------------
(***************************************************************************)
(* Safety of SecretInjection for every number of clients and keys, every   *)
(* nonce width and both build profiles.                                    *)
(***************************************************************************)
EXTENDS SecretInjection, TLAPS

Waiting == state = "WaitingForSecretInjection"

\* With secret injection off the server neither keeps a session nor writes
\* a key, whatever requests arrive.
NoInjectionWhenOff ==
    config.no_secret_injection => key_material = NoSession /\ disk_key = NoFile

\* The server has a session exactly while it waits; disk_key.txt is whole
\* exactly when the server is done, and what is in it came from a match.
ServerInv ==
    /\ Waiting => key_material.key \in Key /\ key_material.nonce \in Nonce
    /\ ~Waiting => key_material = NoSession
    /\ DoneMeansWholeKey
    /\ disk_key # NoFile => disk_key.matched /\ ~config.mock_mode
    /\ NoInjectionWhenOff

\* What a run's place in the program says of its nonce and its peer's key.
RunInv(c) ==
    /\ pc[c] \in Running => nonce[c] \in Nonce
    /\ pc[c] # "wrap" => peer[c] = None
    /\ pc[c] = "wrap" =>
         /\ matches[c]
         /\ ~config.mock_mode
         /\ peer[c] \in Key
         /\ req[c] = Nothing

\* What may be under way on a connection, by the place of its run.
MessageInv(c) ==
    /\ req[c].kind = "none" => req[c] = Nothing
    /\ req[c].kind # "secret" => req[c].key = None
    /\ req[c].kind = "report" => req[c].nonce = nonce[c] /\ nonce[c] \in Nonce
    /\ req[c].kind = "secret" =>
         /\ matches[c]
         /\ ~config.mock_mode
         /\ req[c].nonce = nonce[c]
         /\ nonce[c] \in Nonce
         /\ ~CounterOverflows(nonce[c])
         /\ req[c].key \in Key
    /\ pc[c] \in {"reset", "report", "secret"} =>
         req[c] = Nothing \/ req[c].kind = pc[c]
    /\ resp[c] # Nothing =>
         /\ req[c] = Nothing
         /\ pc[c] \in {"reset", "report", "secret"}
    /\ resp[c].key # None => resp[c].kind = "report"
    /\ resp[c].kind = "report" =>
         pc[c] = "report" /\ resp[c].nonce = nonce[c] /\ resp[c].key \in Key

\* The server waits with the session (n, k).
WaitsWith(n, k) == Waiting /\ key_material.nonce = n /\ key_material.key = k

\* As long as nothing disturbs a run, its session is the server's, until its
\* key is in disk_key.txt.
UndisturbedInv(c) ==
    c \notin disturbed /\ ~config.no_secret_injection =>
      /\ resp[c].kind = "report" => WaitsWith(nonce[c], resp[c].key)
      /\ pc[c] = "wrap" => WaitsWith(nonce[c], peer[c])
      /\ pc[c] = "secret" /\ req[c] # Nothing => WaitsWith(nonce[c], req[c].key)
      /\ pc[c] = "success" \/ (pc[c] = "secret" /\ resp[c] # Nothing) =>
           disk_key.content = "whole" /\ disk_key.owner = c

IInv ==
    /\ TypeOK
    /\ ServerInv
    /\ \A c \in Client : RunInv(c) /\ MessageInv(c)
    /\ SessionsAreApart
    /\ \A c \in Client : UndisturbedInv(c)

------------------------------------------------------------------------------
(* Types.                                                                  *)

\* The initial states have the types.
LEMMA InitTypeOK == Init => TypeOK
  BY NoneAssumption DEF Init, TypeOK, Serving, Running, Session, NoSession,
     DiskKeyFile, NoFile, Requests, Responses, Nothing, Message, MaybeKey,
     MaybeNonce

\* Every step keeps the types.
LEMMA NextTypeOK == TypeOK /\ [Next]_vars => TypeOK'
  <1> SUFFICES ASSUME TypeOK, [Next]_vars PROVE TypeOK'
    OBVIOUS
  <1> USE DEF TypeOK, Serving, Running, Session, NoSession, DiskKeyFile,
      Requests, Responses, Nothing, Message, Ok, Error500, MaybeKey, MaybeNonce,
      Taking, Respond, Disturb, BackToReady, AwaitSecret, ShutDown,
      Die, serverVars, clientVars
  <1>1. CASE UNCHANGED vars
    BY <1>1 DEF vars
  <1>2. CASE Listen
    BY <1>2 DEF Listen
  <1>3. CASE ListenFails
    BY <1>3 DEF ListenFails
  <1>4. ASSUME NEW c \in Client, NEW n \in Nonce, NEW m \in BOOLEAN, Start(c, n, m)
        PROVE  TypeOK'
    BY <1>4 DEF Start
  <1>5. ASSUME NEW c \in Client, Serve(c) PROVE TypeOK'
    <2>1. CASE Reset(c)
      BY <2>1 DEF Reset
    <2>2. CASE SendReport(c)
      BY <2>2 DEF SendReport, FreshKeys
    <2>3. CASE NotAReportRequest(c)
      BY <2>3 DEF NotAReportRequest
    <2>4. CASE NotASecret(c)
      BY <2>4 DEF NotASecret
    <2>5. CASE InjectSecret(c)
      BY <2>5 DEF InjectSecret
    <2>6. CASE SecretDoesNotOpen(c)
      BY <2>6 DEF SecretDoesNotOpen
    <2>7. CASE SecretOverflows(c)
      BY <2>7 DEF SecretOverflows
    <2> QED
      BY <1>5, <2>1, <2>2, <2>3, <2>4, <2>5, <2>6, <2>7 DEF Serve
  <1>6. ASSUME NEW c \in Client, ServeFails(c) PROVE TypeOK'
    <2>1. CASE ResetAckFails(c)
      BY <2>1 DEF ResetAckFails
    <2>2. CASE SendReportFails(c)
      BY <2>2 DEF SendReportFails
    <2>3. CASE SendReportRespondFails(c)
      BY <2>3 DEF SendReportRespondFails, FreshKeys
    <2>4. CASE SecretFileFails(c)
      BY <2>4 DEF SecretFileFails
    <2> QED
      BY <1>6, <2>1, <2>2, <2>3, <2>4 DEF ServeFails
  <1>7. ASSUME NEW c \in Client, Proceed(c) PROVE TypeOK'
    <2>1. CASE RequestReport(c)
      BY <2>1 DEF RequestReport
    <2>2. CASE AcceptReport(c)
      BY <2>2 DEF AcceptReport, ReportValid
    <2>3. CASE RefuseReport(c)
      BY <2>3 DEF RefuseReport, RunFails
    <2>4. CASE SendSecret(c)
      BY <2>4 DEF SendSecret
    <2>5. CASE WrapOverflows(c)
      BY <2>5 DEF WrapOverflows, RunFails
    <2>6. CASE Succeed(c)
      BY <2>6 DEF Succeed
    <2>7. CASE ConnectionLost(c)
      BY <2>7 DEF ConnectionLost, RunFails
    <2> QED
      BY <1>7, <2>1, <2>2, <2>3, <2>4, <2>5, <2>6, <2>7 DEF Proceed
  <1>8. ASSUME NEW c \in Client, Disrupt(c) PROVE TypeOK'
    <2>1. CASE VcekUnavailable(c)
      BY <2>1 DEF VcekUnavailable, RunFails
    <2>2. CASE GiveUp(c)
      BY <2>2 DEF GiveUp, RunFails
    <2>3. CASE Lose(c)
      <3>1. CASE req' = [req EXCEPT ![c] = Nothing] /\ UNCHANGED resp
        BY <2>3, <3>1 DEF Lose
      <3>2. CASE resp' = [resp EXCEPT ![c] = Nothing] /\ UNCHANGED req
        BY <2>3, <3>2 DEF Lose
      <3> QED
        BY <2>3, <3>1, <3>2 DEF Lose
    <2> QED
      BY <1>8, <2>1, <2>2, <2>3 DEF Disrupt
  <1>9. ASSUME NEW c \in Client, Refuse(c) PROVE TypeOK'
    BY <1>9 DEF Refuse
  <1> QED
    BY <1>1, <1>2, <1>3, <1>4, <1>5, <1>6, <1>7, <1>8, <1>9 DEF Next, SmoothNext

\* Whatever runs, requests and failures occur, every variable keeps its type.
THEOREM TypeCorrect == Spec => []TypeOK
  BY InitTypeOK, NextTypeOK, PTL DEF Spec

------------------------------------------------------------------------------
(* The inductive invariant.                                                *)

\* The server part.
LEMMA NextServerInv == IInv /\ [Next]_vars => ServerInv'
  <1> SUFFICES ASSUME IInv, [Next]_vars PROVE ServerInv'
    OBVIOUS
  <1> USE DEF IInv, ServerInv, Waiting, DoneMeansWholeKey, NoInjectionWhenOff,
      RunInv, MessageInv, TypeOK, Serving, Running, Session, NoSession, DiskKeyFile, NoFile,
      Requests, Responses, Nothing, Message, Ok, Error500, MaybeKey, MaybeNonce,
      Taking, Respond, Disturb, BackToReady, AwaitSecret, ShutDown,
      Die, serverVars, clientVars
  <1>1. CASE UNCHANGED vars
    BY <1>1 DEF vars
  <1>2. CASE Listen
    BY <1>2 DEF Listen
  <1>3. CASE ListenFails
    BY <1>3 DEF ListenFails
  <1>4. ASSUME NEW c \in Client, NEW n \in Nonce, NEW m \in BOOLEAN, Start(c, n, m)
        PROVE  ServerInv'
    BY <1>4 DEF Start
  <1>5. ASSUME NEW c \in Client, Serve(c) PROVE ServerInv'
    <2>1. CASE Reset(c)
      BY <2>1 DEF Reset
    <2>2. CASE SendReport(c)
      BY <2>2 DEF SendReport, FreshKeys
    <2>3. CASE NotAReportRequest(c)
      BY <2>3 DEF NotAReportRequest
    <2>4. CASE NotASecret(c)
      BY <2>4 DEF NotASecret
    <2>5. CASE InjectSecret(c)
      <3>1. matches[c] /\ ~config.mock_mode /\ ~config.no_secret_injection
        BY <2>5, NoneAssumption DEF InjectSecret
      <3>2. /\ disk_key' = [content |-> "whole", owner |-> c, matched |-> TRUE]
            /\ state' = "Done" /\ key_material' = NoSession /\ config' = config
        BY <2>5, <3>1 DEF InjectSecret
      <3> QED
        BY <3>1, <3>2
    <2>6. CASE SecretDoesNotOpen(c)
      BY <2>6 DEF SecretDoesNotOpen, Opens
    <2>7. CASE SecretOverflows(c)
      BY <2>7 DEF SecretOverflows
    <2> QED
      BY <1>5, <2>1, <2>2, <2>3, <2>4, <2>5, <2>6, <2>7 DEF Serve
  <1>6. ASSUME NEW c \in Client, ServeFails(c) PROVE ServerInv'
    <2>1. CASE ResetAckFails(c)
      BY <2>1 DEF ResetAckFails
    <2>2. CASE SendReportFails(c)
      BY <2>2 DEF SendReportFails
    <2>3. CASE SendReportRespondFails(c)
      BY <2>3 DEF SendReportRespondFails, FreshKeys
    <2>4. CASE SecretFileFails(c)
      <3>1. matches[c] /\ ~config.mock_mode /\ ~config.no_secret_injection
        BY <2>4, NoneAssumption DEF SecretFileFails
      <3>2. disk_key' \in {disk_key, [content |-> "truncated", owner |-> c, matched |-> TRUE]}
        BY <2>4, <3>1 DEF SecretFileFails
      <3>3. state' = "Ready" /\ key_material' = NoSession /\ config' = config
        BY <2>4 DEF SecretFileFails
      <3>4. disk_key'.content # "whole"
        BY <2>4, <3>2 DEF SecretFileFails
      <3> QED
        BY <3>1, <3>2, <3>3, <3>4
    <2> QED
      BY <1>6, <2>1, <2>2, <2>3, <2>4 DEF ServeFails
  <1>7. ASSUME NEW c \in Client, Proceed(c) PROVE ServerInv'
    <2>1. CASE RequestReport(c)
      BY <2>1 DEF RequestReport
    <2>2. CASE AcceptReport(c)
      BY <2>2 DEF AcceptReport, ReportValid
    <2>3. CASE RefuseReport(c)
      BY <2>3 DEF RefuseReport, ReportValid, RunFails
    <2>4. CASE SendSecret(c)
      BY <2>4 DEF SendSecret
    <2>5. CASE WrapOverflows(c)
      BY <2>5 DEF WrapOverflows, RunFails
    <2>6. CASE Succeed(c)
      BY <2>6 DEF Succeed
    <2>7. CASE ConnectionLost(c)
      BY <2>7 DEF ConnectionLost, RunFails
    <2> QED
      BY <1>7, <2>1, <2>2, <2>3, <2>4, <2>5, <2>6, <2>7 DEF Proceed
  <1>8. ASSUME NEW c \in Client, Disrupt(c) PROVE ServerInv'
    <2>1. CASE VcekUnavailable(c)
      BY <2>1 DEF VcekUnavailable, RunFails
    <2>2. CASE GiveUp(c)
      BY <2>2 DEF GiveUp, RunFails
    <2>3. CASE Lose(c)
      BY <2>3 DEF Lose
    <2> QED
      BY <1>8, <2>1, <2>2, <2>3 DEF Disrupt
  <1>9. ASSUME NEW c \in Client, Refuse(c) PROVE ServerInv'
    BY <1>9 DEF Refuse
  <1> QED
    BY <1>1, <1>2, <1>3, <1>4, <1>5, <1>6, <1>7, <1>8, <1>9 DEF Next, SmoothNext

\* What runs and connections hold.
LEMMA NextRunInv == IInv /\ [Next]_vars => \A d \in Client : RunInv(d)' /\ MessageInv(d)'
  <1> SUFFICES ASSUME IInv, [Next]_vars, NEW d \in Client
               PROVE  RunInv(d)' /\ MessageInv(d)'
    OBVIOUS
  <1> USE DEF IInv, ServerInv, Waiting, CounterOverflows,
      RunInv, MessageInv, TypeOK, Serving, Running, Session, NoSession, DiskKeyFile, NoFile,
      Requests, Responses, Nothing, Message, Ok, Error500, MaybeKey, MaybeNonce,
      Taking, Respond, Disturb, BackToReady, AwaitSecret, ShutDown,
      Die, serverVars, clientVars
  <1>1. CASE UNCHANGED vars
    BY <1>1 DEF vars
  <1>2. CASE Listen
    BY <1>2 DEF Listen
  <1>3. CASE ListenFails
    BY <1>3 DEF ListenFails
  <1>4. ASSUME NEW c \in Client, NEW n \in Nonce, NEW m \in BOOLEAN, Start(c, n, m)
        PROVE  RunInv(d)' /\ MessageInv(d)'
    BY <1>4 DEF Start
  <1>5. ASSUME NEW c \in Client, Serve(c) PROVE RunInv(d)' /\ MessageInv(d)'
    <2>1. CASE Reset(c)
      BY <2>1 DEF Reset
    <2>2. CASE SendReport(c)
      BY <2>2 DEF SendReport, FreshKeys
    <2>3. CASE NotAReportRequest(c)
      BY <2>3 DEF NotAReportRequest
    <2>4. CASE NotASecret(c)
      BY <2>4 DEF NotASecret
    <2>5. CASE InjectSecret(c)
      BY <2>5 DEF InjectSecret, Opens
    <2>6. CASE SecretDoesNotOpen(c)
      BY <2>6 DEF SecretDoesNotOpen, Opens
    <2>7. CASE SecretOverflows(c)
      BY <2>7 DEF SecretOverflows
    <2> QED
      BY <1>5, <2>1, <2>2, <2>3, <2>4, <2>5, <2>6, <2>7 DEF Serve
  <1>6. ASSUME NEW c \in Client, ServeFails(c) PROVE RunInv(d)' /\ MessageInv(d)'
    <2>1. CASE ResetAckFails(c)
      BY <2>1 DEF ResetAckFails
    <2>2. CASE SendReportFails(c)
      BY <2>2 DEF SendReportFails
    <2>3. CASE SendReportRespondFails(c)
      BY <2>3 DEF SendReportRespondFails, FreshKeys
    <2>4. CASE SecretFileFails(c)
      BY <2>4 DEF SecretFileFails, Opens
    <2> QED
      BY <1>6, <2>1, <2>2, <2>3, <2>4 DEF ServeFails
  <1>7. ASSUME NEW c \in Client, Proceed(c) PROVE RunInv(d)' /\ MessageInv(d)'
    <2>1. CASE RequestReport(c)
      BY <2>1 DEF RequestReport
    <2>2. CASE AcceptReport(c)
      BY <2>2 DEF AcceptReport, ReportValid
    <2>3. CASE RefuseReport(c)
      BY <2>3 DEF RefuseReport, ReportValid, RunFails
    <2>4. CASE SendSecret(c)
      BY <2>4 DEF SendSecret
    <2>5. CASE WrapOverflows(c)
      BY <2>5 DEF WrapOverflows, RunFails
    <2>6. CASE Succeed(c)
      BY <2>6 DEF Succeed
    <2>7. CASE ConnectionLost(c)
      BY <2>7 DEF ConnectionLost, RunFails
    <2> QED
      BY <1>7, <2>1, <2>2, <2>3, <2>4, <2>5, <2>6, <2>7 DEF Proceed
  <1>8. ASSUME NEW c \in Client, Disrupt(c) PROVE RunInv(d)' /\ MessageInv(d)'
    <2>1. CASE VcekUnavailable(c)
      BY <2>1 DEF VcekUnavailable, RunFails
    <2>2. CASE GiveUp(c)
      BY <2>2 DEF GiveUp, RunFails
    <2>3. CASE Lose(c)
      BY <2>3 DEF Lose
    <2> QED
      BY <1>8, <2>1, <2>2, <2>3 DEF Disrupt
  <1>9. ASSUME NEW c \in Client, Refuse(c) PROVE RunInv(d)' /\ MessageInv(d)'
    BY <1>9 DEF Refuse
  <1> QED
    BY <1>1, <1>2, <1>3, <1>4, <1>5, <1>6, <1>7, <1>8, <1>9 DEF Next, SmoothNext

\* No connection gains a key in this step, and the server starts no session.
KeysShrink ==
    /\ key_material' \in {key_material, NoSession}
    /\ \A d \in Client :
         /\ peer'[d] \in Holds(d) \cup {None}
         /\ req'[d].key \in Holds(d) \cup {None}
         /\ resp'[d].key \in Holds(d) \cup {None}
         /\ nonce'[d] = nonce[d] \/ Holds(d) = {}

\* Connection c alone gains a key, a fresh one, and the server may start the
\* session of that key.
KeyGiven(c, k) ==
    /\ key_material' \in {key_material, [nonce |-> nonce[c], key |-> k]}
    /\ peer' = peer /\ nonce' = nonce
    /\ \A d \in Client : req'[d].key = req[d].key
    /\ resp'[c].key \in {k, None}
    /\ \A d \in Client \ {c} : resp'[d].key = resp[d].key

KeysMove == KeysShrink \/ \E c \in Client, k \in FreshKeys : KeyGiven(c, k)

\* Sessions stay apart when keys only move or vanish.
LEMMA ShrinkKeepsApart == IInv /\ KeysShrink => SessionsAreApart'
  <1> SUFFICES ASSUME IInv, KeysShrink PROVE SessionsAreApart'
    OBVIOUS
  <1>1. \A d \in Client : Holds(d)' \subseteq Holds(d)
    BY DEF KeysShrink, Holds
  <1>2. \A c, d \in Client : c # d => Holds(c)' \cap Holds(d)' = {}
    BY <1>1 DEF IInv, SessionsAreApart
  <1>3. ASSUME NEW c \in Client, key_material'.key \in Holds(c)'
        PROVE  nonce'[c] = key_material'.nonce
    <2>1. None \notin Holds(c)
      BY DEF Holds
    <2>2. key_material' = key_material
      BY <1>1, <1>3, <2>1 DEF KeysShrink, NoSession
    <2>3. nonce'[c] = nonce[c]
      BY <1>1, <1>3 DEF KeysShrink
    <2> QED
      BY <1>1, <1>3, <2>2, <2>3 DEF IInv, SessionsAreApart
  <1> QED
    BY <1>2, <1>3 DEF SessionsAreApart

\* Sessions stay apart when a connection is given a key nobody holds.
LEMMA FreshKeepsApart ==
  ASSUME IInv, NEW c \in Client, NEW k \in FreshKeys, KeyGiven(c, k)
  PROVE  SessionsAreApart'
  <1>1. \A d \in Client : k \notin Holds(d) /\ k # key_material.key /\ k # None
    BY NoneAssumption DEF FreshKeys, LiveKeys, Holds
  <1>2. /\ \A d \in Client \ {c} : Holds(d)' \subseteq Holds(d)
        /\ Holds(c)' \subseteq Holds(c) \cup {k}
    BY DEF KeyGiven, Holds
  <1>3. \A d, e \in Client : d # e => Holds(d)' \cap Holds(e)' = {}
    BY <1>1, <1>2 DEF IInv, SessionsAreApart
  <1>4. ASSUME NEW d \in Client, key_material'.key \in Holds(d)'
        PROVE  nonce'[d] = key_material'.nonce
    <2>1. CASE key_material' = key_material
      BY <1>1, <1>2, <1>4, <2>1 DEF KeyGiven, IInv, SessionsAreApart
    <2>2. CASE key_material' = [nonce |-> nonce[c], key |-> k]
      BY <1>1, <1>2, <1>4, <2>2 DEF KeyGiven
    <2> QED
      BY <2>1, <2>2 DEF KeyGiven
  <1> QED
    BY <1>3, <1>4 DEF SessionsAreApart

\* Every step moves keys in one of the two ways.
LEMMA NextKeysMove == IInv /\ [Next]_vars => KeysMove
  <1> SUFFICES ASSUME IInv, [Next]_vars PROVE KeysMove
    OBVIOUS
  <1> USE DEF IInv, ServerInv, Waiting, Holds,
      RunInv, MessageInv, TypeOK, Serving, Running, Session, NoSession, DiskKeyFile, NoFile,
      Requests, Responses, Nothing, Message, Ok, Error500, MaybeKey, MaybeNonce,
      Taking, Respond, Disturb, BackToReady, AwaitSecret, ShutDown,
      Die, serverVars, clientVars
  <1>1. CASE UNCHANGED vars
    BY <1>1 DEF KeysMove, KeysShrink, vars
  <1>2. CASE Listen
    BY <1>2 DEF KeysMove, KeysShrink, Listen
  <1>3. CASE ListenFails
    BY <1>3 DEF KeysMove, KeysShrink, ListenFails
  <1>4. ASSUME NEW c \in Client, NEW n \in Nonce, NEW m \in BOOLEAN, Start(c, n, m)
        PROVE  KeysMove
    BY <1>4 DEF KeysMove, KeysShrink, Start
  <1>5. ASSUME NEW c \in Client, Serve(c) PROVE KeysMove
    <2>1. CASE Reset(c)
      BY <2>1 DEF KeysMove, KeysShrink, Reset
    <2>2. CASE SendReport(c)
      <3>1. PICK k \in FreshKeys :
              /\ Respond(c, Message("report", req[c].nonce, k))
              /\ key_material' \in {key_material, [nonce |-> req[c].nonce, key |-> k]}
        BY <2>2 DEF SendReport
      <3>2. req[c].nonce = nonce[c] /\ req[c].key = None
        BY <2>2 DEF SendReport
      <3>3. KeyGiven(c, k)
        BY <2>2, <3>1, <3>2 DEF SendReport, KeyGiven
      <3> QED
        BY <3>3 DEF KeysMove
    <2>3. CASE NotAReportRequest(c)
      BY <2>3 DEF KeysMove, KeysShrink, NotAReportRequest
    <2>4. CASE NotASecret(c)
      BY <2>4 DEF KeysMove, KeysShrink, NotASecret
    <2>5. CASE InjectSecret(c)
      BY <2>5 DEF KeysMove, KeysShrink, InjectSecret, Opens
    <2>6. CASE SecretDoesNotOpen(c)
      BY <2>6 DEF KeysMove, KeysShrink, SecretDoesNotOpen, Opens
    <2>7. CASE SecretOverflows(c)
      BY <2>7 DEF KeysMove, KeysShrink, SecretOverflows
    <2> QED
      BY <1>5, <2>1, <2>2, <2>3, <2>4, <2>5, <2>6, <2>7 DEF Serve
  <1>6. ASSUME NEW c \in Client, ServeFails(c) PROVE KeysMove
    <2>1. CASE ResetAckFails(c)
      BY <2>1 DEF KeysMove, KeysShrink, ResetAckFails
    <2>2. CASE SendReportFails(c)
      BY <2>2 DEF KeysMove, KeysShrink, SendReportFails
    <2>3. CASE SendReportRespondFails(c)
      <3>1. CASE Respond(c, Nothing)
        BY <2>3, <3>1 DEF SendReportRespondFails, KeysMove, KeysShrink
      <3>2. ASSUME NEW k \in FreshKeys, Respond(c, Message("report", req[c].nonce, k))
            PROVE  KeyGiven(c, k)
        BY <2>3, <3>2 DEF SendReportRespondFails, KeyGiven
      <3> QED
        BY <2>3, <3>1, <3>2 DEF SendReportRespondFails, KeysMove
    <2>4. CASE SecretFileFails(c)
      BY <2>4 DEF KeysMove, KeysShrink, SecretFileFails, Opens
    <2> QED
      BY <1>6, <2>1, <2>2, <2>3, <2>4 DEF ServeFails
  <1>7. ASSUME NEW c \in Client, Proceed(c) PROVE KeysMove
    <2>1. CASE RequestReport(c)
      BY <2>1 DEF KeysMove, KeysShrink, RequestReport
    <2>2. CASE AcceptReport(c)
      BY <2>2 DEF KeysMove, KeysShrink, AcceptReport, ReportValid
    <2>3. CASE RefuseReport(c)
      BY <2>3 DEF KeysMove, KeysShrink, RefuseReport, ReportValid, RunFails
    <2>4. CASE SendSecret(c)
      BY <2>4 DEF KeysMove, KeysShrink, SendSecret
    <2>5. CASE WrapOverflows(c)
      BY <2>5 DEF KeysMove, KeysShrink, WrapOverflows, RunFails
    <2>6. CASE Succeed(c)
      BY <2>6 DEF KeysMove, KeysShrink, Succeed
    <2>7. CASE ConnectionLost(c)
      BY <2>7 DEF KeysMove, KeysShrink, ConnectionLost, RunFails
    <2> QED
      BY <1>7, <2>1, <2>2, <2>3, <2>4, <2>5, <2>6, <2>7 DEF Proceed
  <1>8. ASSUME NEW c \in Client, Disrupt(c) PROVE KeysMove
    <2>1. CASE VcekUnavailable(c)
      BY <2>1 DEF KeysMove, KeysShrink, VcekUnavailable, RunFails
    <2>2. CASE GiveUp(c)
      BY <2>2 DEF KeysMove, KeysShrink, GiveUp, RunFails
    <2>3. CASE Lose(c)
      <3>1. CASE req' = [req EXCEPT ![c] = Nothing] /\ UNCHANGED resp
        BY <2>3, <3>1 DEF KeysMove, KeysShrink, Lose
      <3>2. CASE resp' = [resp EXCEPT ![c] = Nothing] /\ UNCHANGED req
        BY <2>3, <3>2 DEF KeysMove, KeysShrink, Lose
      <3> QED
        BY <2>3, <3>1, <3>2 DEF Lose
    <2> QED
      BY <1>8, <2>1, <2>2, <2>3 DEF Disrupt
  <1>9. ASSUME NEW c \in Client, Refuse(c) PROVE KeysMove
    BY <1>9 DEF KeysMove, KeysShrink, Refuse
  <1> QED
    BY <1>1, <1>2, <1>3, <1>4, <1>5, <1>6, <1>7, <1>8, <1>9 DEF Next, SmoothNext

\* Every step keeps sessions apart.
LEMMA NextSessionsAreApart == IInv /\ [Next]_vars => SessionsAreApart'
  BY NextKeysMove, ShrinkKeepsApart, FreshKeepsApart DEF KeysMove

\* Undisturbed runs keep their session.
LEMMA NextUndisturbedInv == IInv /\ [Next]_vars => \A d \in Client : UndisturbedInv(d)'
  <1> SUFFICES ASSUME IInv, [Next]_vars, NEW d \in Client
               PROVE  UndisturbedInv(d)'
    OBVIOUS
  <1> USE DEF IInv, ServerInv, Waiting, WaitsWith, DoneMeansWholeKey,
      NoInjectionWhenOff, RunInv, MessageInv, UndisturbedInv, TypeOK, Serving, Running, Session, NoSession, DiskKeyFile, NoFile,
      Requests, Responses, Nothing, Message, Ok, Error500, MaybeKey, MaybeNonce,
      Taking, Respond, Disturb, BackToReady, AwaitSecret, ShutDown,
      Die, serverVars, clientVars
  <1>1. CASE UNCHANGED vars
    BY <1>1 DEF vars
  <1>2. CASE Listen
    BY <1>2 DEF Listen
  <1>3. CASE ListenFails
    BY <1>3 DEF ListenFails
  <1>4. ASSUME NEW c \in Client, NEW n \in Nonce, NEW m \in BOOLEAN, Start(c, n, m)
        PROVE  UndisturbedInv(d)'
    BY <1>4 DEF Start
  <1>5. ASSUME NEW c \in Client, Serve(c) PROVE UndisturbedInv(d)'
    <2>1. CASE Reset(c)
      BY <2>1 DEF Reset
    <2>2. CASE SendReport(c)
      BY <2>2 DEF SendReport, FreshKeys
    <2>3. CASE NotAReportRequest(c)
      BY <2>3 DEF NotAReportRequest
    <2>4. CASE NotASecret(c)
      BY <2>4 DEF NotASecret
    <2>5. CASE InjectSecret(c)
      BY <2>5 DEF InjectSecret, Opens
    <2>6. CASE SecretDoesNotOpen(c)
      BY <2>6 DEF SecretDoesNotOpen, Opens
    <2>7. CASE SecretOverflows(c)
      BY <2>7 DEF SecretOverflows
    <2> QED
      BY <1>5, <2>1, <2>2, <2>3, <2>4, <2>5, <2>6, <2>7 DEF Serve
  <1>6. ASSUME NEW c \in Client, ServeFails(c) PROVE UndisturbedInv(d)'
    <2>1. CASE ResetAckFails(c)
      BY <2>1 DEF ResetAckFails
    <2>2. CASE SendReportFails(c)
      BY <2>2 DEF SendReportFails
    <2>3. CASE SendReportRespondFails(c)
      BY <2>3 DEF SendReportRespondFails, FreshKeys
    <2>4. CASE SecretFileFails(c)
      BY <2>4 DEF SecretFileFails, Opens
    <2> QED
      BY <1>6, <2>1, <2>2, <2>3, <2>4 DEF ServeFails
  <1>7. ASSUME NEW c \in Client, Proceed(c) PROVE UndisturbedInv(d)'
    <2>1. CASE RequestReport(c)
      BY <2>1 DEF RequestReport
    <2>2. CASE AcceptReport(c)
      BY <2>2 DEF AcceptReport, ReportValid
    <2>3. CASE RefuseReport(c)
      BY <2>3 DEF RefuseReport, ReportValid, RunFails
    <2>4. CASE SendSecret(c)
      BY <2>4 DEF SendSecret
    <2>5. CASE WrapOverflows(c)
      BY <2>5 DEF WrapOverflows, RunFails
    <2>6. CASE Succeed(c)
      BY <2>6 DEF Succeed
    <2>7. CASE ConnectionLost(c)
      BY <2>7 DEF ConnectionLost, RunFails
    <2> QED
      BY <1>7, <2>1, <2>2, <2>3, <2>4, <2>5, <2>6, <2>7 DEF Proceed
  <1>8. ASSUME NEW c \in Client, Disrupt(c) PROVE UndisturbedInv(d)'
    <2>1. CASE VcekUnavailable(c)
      BY <2>1 DEF VcekUnavailable, RunFails
    <2>2. CASE GiveUp(c)
      BY <2>2 DEF GiveUp, RunFails
    <2>3. CASE Lose(c)
      <3>1. CASE req' = [req EXCEPT ![c] = Nothing] /\ UNCHANGED resp
        BY <2>3, <3>1 DEF Lose
      <3>2. CASE resp' = [resp EXCEPT ![c] = Nothing] /\ UNCHANGED req
        BY <2>3, <3>2 DEF Lose
      <3> QED
        BY <2>3, <3>1, <3>2 DEF Lose
    <2> QED
      BY <1>8, <2>1, <2>2, <2>3 DEF Disrupt
  <1>9. ASSUME NEW c \in Client, Refuse(c) PROVE UndisturbedInv(d)'
    BY <1>9 DEF Refuse
  <1> QED
    BY <1>1, <1>2, <1>3, <1>4, <1>5, <1>6, <1>7, <1>8, <1>9 DEF Next, SmoothNext

------------------------------------------------------------------------------
(* The invariant and what it implies.                                      *)

\* The initial states satisfy the invariant.
LEMMA InitIInv == Init => IInv
  <1> SUFFICES ASSUME Init PROVE IInv
    OBVIOUS
  <1>1. TypeOK
    BY InitTypeOK
  <1>2. ServerInv
    BY DEF Init, ServerInv, Waiting, DoneMeansWholeKey, NoInjectionWhenOff, NoFile
  <1>3. \A c \in Client : RunInv(c) /\ MessageInv(c) /\ UndisturbedInv(c)
    BY DEF Init, RunInv, MessageInv, UndisturbedInv, Running, Nothing, Message
  <1>4. \A c \in Client : Holds(c) = {}
    BY DEF Init, Holds, Nothing, Message
  <1> QED
    BY <1>1, <1>2, <1>3, <1>4 DEF IInv, SessionsAreApart

\* Every step keeps the invariant.
LEMMA NextIInv == IInv /\ [Next]_vars => IInv'
  BY NextTypeOK, NextServerInv, NextRunInv, NextSessionsAreApart,
     NextUndisturbedInv DEF IInv

\* The invariant holds in every reachable state.
THEOREM Invariance == Spec => []IInv
  BY InitIInv, NextIInv, PTL DEF Spec

\* However many runs overlap, are cut off or retried, no two of them hold the
\* same server key, and a wrapped key opens only in its own run's session.
THEOREM Apart == Spec => []SessionsAreApart
  <1>1. IInv => SessionsAreApart
    BY DEF IInv
  <1> QED
    BY <1>1, Invariance, PTL

\* No disk key is sent to, or stored in, a VM the vm config does not describe.
THEOREM OnlyMatching == Spec => []KeyOnlyForMatchingVM
  <1>1. IInv => KeyOnlyForMatchingVM
    BY DEF IInv, ServerInv, MessageInv, KeyOnlyForMatchingVM
  <1> QED
    BY <1>1, Invariance, PTL

\* The server ends well exactly when the whole key is in disk_key.txt.
THEOREM WholeKey == Spec => []DoneMeansWholeKey
  <1>1. IInv => DoneMeansWholeKey
    BY DEF IInv, ServerInv
  <1> QED
    BY <1>1, Invariance, PTL

\* With injection off the server never holds a session nor writes a key.
THEOREM OffMeansOff == Spec => []NoInjectionWhenOff
  <1>1. IInv => NoInjectionWhenOff
    BY DEF IInv, ServerInv
  <1> QED
    BY <1>1, Invariance, PTL

\* A run that prints "Success!" and that nothing disturbed has delivered.
THEOREM SuccessWhenUndisturbed == Spec => []UndisturbedSuccess
  <1>1. IInv => UndisturbedSuccess
    BY DEF IInv, UndisturbedInv, UndisturbedSuccess
  <1> QED
    BY <1>1, Invariance, PTL

\* The server's nonce counter never overflows on the secret of the session it
\* waits with: that run's own client panicked before it sent one.
THEOREM OverflowForeign == Spec => OverflowOnlyOnForeignSecret
  <1>1. ASSUME IInv, NEW c \in Client, SecretOverflows(c)
        PROVE  ~Opens(c)
    BY <1>1 DEF IInv, MessageInv, SecretOverflows, Taking, Opens
  <1>2. IInv => \A c \in Client : SecretOverflows(c) => ~Opens(c)
    BY <1>1
  <1>3. IInv /\ [Next]_vars => [\A c \in Client : SecretOverflows(c) => ~Opens(c)]_vars
    BY <1>2
  <1> QED
    BY <1>3, Invariance, PTL DEF Spec, OverflowOnlyOnForeignSecret

------------------------------------------------------------------------------
(* SecretInjection implements KeyDelivery.                                 *)

\* The run of c has approved the VM and its key is not yet delivered.
ApprovedRun(c) == matches[c] /\ (pc[c] = "wrap" \/ req[c].kind = "secret")

\* A step in which at most c, if it had approved the VM, ceases to.
Withdraws(c) ==
    /\ disk_key'.content = "whole" <=> disk_key.content = "whole"
    /\ disk_key.content = "whole" => disk_key' = disk_key
    /\ state' = "Dead" <=> state = "Dead"
    /\ ApprovedRun(c)' => ApprovedRun(c)
    /\ \A d \in Client \ {c} : ApprovedRun(d)' <=> ApprovedRun(d)

\* The same for a step in which the server dies.
Dies(c) ==
    /\ disk_key' = disk_key
    /\ state' = "Dead" /\ state \notin {"Dead", "Done"}
    /\ ApprovedRun(c)' => ApprovedRun(c)
    /\ \A d \in Client \ {c} : ApprovedRun(d)' <=> ApprovedRun(d)

\* A step that stores the key of c, which had approved the VM.
Delivers(c) ==
    /\ disk_key.content # "whole" /\ state # "Dead"
    /\ disk_key'.content = "whole" /\ disk_key'.owner = c
    /\ ApprovedRun(c) /\ ~ApprovedRun(c)'
    /\ \A d \in Client \ {c} : ApprovedRun(d)' <=> ApprovedRun(d)

PromiseStep == [Promise!Next]_(Promise!kdvars)

\* Such a step is a Withdraw of the promise, or none of its steps.
LEMMA WithdrawsStep ==
  ASSUME NEW c \in Client, Withdraws(c) PROVE PromiseStep
  <1> DEFINE app == {d \in Client : ApprovedRun(d)}
  <1>1. app' = app \/ app' = app \ {c}
    BY DEF Withdraws
  <1>2. CASE app' = app
    BY <1>2 DEF Withdraws, PromiseStep, Promise!kdvars, ApprovedRun
  <1>3. CASE app' = app \ {c}
    <2>1. Promise!Withdraw(c)
      BY <1>3 DEF Withdraws, Promise!Withdraw, ApprovedRun
    <2> QED
      BY <2>1 DEF PromiseStep, Promise!Next
  <1> QED
    BY <1>1, <1>2, <1>3

\* Such a step is a Deliver of the promise.
LEMMA DeliversStep ==
  ASSUME NEW c \in Client, Delivers(c) PROVE PromiseStep
  <1> DEFINE app == {d \in Client : ApprovedRun(d)}
  <1>1. app' = app \ {c} /\ c \in app
    BY DEF Delivers
  <1>2. Promise!Deliver(c)
    BY <1>1 DEF Delivers, Promise!Deliver, ApprovedRun
  <1> QED
    BY <1>2 DEF PromiseStep, Promise!Next

\* Such a step is a Lose of the promise.
LEMMA DiesStep ==
  ASSUME IInv, NEW c \in Client, Dies(c) PROVE PromiseStep
  <1> DEFINE app == {d \in Client : ApprovedRun(d)}
  <1>1. \E gone \in {{}} \cup {{d} : d \in Client} : app' = app \ gone
    <2>1. app' = app \ {} \/ app' = app \ {c}
      BY DEF Dies
    <2> QED
      BY <2>1
  <1>2. disk_key.content # "whole"
    BY DEF IInv, ServerInv, DoneMeansWholeKey, Dies
  <1>3. Promise!Lose
    BY <1>1, <1>2 DEF Dies, Promise!Lose, ApprovedRun
  <1> QED
    BY <1>3 DEF PromiseStep, Promise!Next

\* Every step is a step of the promise, or none.
LEMMA NextPromise == IInv /\ [Next]_vars => PromiseStep
  <1> SUFFICES ASSUME IInv, [Next]_vars PROVE PromiseStep
    OBVIOUS
  <1> USE DEF IInv, ServerInv, Waiting, DoneMeansWholeKey,
      RunInv, MessageInv, TypeOK, Serving, Running, Session, NoSession, DiskKeyFile, NoFile,
      Requests, Responses, Nothing, Message, Ok, Error500, MaybeKey, MaybeNonce,
      Taking, Respond, Disturb, BackToReady, AwaitSecret, ShutDown,
      Die, serverVars, clientVars
  <1>1. CASE UNCHANGED vars
    BY <1>1 DEF vars, PromiseStep, Promise!kdvars
  <1>2. CASE Listen
    BY <1>2 DEF Listen, PromiseStep, Promise!kdvars
  <1>3. CASE ListenFails
    <2>1. \E gone \in {{}} \cup {{d} : d \in Client} :
            {d \in Client : ApprovedRun(d)}' = {d \in Client : ApprovedRun(d)} \ gone
      <3>1. {d \in Client : ApprovedRun(d)}' = {d \in Client : ApprovedRun(d)} \ {}
        BY <1>3 DEF ListenFails, ApprovedRun
      <3> QED
        BY <3>1
    <2>2. Promise!Lose
      BY <1>3, <2>1 DEF ListenFails, Promise!Lose, ApprovedRun
    <2> QED
      BY <2>2 DEF PromiseStep, Promise!Next
  <1>4. ASSUME NEW c \in Client, NEW n \in Nonce, NEW m \in BOOLEAN, Start(c, n, m)
        PROVE  PromiseStep
    BY <1>4, WithdrawsStep DEF Start, Withdraws, ApprovedRun
  <1>5. ASSUME NEW c \in Client, Serve(c) PROVE PromiseStep
    <2>1. CASE Reset(c)
      BY <2>1, WithdrawsStep DEF Reset, Withdraws, ApprovedRun
    <2>2. CASE SendReport(c)
      BY <2>2, WithdrawsStep DEF SendReport, FreshKeys, Withdraws, ApprovedRun
    <2>3. CASE NotAReportRequest(c)
      BY <2>3, WithdrawsStep DEF NotAReportRequest, Withdraws, ApprovedRun
    <2>4. CASE NotASecret(c)
      BY <2>4, WithdrawsStep DEF NotASecret, Withdraws, ApprovedRun
    <2>5. CASE InjectSecret(c)
      BY <2>5, DeliversStep DEF InjectSecret, Delivers, ApprovedRun
    <2>6. CASE SecretDoesNotOpen(c)
      BY <2>6, WithdrawsStep DEF SecretDoesNotOpen, Opens, Withdraws, ApprovedRun
    <2>7. CASE SecretOverflows(c)
      BY <2>7, DiesStep DEF SecretOverflows, Dies, ApprovedRun
    <2> QED
      BY <1>5, <2>1, <2>2, <2>3, <2>4, <2>5, <2>6, <2>7 DEF Serve
  <1>6. ASSUME NEW c \in Client, ServeFails(c) PROVE PromiseStep
    <2>1. CASE ResetAckFails(c)
      <3>1. \A d \in Client \ {c} : req'[d] = req[d]
        BY <2>1 DEF ResetAckFails
      <3>2. req'[c].kind = "none" /\ pc' = pc /\ matches' = matches
        BY <2>1 DEF ResetAckFails
      <3>3. Dies(c)
        BY <2>1, <3>1, <3>2 DEF ResetAckFails, Dies, ApprovedRun
      <3> QED
        BY <3>3, DiesStep
    <2>2. CASE SendReportFails(c)
      BY <2>2, WithdrawsStep DEF SendReportFails, Withdraws, ApprovedRun
    <2>3. CASE SendReportRespondFails(c)
      BY <2>3, WithdrawsStep DEF SendReportRespondFails, FreshKeys, Withdraws, ApprovedRun
    <2>4. CASE SecretFileFails(c)
      <3>1. disk_key.content # "whole" /\ disk_key'.content # "whole"
        BY <2>4 DEF SecretFileFails
      <3>2. req'[c].kind = "none" /\ \A d \in Client \ {c} : req'[d] = req[d]
        BY <2>4 DEF SecretFileFails
      <3>3. Withdraws(c)
        BY <2>4, <3>1, <3>2 DEF SecretFileFails, Withdraws, ApprovedRun
      <3> QED
        BY <3>3, WithdrawsStep
    <2> QED
      BY <1>6, <2>1, <2>2, <2>3, <2>4 DEF ServeFails
  <1>7. ASSUME NEW c \in Client, Proceed(c) PROVE PromiseStep
    <2>1. CASE RequestReport(c)
      BY <2>1, WithdrawsStep DEF RequestReport, Withdraws, ApprovedRun
    <2>2. CASE AcceptReport(c)
      <3>1. {d \in Client : ApprovedRun(d)}' = {d \in Client : ApprovedRun(d)} \cup {c}
        BY <2>2 DEF AcceptReport, ReportValid, ApprovedRun
      <3>2. ~ApprovedRun(c)
        BY <2>2 DEF AcceptReport, ReportValid, ApprovedRun
      <3>3. Promise!Approve(c)
        BY <2>2, <3>1, <3>2 DEF AcceptReport, Promise!Approve, ApprovedRun
      <3> QED
        BY <3>3 DEF PromiseStep, Promise!Next
    <2>3. CASE RefuseReport(c)
      BY <2>3, WithdrawsStep DEF RefuseReport, ReportValid, RunFails, Withdraws, ApprovedRun
    <2>4. CASE SendSecret(c)
      BY <2>4, WithdrawsStep DEF SendSecret, Withdraws, ApprovedRun
    <2>5. CASE WrapOverflows(c)
      BY <2>5, WithdrawsStep DEF WrapOverflows, RunFails, Withdraws, ApprovedRun
    <2>6. CASE Succeed(c)
      BY <2>6, WithdrawsStep DEF Succeed, Withdraws, ApprovedRun
    <2>7. CASE ConnectionLost(c)
      BY <2>7, WithdrawsStep DEF ConnectionLost, RunFails, Withdraws, ApprovedRun
    <2> QED
      BY <1>7, <2>1, <2>2, <2>3, <2>4, <2>5, <2>6, <2>7 DEF Proceed
  <1>8. ASSUME NEW c \in Client, Disrupt(c) PROVE PromiseStep
    <2>1. CASE VcekUnavailable(c)
      BY <2>1, WithdrawsStep DEF VcekUnavailable, RunFails, Withdraws, ApprovedRun
    <2>2. CASE GiveUp(c)
      BY <2>2, WithdrawsStep DEF GiveUp, RunFails, Withdraws, ApprovedRun
    <2>3. CASE Lose(c)
      <3>1. CASE req' = [req EXCEPT ![c] = Nothing] /\ UNCHANGED resp
        BY <2>3, <3>1, WithdrawsStep DEF Lose, Withdraws, ApprovedRun
      <3>2. CASE resp' = [resp EXCEPT ![c] = Nothing] /\ UNCHANGED req
        BY <2>3, <3>2, WithdrawsStep DEF Lose, Withdraws, ApprovedRun
      <3> QED
        BY <2>3, <3>1, <3>2 DEF Lose
    <2> QED
      BY <1>8, <2>1, <2>2, <2>3 DEF Disrupt
  <1>9. ASSUME NEW c \in Client, Refuse(c) PROVE PromiseStep
    BY <1>9, WithdrawsStep DEF Refuse, Withdraws, ApprovedRun
  <1> QED
    BY <1>1, <1>2, <1>3, <1>4, <1>5, <1>6, <1>7, <1>8, <1>9 DEF Next, SmoothNext

\* The promise holds initially.
LEMMA InitPromise == Init => Promise!Init
  BY DEF Init, Promise!Init, NoFile, Nothing, Message

\* The detailed exchange keeps the abstract promise: the VM receives at most
\* one key, and it is the key of a run that approved this VM.
THEOREM Implements == Spec => DeliversOnce
  <1>1. IInv /\ [Next]_vars => [Promise!Next]_(Promise!kdvars)
    BY NextPromise DEF PromiseStep
  <1> QED
    BY <1>1, InitPromise, Invariance, PTL DEF Spec, DeliversOnce, Promise!Spec
=============================================================================
