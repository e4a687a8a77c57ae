--------------------------- MODULE SecretInjection ---------------------------
(***************************************************************************)
(* The exchange between the attestation server inside the VM               *)
(* (server_main.rs) and the clients that guest owners run against it       *)
(* (client_main.rs): reset, report request, report check, delivery of the  *)
(* wrapped disk encryption key.                                            *)
(*                                                                         *)
(* A client is a connection slot: it is used by one run of the client      *)
(* program at a time and, once that run is over and the server has taken   *)
(* its last request, by another.  The server takes one request at a time,  *)
(* so handling a request is one step.  Keys stand for the server's         *)
(* ephemeral X25519 key pairs: a fresh one differs from every key still in *)
(* use.  A wrapped disk key is described by the session it was wrapped for *)
(* (server key, nonce); opening it succeeds exactly for that session.      *)
(***************************************************************************)
EXTENDS Naturals

CONSTANTS
    Client,         \* connection slots
    Key,            \* the server's ephemeral Diffie-Hellman keys
    MaxNonce,       \* largest nonce: 2^64 - 1 in the code
    OverflowChecks, \* TRUE for a debug build, the one the Makefile makes
    None            \* "no key", "no nonce", "no client"

Nonce == 0 .. MaxNonce

ASSUME MaxNonceAssumption == MaxNonce \in Nat
ASSUME OverflowChecksAssumption == OverflowChecks \in BOOLEAN
ASSUME NoneAssumption == None \notin Client \cup Key \cup Nonce

VARIABLES
    config,         \* the server's no_secret_injection and mock_mode
    state,          \* the server: "Starting", "Ready",
                    \*   "WaitingForSecretInjection", "Done" or "Dead"
    key_material,   \* SecretInjectionParams while waiting for the secret
    disk_key,       \* ./disk_key.txt in the VM
    pc,             \* where each client run is
    nonce,          \* the nonce of each client run
    matches,        \* whether the run's vm config describes this VM
    peer,           \* server key taken from the report the run accepted
    req,            \* the request of each connection the server has not taken
    resp,           \* the response of each connection not yet received
    disturbed       \* history: the runs another run or a fault has disturbed

serverVars == <<state, key_material, disk_key>>
clientVars == <<pc, nonce, matches, peer>>
vars == <<config, serverVars, clientVars, req, resp, disturbed>>

MaybeKey == Key \cup {None}
MaybeNonce == Nonce \cup {None}

Session == [nonce : MaybeNonce, key : MaybeKey]
NoSession == [nonce |-> None, key |-> None]

Requests == [kind : {"none", "reset", "report", "secret"},
             nonce : MaybeNonce, key : MaybeKey]
Responses == [kind : {"none", "ok", "report", "error"},
              nonce : MaybeNonce, key : MaybeKey]
Message(kind, n, k) == [kind |-> kind, nonce |-> n, key |-> k]
Nothing == Message("none", None, None)
Ok == Message("ok", None, None)
Error500 == Message("error", None, None)

DiskKeyFile == [content : {"absent", "truncated", "whole"},
                owner : Client \cup {None}, matched : BOOLEAN]
NoFile == [content |-> "absent", owner |-> None, matched |-> FALSE]

Running == {"reset", "report", "wrap", "secret"}
Serving == {"Ready", "WaitingForSecretInjection"}

\* Keys some run, some message or the server still refers to.
LiveKeys ==
    {key_material.key} \cup {peer[c] : c \in Client}
      \cup {req[c].key : c \in Client} \cup {resp[c].key : c \in Client}

\* Mutant: one key pair is made at start-up and used for every report.
FreshKeys_OneKeyPair == Key

\* The key pairs generate() may return.
FreshKeys == Key \ LiveKeys

------------------------------------------------------------------------------
(* Helpers of the server's actions.                                        *)

\* Mutant: while it waits for the secret the server takes no request.
Taking_OnlyWhenReady(c, kind) ==
    /\ state = "Ready"
    /\ req[c].kind = kind
    /\ req' = [req EXCEPT ![c] = Nothing]

\* The server takes the request of connection c.
Taking(c, kind) ==
    /\ state \in Serving
    /\ req[c].kind = kind
    /\ req' = [req EXCEPT ![c] = Nothing]

\* A response reaches a run that still waits for it, and nobody else.
Respond(c, m) ==
    resp' = [resp EXCEPT ![c] = IF pc[c] \in Running THEN m ELSE Nothing]

\* Handling a request of c disturbs the other runs under way.
Disturb(runs) ==
    disturbed' = disturbed \cup {d \in runs : pc[d] \in Running}

\* Mutant: the session is dropped but the state is not set back.
BackToReady_StateKept ==
    /\ state' = state
    /\ key_material' = NoSession

\* The server forgets the session it waits with, if any.
BackToReady ==
    /\ state' = "Ready"
    /\ key_material' = NoSession

\* Mutant: the server keeps the nonce the counter has already moved on to.
AwaitSecret_NextNonce(n, k) ==
    IF config.no_secret_injection
    THEN UNCHANGED <<state, key_material>>
    ELSE /\ state' = "WaitingForSecretInjection"
         /\ key_material' = [nonce |-> n + 1, key |-> k]

\* Mutant: the test of no_secret_injection is inverted.
AwaitSecret_FlagInverted(n, k) ==
    IF ~config.no_secret_injection
    THEN UNCHANGED <<state, key_material>>
    ELSE /\ state' = "WaitingForSecretInjection"
         /\ key_material' = [nonce |-> n, key |-> k]

\* The server waits for the secret, unless it only serves reports.
AwaitSecret(n, k) ==
    IF config.no_secret_injection
    THEN UNCHANGED <<state, key_material>>
    ELSE /\ state' = "WaitingForSecretInjection"
         /\ key_material' = [nonce |-> n, key |-> k]

\* Mutant: the server serves on after it wrote the key.
ShutDown_ServesOn ==
    /\ state' = "Ready"
    /\ key_material' = NoSession

\* run() returns Ok.
ShutDown ==
    /\ state' = "Done"
    /\ key_material' = NoSession

\* run() returns an error, or the process panics.
Die ==
    /\ state' = "Dead"
    /\ key_material' = NoSession

------------------------------------------------------------------------------
(* The server.                                                             *)

Listen ==
    /\ state = "Starting"
    /\ state' = "Ready"
    /\ UNCHANGED <<config, key_material, disk_key, clientVars, req, resp, disturbed>>

ListenFails ==
    /\ state = "Starting"
    /\ Die
    /\ UNCHANGED <<config, disk_key, clientVars, req, resp, disturbed>>

\* POST /reset: from any state back to Ready.
Reset(c) ==
    /\ Taking(c, "reset")
    /\ BackToReady
    /\ Respond(c, Ok)
    /\ Disturb(Client \ {c})
    /\ UNCHANGED <<config, disk_key, clientVars>>

\* The acknowledgement cannot be sent: run() returns the error.
ResetAckFails(c) ==
    /\ Taking(c, "reset")
    /\ Die
    /\ Respond(c, Nothing)
    /\ Disturb(Client)
    /\ UNCHANGED <<config, disk_key, clientVars>>

\* Ready, and the body is an AttestationRequest: fetch and send a report.
SendReport(c) ==
    /\ state = "Ready"
    /\ Taking(c, "report")
    /\ \E k \in FreshKeys :
         /\ Respond(c, Message("report", req[c].nonce, k))
         /\ AwaitSecret(req[c].nonce, k)
    /\ Disturb(Client \ {c})
    /\ UNCHANGED <<config, disk_key, clientVars>>

\* The report cannot be obtained: the dropped request is answered with 500.
SendReportFails(c) ==
    /\ state = "Ready"
    /\ Taking(c, "report")
    /\ Respond(c, Error500)
    /\ UNCHANGED <<config, serverVars, clientVars, disturbed>>

\* respond() fails, before or after the bytes went out: the state stays Ready.
SendReportRespondFails(c) ==
    /\ state = "Ready"
    /\ Taking(c, "report")
    /\ \/ Respond(c, Nothing)
       \/ \E k \in FreshKeys : Respond(c, Message("report", req[c].nonce, k))
    /\ Disturb({c})
    /\ UNCHANGED <<config, serverVars, clientVars>>

\* Ready, but the body is a wrapped key: it does not parse as a report request.
NotAReportRequest(c) ==
    /\ state = "Ready"
    /\ Taking(c, "secret")
    /\ Respond(c, Error500)
    /\ UNCHANGED <<config, serverVars, clientVars, disturbed>>

\* Waiting, and the body is a report request: the session is given up.
NotASecret(c) ==
    /\ state = "WaitingForSecretInjection"
    /\ Taking(c, "report")
    /\ BackToReady
    /\ Respond(c, Error500)
    /\ Disturb(Client \ {c})
    /\ UNCHANGED <<config, disk_key, clientVars>>

\* The wrapped key was made for the session the server waits with.
Opens(c) ==
    /\ req[c].key = key_material.key
    /\ req[c].nonce = key_material.nonce

\* advance() steps the counter that starts at the session's nonce.
CounterOverflows(n) == OverflowChecks /\ n = MaxNonce

\* The secret opens and is written out; the request is answered when it is
\* dropped, with 500, and the server shuts down.
InjectSecret(c) ==
    /\ state = "WaitingForSecretInjection"
    /\ Taking(c, "secret")
    /\ ~CounterOverflows(key_material.nonce)
    /\ Opens(c)
    /\ disk_key' = [content |-> "whole", owner |-> c, matched |-> matches[c]]
    /\ ShutDown
    /\ Respond(c, Error500)
    /\ Disturb(Client \ {c})
    /\ UNCHANGED <<config, clientVars>>

\* The secret was wrapped for another session.
SecretDoesNotOpen(c) ==
    /\ state = "WaitingForSecretInjection"
    /\ Taking(c, "secret")
    /\ ~CounterOverflows(key_material.nonce)
    /\ ~Opens(c)
    /\ BackToReady
    /\ Respond(c, Error500)
    /\ Disturb(Client \ {c})
    /\ UNCHANGED <<config, disk_key, clientVars>>

\* The counter overflows before the secret is opened: the server panics.
SecretOverflows(c) ==
    /\ state = "WaitingForSecretInjection"
    /\ Taking(c, "secret")
    /\ CounterOverflows(key_material.nonce)
    /\ Die
    /\ Respond(c, Nothing)
    /\ Disturb(Client)
    /\ UNCHANGED <<config, disk_key, clientVars>>

\* The secret opens, but File::create or write_all fails.
SecretFileFails(c) ==
    /\ state = "WaitingForSecretInjection"
    /\ Taking(c, "secret")
    /\ ~CounterOverflows(key_material.nonce)
    /\ Opens(c)
    /\ disk_key' \in {disk_key,
         [content |-> "truncated", owner |-> c, matched |-> matches[c]]}
    /\ BackToReady
    /\ Respond(c, Error500)
    /\ Disturb(Client)
    /\ UNCHANGED <<config, clientVars>>

------------------------------------------------------------------------------
(* The client.                                                             *)

\* A run starts: the vm config and the nonce are chosen, /reset is posted.
Start(c, n, m) ==
    /\ pc[c] \notin Running
    /\ req[c] = Nothing
    /\ pc' = [pc EXCEPT ![c] = "reset"]
    /\ nonce' = [nonce EXCEPT ![c] = n]
    /\ matches' = [matches EXCEPT ![c] = m]
    /\ req' = [req EXCEPT ![c] = Message("reset", None, None)]
    /\ disturbed' = disturbed \ {c}
    /\ UNCHANGED <<config, serverVars, peer, resp>>

\* Whatever the answer to /reset, the report is requested next.
RequestReport(c) ==
    /\ pc[c] = "reset"
    /\ resp[c] # Nothing
    /\ pc' = [pc EXCEPT ![c] = "report"]
    /\ req' = [req EXCEPT ![c] = Message("report", nonce[c], None)]
    /\ resp' = [resp EXCEPT ![c] = Nothing]
    /\ UNCHANGED <<config, serverVars, nonce, matches, peer, disturbed>>

\* Mutant: the report is checked for the nonce and the signature only.
ReportValid_NoDataCheck(c) ==
    /\ resp[c].kind = "report"
    /\ resp[c].nonce = nonce[c]
    /\ ~config.mock_mode

\* The report is genuine, carries the run's nonce and describes the VM of the
\* vm config.  A mock report carries no valid signature.
ReportValid(c) ==
    /\ resp[c].kind = "report"
    /\ resp[c].nonce = nonce[c]
    /\ matches[c]
    /\ ~config.mock_mode

AcceptReport(c) ==
    /\ pc[c] = "report"
    /\ ReportValid(c)
    /\ pc' = [pc EXCEPT ![c] = "wrap"]
    /\ peer' = [peer EXCEPT ![c] = resp[c].key]
    /\ resp' = [resp EXCEPT ![c] = Nothing]
    /\ UNCHANGED <<config, serverVars, nonce, matches, req, disturbed>>

\* The end of a run without success; its process is gone.
RunFails(c) ==
    /\ pc' = [pc EXCEPT ![c] = "failed"]
    /\ peer' = [peer EXCEPT ![c] = None]
    /\ resp' = [resp EXCEPT ![c] = Nothing]
    /\ UNCHANGED <<config, serverVars, nonce, matches, disturbed>>

\* An error response does not parse as a report, or the report is refused.
RefuseReport(c) ==
    /\ pc[c] = "report"
    /\ resp[c] # Nothing
    /\ ~ReportValid(c)
    /\ RunFails(c)
    /\ UNCHANGED req

\* The VCEK certificate cannot be had.
VcekUnavailable(c) ==
    /\ pc[c] = "report"
    /\ resp[c].kind = "report"
    /\ RunFails(c)
    /\ UNCHANGED req

\* Mutant: the client wraps with a counter that wraps around.
SendSecret_Wrapping(c) ==
    /\ pc[c] = "wrap"
    /\ pc' = [pc EXCEPT ![c] = "secret"]
    /\ req' = [req EXCEPT ![c] = Message("secret", nonce[c], peer[c])]
    /\ peer' = [peer EXCEPT ![c] = None]
    /\ UNCHANGED <<config, serverVars, nonce, matches, resp, disturbed>>

\* The disk key is wrapped for the session of the report and posted.
SendSecret(c) ==
    /\ pc[c] = "wrap"
    /\ ~CounterOverflows(nonce[c])
    /\ pc' = [pc EXCEPT ![c] = "secret"]
    /\ req' = [req EXCEPT ![c] = Message("secret", nonce[c], peer[c])]
    /\ peer' = [peer EXCEPT ![c] = None]
    /\ UNCHANGED <<config, serverVars, nonce, matches, resp, disturbed>>

\* aead_enc() panics in advance() before anything is sent.
WrapOverflows(c) ==
    /\ pc[c] = "wrap"
    /\ CounterOverflows(nonce[c])
    /\ RunFails(c)
    /\ UNCHANGED req

\* Any answer to the secret, a 500 included, is printed as "Success!".
Succeed(c) ==
    /\ pc[c] = "secret"
    /\ resp[c] # Nothing
    /\ pc' = [pc EXCEPT ![c] = "success"]
    /\ resp' = [resp EXCEPT ![c] = Nothing]
    /\ UNCHANGED <<config, serverVars, nonce, matches, peer, req, disturbed>>

------------------------------------------------------------------------------
(* Connections and timeouts.                                               *)

\* The run is interrupted or gives up waiting; its request stays on the way.
GiveUp(c) ==
    /\ pc[c] \in Running
    /\ RunFails(c)
    /\ UNCHANGED req

\* A request is lost, or a response is.
Lose(c) ==
    /\ \/ /\ req[c] # Nothing
          /\ req' = [req EXCEPT ![c] = Nothing]
          /\ UNCHANGED resp
       \/ /\ resp[c] # Nothing
          /\ resp' = [resp EXCEPT ![c] = Nothing]
          /\ UNCHANGED req
    /\ UNCHANGED <<config, serverVars, clientVars, disturbed>>

\* The server is not up, or not any more: the connection is closed.
Refuse(c) ==
    /\ state \notin Serving
    /\ req[c] # Nothing
    /\ req' = [req EXCEPT ![c] = Nothing]
    /\ UNCHANGED <<config, serverVars, clientVars, resp, disturbed>>

\* A run waits on a connection that is closed.
ConnectionLost(c) ==
    /\ pc[c] \in {"reset", "report", "secret"}
    /\ req[c] = Nothing
    /\ resp[c] = Nothing
    /\ RunFails(c)
    /\ UNCHANGED req

------------------------------------------------------------------------------
Init ==
    /\ config \in [no_secret_injection : BOOLEAN, mock_mode : BOOLEAN]
    /\ state = "Starting"
    /\ key_material = NoSession
    /\ disk_key = NoFile
    /\ pc = [c \in Client |-> "idle"]
    /\ nonce = [c \in Client |-> None]
    /\ matches = [c \in Client |-> FALSE]
    /\ peer = [c \in Client |-> None]
    /\ req = [c \in Client |-> Nothing]
    /\ resp = [c \in Client |-> Nothing]
    /\ disturbed = {}

\* The server's loop takes the request of c and succeeds.
Serve(c) ==
    \/ Reset(c)
    \/ SendReport(c)
    \/ NotAReportRequest(c)
    \/ NotASecret(c)
    \/ InjectSecret(c)
    \/ SecretDoesNotOpen(c)
    \/ SecretOverflows(c)

\* A call the server makes fails.
ServeFails(c) ==
    \/ ResetAckFails(c)
    \/ SendReportFails(c)
    \/ SendReportRespondFails(c)
    \/ SecretFileFails(c)

\* The run of c goes on.
Proceed(c) ==
    \/ RequestReport(c)
    \/ AcceptReport(c)
    \/ RefuseReport(c)
    \/ SendSecret(c)
    \/ WrapOverflows(c)
    \/ Succeed(c)
    \/ ConnectionLost(c)

Disrupt(c) ==
    \/ VcekUnavailable(c)
    \/ GiveUp(c)
    \/ Lose(c)

\* The steps in which no call fails and no connection breaks.
SmoothNext ==
    \/ Listen
    \/ \E c \in Client :
         \/ \E n \in Nonce, m \in BOOLEAN : Start(c, n, m)
         \/ Serve(c)
         \/ Proceed(c)
         \/ Refuse(c)

Next ==
    \/ SmoothNext
    \/ ListenFails
    \/ \E c \in Client : ServeFails(c) \/ Disrupt(c)

\* The loop of run() and the request queue behind it take every request; a run
\* that can go on does.  Nobody has to start a run, and nothing has to fail.
Fairness ==
    /\ WF_vars(Listen)
    /\ \A c \in Client :
         WF_vars(Serve(c) \/ ServeFails(c)) /\ WF_vars(Proceed(c)) /\ WF_vars(Refuse(c))

Spec == Init /\ [][Next]_vars
FairSpec == Spec /\ Fairness

------------------------------------------------------------------------------
(* Properties.                                                             *)

\* Every variable has its type.
TypeOK ==
    /\ config \in [no_secret_injection : BOOLEAN, mock_mode : BOOLEAN]
    /\ state \in Serving \cup {"Starting", "Done", "Dead"}
    /\ key_material \in Session
    /\ disk_key \in DiskKeyFile
    /\ pc \in [Client -> Running \cup {"idle", "success", "failed"}]
    /\ nonce \in [Client -> MaybeNonce]
    /\ matches \in [Client -> BOOLEAN]
    /\ peer \in [Client -> MaybeKey]
    /\ req \in [Client -> Requests]
    /\ resp \in [Client -> Responses]
    /\ disturbed \in SUBSET Client

\* The keys the connection c still carries or the run behind it holds.
Holds(c) == {peer[c], req[c].key, resp[c].key} \ {None}

\* Two runs never hold the same server key, and the run that holds the key the
\* server waits with has that session's nonce: a wrapped secret can open only
\* in the session its own run was given, however runs overlap and are cut off.
SessionsAreApart ==
    /\ \A c, d \in Client : c # d => Holds(c) \cap Holds(d) = {}
    /\ \A c \in Client :
         key_material.key \in Holds(c) => nonce[c] = key_material.nonce

\* A disk key leaves its owner only for a VM that runs on real hardware and
\* that the vm config describes: this holds of every secret under way and of
\* what was ever written to disk_key.txt, whole or truncated.
KeyOnlyForMatchingVM ==
    /\ \A c \in Client :
         req[c].kind = "secret" => matches[c] /\ ~config.mock_mode
    /\ disk_key # NoFile => disk_key.matched /\ ~config.mock_mode

\* The server ends well exactly when a whole key is in disk_key.txt: neither a
\* failed attempt nor a later one leaves "Done" with a truncated file, and no
\* request taken after the whole key was written puts the server back to work.
DoneMeansWholeKey == state = "Done" <=> disk_key.content = "whole"

\* "Success!" is true of a run nobody disturbed: unless another run's request
\* was handled meanwhile or a call of the server failed, the key printed as
\* delivered is the one in disk_key.txt.
UndisturbedSuccess ==
    \A c \in Client :
      pc[c] = "success" /\ c \notin disturbed /\ ~config.no_secret_injection
        => disk_key.content = "whole" /\ disk_key.owner = c

\* client_main.rs prints "Success!" only when the disk key was deployed.
SuccessMeansInstalled ==
    \A c \in Client : pc[c] = "success" => disk_key.content = "whole"

\* The server never panics over the nonce counter on the secret of the session
\* it waits with: the client of that session panics first, in aead_enc().
OverflowOnlyOnForeignSecret ==
    [][\A c \in Client : SecretOverflows(c) => ~Opens(c)]_vars

\* Every run of the client comes to an end by itself: each request is answered,
\* or its connection is closed.
EveryRunEnds == \A c \in Client : pc[c] \in Running ~> pc[c] \notin Running

\* The guest owner behind c runs the client again and again, now and then with
\* the right vm config and a nonce below the largest.
Persistent(c) == SF_vars(\E n \in Nonce \ {MaxNonce} : Start(c, n, TRUE))

\* Nothing fails in this step, and only c's owner may start a run.
CalmStep(c) ==
    /\ SmoothNext
    /\ \A d \in Client \ {c} : pc'[d] \in Running => pc[d] \in Running

\* The server is never stuck, neither waiting for the secret of a run that is
\* gone nor with requests of such runs on the way: if from some moment on no
\* call fails and c's owner, who keeps trying, is the only one to start runs, a
\* key is delivered or the server is already dead.  (Two owners who keep trying
\* can reset each other's session for ever.)
DeliveredInTheEnd ==
    ~config.no_secret_injection /\ ~config.mock_mode =>
      \A c \in Client :
        Persistent(c) /\ <>[][CalmStep(c)]_vars => <>(state \in {"Done", "Dead"})

\* The abstract promise: at most one key, of a run that approved this VM.
Promise == INSTANCE KeyDelivery WITH
    phase <- IF disk_key.content = "whole" THEN "delivered"
             ELSE IF state = "Dead" THEN "lost" ELSE "open",
    approved <- {c \in Client :
                   matches[c] /\ (pc[c] = "wrap" \/ req[c].kind = "secret")},
    owner <- IF disk_key.content = "whole" THEN disk_key.owner ELSE None
DeliversOnce == Promise!Spec
==============================================================================
