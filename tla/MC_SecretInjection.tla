------------------------- MODULE MC_SecretInjection -------------------------
(* Small instances of SecretInjection for TLC.                             *)
EXTENDS SecretInjection, TLC

\* Injection on and real hardware.
InitSwitchedOn ==
    /\ Init
    /\ config = [no_secret_injection |-> FALSE, mock_mode |-> FALSE]

\* As InitSwitchedOn, with nothing that fails: only runs that overlap.
OverlapSpec ==
    /\ InitSwitchedOn
    /\ [][SmoothNext]_vars

==============================================================================
