---------------------------- MODULE MailTransfer ----------------------------
(***************************************************************************)
(* What one call of ESP32_MailClient::sendMail promises its caller, with   *)
(* the session that carries it out left away.  A message is handed over to *)
(* the server or not; the server gives its verdict at a time of its own;   *)
(* the call returns true, returns false or takes the device down.          *)
(*                                                                         *)
(* The promise is weaker than "true means delivered": true only says that  *)
(* the whole message was handed over.  What a caller can rely on is the    *)
(* other direction: after false the server does not hold the message and   *)
(* never will, so the message may be sent again.                           *)
(***************************************************************************)

VARIABLES
    fate,     \* what became of the message at the server
    answer    \* what the caller was told

vars == <<fate, answer>>

Init == fate = "none" /\ answer = "none"

\* The last byte of the message leaves the device.
HandOver ==
    /\ answer = "none" /\ fate = "none"
    /\ fate' = "handed" /\ UNCHANGED answer

\* The server takes the message or turns it down, before or after the
\* caller was answered.
Verdict ==
    /\ fate = "handed"
    /\ fate' \in {"accepted", "rejected"} /\ UNCHANGED answer

ReturnTrue ==
    /\ answer = "none" /\ fate # "none"
    /\ answer' = "true" /\ UNCHANGED fate

ReturnFalse ==
    /\ answer = "none" /\ fate \in {"none", "rejected"}
    /\ answer' = "false" /\ UNCHANGED fate

\* The device resets in mid-call; the caller is never answered.
Crash ==
    /\ answer = "none" /\ fate = "none"
    /\ answer' = "crashed" /\ UNCHANGED fate

Next == HandOver \/ Verdict \/ ReturnTrue \/ ReturnFalse \/ Crash

Spec == Init /\ [][Next]_vars
=============================================================================
