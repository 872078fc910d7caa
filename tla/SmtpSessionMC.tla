--------------------------- MODULE SmtpSessionMC ---------------------------
(***************************************************************************)
(* SmtpSession on a small message: three recipients, the middle list       *)
(* empty, one attachment in memory and one in a file.                      *)
(***************************************************************************)
EXTENDS SmtpSession

MCListLen == <<2, 0, 1>>
MCAttachments == <<"data", "file">>
MCMultiLine == {"GREET", "EHLO", "HELO"}
=============================================================================
