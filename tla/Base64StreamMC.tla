--------------------------- MODULE Base64StreamMC ---------------------------
(***************************************************************************)
(* Attachments that end next to the end of a group, of a line (57 bytes),  *)
(* of the first and of the second buffer (684 and 1368 bytes).             *)
(***************************************************************************)
EXTENDS Base64Stream

MCSizes == 0..4 \cup 55..59 \cup 112..116 \cup 680..688 \cup 1364..1372
=============================================================================
