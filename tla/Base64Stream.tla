---------------------------- MODULE Base64Stream ----------------------------
(***************************************************************************)
(* How an attachment goes onto the wire: send_base64_encode_mime_data and  *)
(* send_base64_encode_mime_file turn three bytes into four characters at a *)
(* time, end a line after 76 characters and collect all this in a buffer   *)
(* of 936 bytes that is written out when it is nearly full.  The two are   *)
(* the same loop over different sources.                                   *)
(*                                                                         *)
(* The line feed is put into the buffer only if it still fits and is       *)
(* dropped for good if not.  Whether that ever happens depends on how the  *)
(* line length, the size of the buffer and the threshold for writing it    *)
(* out fall together, over the whole length of the attachment.  Which      *)
(* characters are sent makes no difference; the model counts them.         *)
(***************************************************************************)
EXTENDS Integers

CONSTANT Sizes    \* attachment lengths, in bytes

ASSUME SizesAssumption == Sizes \subseteq Nat

ChunkSize == 936
LineLen == 76

VARIABLES
    pc,       \* "loop", "tail", "done"
    size,     \* len, or the size of the file
    left,     \* bytes not yet encoded: end - in, or len - fbufIndex
    byteAdd,  \* bytes in the buffer
    dByte,    \* what the code takes for the length of the current line
    written,  \* bytes given to client->write
    lines,    \* line feeds put into the buffer
    col       \* characters since the last of them

streamVars == <<pc, size, left, byteAdd, dByte, written, lines, col>>

StreamInit ==
    /\ pc = "loop" /\ size \in Sizes /\ left = size
    /\ byteAdd = 0 /\ dByte = 0 /\ written = 0 /\ lines = 0 /\ col = 0

\* if (byteAdd + 1 < chunkSize)
HasRoomOf3(n) == n + 2 < ChunkSize
HasRoom(n) == n + 1 < ChunkSize

\* if (dByte == 76)
EndsLineLate(d) == d = LineLen + 4
EndsLine(d) == d = LineLen

\* if (byteAdd >= chunkSize - 4)
NearlyFullLate(n) == n > ChunkSize
NearlyFull(n) == n >= ChunkSize - 4

\* Four characters and perhaps a line feed go into the buffer, which is
\* written out when it is nearly full.
Group ==
    /\ pc = "loop" /\ left >= 3
    /\ LET newline == EndsLine(dByte + 4) /\ HasRoom(byteAdd + 4)
           filled == byteAdd + 4 + (IF newline THEN 2 ELSE 0)
       IN /\ dByte' = IF EndsLine(dByte + 4) THEN 0 ELSE dByte + 4
          /\ lines' = IF newline THEN lines + 1 ELSE lines
          /\ col' = IF newline THEN 0 ELSE col + 4
          /\ byteAdd' = IF NearlyFull(filled) THEN 0 ELSE filled
          /\ written' = IF NearlyFull(filled) THEN written + filled ELSE written
    /\ left' = left - 3
    /\ UNCHANGED <<pc, size>>

\* The loop is over: what is in the buffer goes out.
Flush ==
    /\ pc = "loop" /\ left < 3
    /\ pc' = IF left > 0 THEN "tail" ELSE "done"
    /\ written' = written + byteAdd /\ byteAdd' = 0
    /\ UNCHANGED <<size, left, dByte, lines, col>>

\* One or two bytes are left: a padded group in a write of its own.
Pad ==
    /\ pc = "tail"
    /\ pc' = "done" /\ left' = 0
    /\ written' = written + 4 /\ col' = col + 4
    /\ UNCHANGED <<size, byteAdd, dByte, lines>>

StreamNext == Group \/ Flush \/ Pad

StreamSpec == StreamInit /\ [][StreamNext]_streamVars

-----------------------------------------------------------------------------
StreamTypeOK ==
    /\ pc \in {"loop", "tail", "done"}
    /\ size \in Sizes /\ left \in 0..size
    /\ byteAdd \in 0..(ChunkSize - 5) /\ dByte \in 0..LineLen
    /\ written \in Nat /\ lines \in Nat /\ col \in Nat

\* The four characters of the next group are inside the buffer.
GroupFits == pc = "loop" => byteAdd + 4 <= ChunkSize

\* No line feed is ever dropped: a line of the encoded attachment has at
\* most 76 characters, as MIME asks, whatever its length.
LineFits == col <= LineLen

\* At the end everything was written: four characters for every three bytes
\* begun, and a line feed for every full line before the padded group.
AllWritten ==
    pc = "done" =>
        /\ written = 4 * ((size + 2) \div 3) + 2 * lines
        /\ lines = (4 * (size \div 3)) \div LineLen
=============================================================================
