------------------------------ MODULE ImapBody ------------------------------
(***************************************************************************)
(* waitIMAPResponse of ESP32_MailClient for the body of one part, a text   *)
(* or an attachment: which of the bytes that arrive reach the text kept in *)
(* memory and the file, and what the part's record says of them after.     *)
(*                                                                         *)
(* The reply is a first line that announces a literal of so many           *)
(* characters, the lines of the literal, and the tagged line.  The last    *)
(* line of the literal has no end in it: the closing parenthesis follows   *)
(* it on its line.  (A literal that ends with a line end has a last line   *)
(* that is blank.)  A line is its length and what it stands for: positions *)
(* in the body, and 0 for a byte that is none of it.  The properties       *)
(* compare positions; the code sees characters.  A base64 line holds whole *)
(* groups of four, as base64_decode_char expects.                          *)
(***************************************************************************)
EXTENDS Integers, Sequences, SequencesExt, FiniteSetsExt

CONSTANTS
    Bodies,   \* parts on the server: the decoded bytes of each of their lines,
              \* <<0>> for an empty part
    Sizes,    \* what the header of an attachment may declare as its size
    MaxChar,  \* _message_buffer_size
    TagChars, \* characters of a tagged line
    TagBytes, \* bytes its letters decode to, taken for base64
    Garbage   \* what an uninitialised size_t may hold

ASSUME BodiesAssumption == \A b \in Bodies : b \in Seq(Nat) /\ b # <<>>
ASSUME NumbersAssumption ==
    /\ Sizes \cup Garbage \cup {MaxChar} \subseteq Nat
    /\ TagChars \in Nat \ {0} /\ TagBytes \in 0 .. TagChars

VARIABLES
    ask,     \* the part that is asked for, and what the caller wants of it
    stage,   \* what waitIMAPResponse is doing
    conn,    \* "up" until the connection breaks
    owed,    \* lines of the reply still to come
    inbox,   \* lines the client can read
    wait,    \* lfCount, charCount, payloadLength, validResponse, completeResp
    text,    \* _text
    file,    \* what was written to the part's file
    out,     \* outputLength
    total,   \* downloadedByte
    counted, \* currentDownloadByte, what the progress report adds up
    record,  \* the part's _size, _sdFileOpenWrite, _error; the mail's _error
    header   \* hpath # "" (wanted), and _headerSaved

stored == <<text, file, out, total, counted>>
vars == <<ask, stage, conn, owed, inbox, wait, stored, record, header>>

-----------------------------------------------------------------------------
\* The parts, and the reply of the server.

\* The ends of lines of these widths.
Ends(widths) ==
    LET end[k \in 0 .. Len(widths)] == IF k = 0 THEN 0 ELSE end[k - 1] + widths[k] IN end
Sum(widths) == Ends(widths)[Len(widths)]
Span(a, b) == [i \in 1 .. b - a + 1 |-> a + i - 1]

\* The characters of a line in the literal: its end is among them, but for the
\* last line.
Chars(base64, b) == IF base64 THEN 4 * ((b + 2) \div 3) ELSE b
IsLast(a, k) == k = Len(a.lines)
CharsOf(a) == [k \in DOMAIN a.lines |->
                 Chars(a.base64, a.lines[k]) + IF IsLast(a, k) THEN 0 ELSE 2]
Payload(a) == Sum(CharsOf(a))

\* The content of a line: its decoded bytes, or all its characters.
Widths(a) == IF a.base64 THEN a.lines ELSE CharsOf(a)
Content(a, k) == Span(Ends(Widths(a))[k - 1] + 1, Ends(Widths(a))[k])

\* What the part consists of.
Body(a) == Span(1, Sum(Widths(a)))

NoByte(n) == [i \in 1 .. n |-> 0]
Line(kind, chars, bytes) == [kind |-> kind, chars |-> chars, bytes |-> bytes]
Tag(kind) == Line(kind, TagChars, NoByte(TagBytes))

\* An empty literal is announced with {0}.  Behind the last line come the
\* parenthesis and a line end.
Yes(a) == <<Line("literal", Payload(a), <<>>)>>
          \o [k \in DOMAIN a.lines |->
                IF IsLast(a, k) THEN Line("last", CharsOf(a)[k] + 3, Content(a, k))
                              ELSE Line("body", CharsOf(a)[k], Content(a, k))]
          \o <<Tag("ok")>>
No == <<Tag("no")>>

\* The requests of readMail: attachments only with a storage.  A text that is
\* saved may be saved as it comes, and not decoded.
Asks ==
    [type : {"TEXT"}, base64 : BOOLEAN, lines : Bodies, declared : {0}, save : BOOLEAN,
     decoded : BOOLEAN, sdOk : BOOLEAN, last : BOOLEAN, report : {FALSE}]
    \cup
    [type : {"ATTACHMENT"}, base64 : BOOLEAN, lines : Bodies, declared : Sizes,
     save : {TRUE}, decoded : {TRUE}, sdOk : {TRUE}, last : {FALSE}, report : BOOLEAN]

Init ==
    /\ ask \in Asks
    /\ stage = "first" /\ conn = "up" /\ inbox = <<>>
    /\ owed \in {Yes(ask), No}
    /\ wait = [lf |-> 0, chars |-> 0, payload |-> 0, valid |-> FALSE, complete |-> FALSE]
    /\ text = <<>> /\ file = <<>> /\ out \in Garbage /\ total = 0 /\ counted = 0
    /\ record = [size |-> ask.declared, opened |-> FALSE,
                 partError |-> FALSE, mailError |-> FALSE]
    /\ header \in [wanted : {FALSE}, saved : BOOLEAN]

-----------------------------------------------------------------------------
\* The framing of the reply.

\* charCount after n more characters.
CharsAfter(n) ==
    IF wait.payload > 0 /\ ~wait.complete THEN wait.chars + n ELSE wait.chars

Tagged(line) == line.kind \in {"ok", "no"}

\* The state of the wait after a whole line.
WaitAfter(line) ==
    [lf |-> 1,
     chars |-> CharsAfter(line.chars),
     payload |-> IF wait.lf = 0 /\ line.kind = "literal" THEN line.chars ELSE wait.payload,
     valid |-> IF Tagged(line) THEN line.kind = "ok" ELSE wait.valid \/ wait.lf = 0,
     complete |-> \/ wait.complete
                  \/ /\ Tagged(line) /\ wait.payload > 0
                     /\ CharsAfter(line.chars) >= wait.payload]

-----------------------------------------------------------------------------
\* What is done with a line.

\* The file is opened for the first thing there is to write.  Without a
\* storage the part is marked, if it is the last of its mail.
Open ==
    /\ record' = [record EXCEPT !.opened = TRUE,
                    !.partError = @ \/ (~record.opened /\ ~ask.sdOk /\ ask.last)]
    /\ header' = [header EXCEPT !.wanted =
                    @ \/ (~record.opened /\ ask.sdOk /\ ask.type = "TEXT" /\ ~header.saved)]

\* Characters of a text that is not base64, up to number c: the last two of
\* the literal are never stored.
PlainEndsWithPayload(c) == Min({c, wait.payload - 1})
PlainEnd(c) == Min({c, wait.payload - 2})
StorePlain(c) ==
    LET new == Span(wait.chars + 1, PlainEnd(c)) IN
    /\ text' = text \o Span(wait.chars + 1, Min({PlainEnd(c), MaxChar - 1}))
    /\ IF ask.save /\ new # <<>>
         THEN /\ Open
              /\ file' = IF ask.sdOk THEN file \o new ELSE file
         ELSE UNCHANGED <<file, record, header>>
    /\ UNCHANGED <<out, total, counted>>

\* A line of a base64 text; one that decodes to nothing is skipped.  The file
\* gets it decoded or as it came, as the caller asked: the same positions, but
\* for the parenthesis, which decodes to nothing.
DecodesToNothing(line) == line.bytes = <<>>
InTextTwice(c) == c < 2 * MaxChar
InText(c) == c < MaxChar
Saved(line) == IF ~ask.decoded /\ line.kind = "last" THEN line.bytes \o NoByte(1)
                                                     ELSE line.bytes
StoreDecoded(line, c) ==
    IF DecodesToNothing(line) THEN UNCHANGED <<stored, record, header>>
    ELSE /\ text' = IF InText(c) THEN text \o line.bytes ELSE text
         /\ out' = Len(line.bytes)
         /\ IF ask.save
              THEN /\ Open
                   /\ file' = IF ask.sdOk THEN file \o Saved(line) ELSE file
              ELSE UNCHANGED <<file, record, header>>
         /\ UNCHANGED <<total, counted>>

\* A line of an attachment.  A line that decodes to nothing is counted with
\* the length of the one before.  Once the declared size is exceeded nothing
\* more is written (total is cut off above it): the code goes on without
\* clearing its line, so what it decodes from there on no longer matters.
FitsAnyway(n) == TRUE
Fits(n) == n <= record.size
CountsOfLines(n) == IF ask.report THEN counted + n + 1 ELSE counted
CountsOf(n) == IF ask.report THEN counted + n ELSE counted
StoreAttachment(line) ==
    LET n == IF DecodesToNothing(line) THEN out ELSE Len(line.bytes)
        now == total + n
        written == Fits(now) /\ ~DecodesToNothing(line)
    IN  /\ Open
        /\ out' = n
        /\ total' = Min({now, record.size + 1})
        /\ file' = IF written THEN file \o line.bytes ELSE file
        /\ counted' = IF written THEN CountsOf(n) ELSE counted
        /\ UNCHANGED text

Store(line) ==
    IF wait.lf = 0 \/ ~WaitAfter(line).valid THEN UNCHANGED <<stored, record, header>>
    ELSE CASE ask.type = "TEXT" /\ ~ask.base64 -> StorePlain(CharsAfter(line.chars))
           [] ask.type = "TEXT" /\ ask.base64 -> StoreDecoded(line, CharsAfter(line.chars))
           [] ask.type = "ATTACHMENT" /\ ask.base64 -> StoreAttachment(line)
           [] OTHER -> UNCHANGED <<stored, record, header>>

-----------------------------------------------------------------------------
\* The steps of the wait.

\* What is done after the loop: the size of an attachment becomes what the
\* report counted, and the header of the mail is saved, once.
SizeAfter == IF wait.valid /\ ask.type = "ATTACHMENT" THEN counted ELSE record.size
HeaderAfter(h) == [wanted |-> FALSE, saved |-> h.saved \/ h.wanted]

\* Nothing comes within tcpTimeout: no flag is set.
TimeOut ==
    /\ stage = "first" /\ inbox = <<>>
    /\ stage' = "done"
    /\ UNCHANGED <<ask, conn, owed, inbox, wait, stored, record, header>>

FirstByte ==
    /\ stage = "first" /\ inbox # <<>>
    /\ stage' = "lines"
    /\ UNCHANGED <<ask, conn, owed, inbox, wait, stored, record, header>>

ReadLine ==
    /\ stage = "lines" /\ inbox # <<>>
    /\ Store(Head(inbox))
    /\ wait' = WaitAfter(Head(inbox))
    /\ inbox' = Tail(inbox)
    /\ UNCHANGED <<ask, stage, conn, owed>>

\* A character of a text that comes more than tcpTimeout and 30 s after the
\* last line feed ends the wait where it is; the rest is left unread.
ErrorsUnlessSaved(opened) ==
    IF ask.save THEN record ELSE [record EXCEPT !.mailError = TRUE]
Errors(opened) ==
    IF opened /\ ask.sdOk
      THEN [record EXCEPT !.partError = @ \/ ask.last]
      ELSE [record EXCEPT !.mailError = TRUE]

SlowText ==
    /\ stage = "lines" /\ inbox # <<>>
    /\ ask.type = "TEXT" /\ wait.valid /\ wait.lf > 0
    /\ \E k \in 1 .. Head(inbox).chars :
          LET c == CharsAfter(k)
              new == Span(wait.chars + 1, PlainEnd(c))
              plain == ~ask.base64 /\ wait.payload > 0
              opened == record.opened \/ (plain /\ ask.save /\ new # <<>>)
              first == opened /\ ~record.opened
          IN  /\ wait' = [wait EXCEPT !.chars = c]
              /\ text' = IF plain
                           THEN text \o Span(wait.chars + 1, Min({PlainEnd(c), MaxChar - 1}))
                           ELSE text
              /\ file' = IF plain /\ ask.save /\ ask.sdOk THEN file \o new ELSE file
              /\ record' = [Errors(opened) EXCEPT !.opened = opened,
                              !.partError = @ \/ (first /\ ~ask.sdOk /\ ask.last)]
              /\ header' = HeaderAfter([header EXCEPT !.wanted =
                              @ \/ (first /\ ask.sdOk /\ ~header.saved)])
    /\ stage' = "done"
    /\ inbox' = <<>>
    /\ UNCHANGED <<ask, conn, owed, out, total, counted>>

EndWait ==
    /\ stage = "lines" /\ inbox = <<>> /\ wait.complete
    /\ stage' = "done"
    /\ record' = [record EXCEPT !.size = SizeAfter]
    /\ header' = HeaderAfter(header)
    /\ UNCHANGED <<ask, conn, owed, inbox, wait, stored>>

\* getStreamPtr() is null once nobody is there and nothing is left to read.
NullStream ==
    /\ stage = "lines" /\ inbox = <<>> /\ conn = "down" /\ ~wait.complete
    /\ stage' = "crashed"
    /\ UNCHANGED <<ask, conn, owed, inbox, wait, stored, record, header>>

-----------------------------------------------------------------------------
\* The server and the network.

Deliver ==
    /\ conn = "up" /\ owed # <<>>
    /\ inbox' = Append(inbox, Head(owed)) /\ owed' = Tail(owed)
    /\ UNCHANGED <<ask, stage, conn, wait, stored, record, header>>

Disconnect ==
    /\ conn = "up"
    /\ conn' = "down" /\ owed' = <<>>
    /\ UNCHANGED <<ask, stage, inbox, wait, stored, record, header>>

Client == TimeOut \/ FirstByte \/ ReadLine \/ SlowText \/ EndWait \/ NullStream
Next == Client \/ Deliver \/ Disconnect

Spec == Init /\ [][Next]_vars

-----------------------------------------------------------------------------
\* The type invariant: the text stays in its buffer, unless its part is empty
\* and it takes in the tagged line, which is not counted then; the file and
\* the report stay within what was decoded.
TypeOK ==
    /\ ask \in Asks /\ stage \in {"first", "lines", "done", "crashed"}
    /\ conn \in {"up", "down"}
    /\ wait \in [lf : {0, 1}, chars : Nat, payload : {0, Payload(ask)},
                valid : BOOLEAN, complete : BOOLEAN]
    /\ text \in Seq(Nat) /\ (text = <<>> \/ Payload(ask) = 0 \/ Len(text) < MaxChar)
    /\ file \in Seq(Nat) /\ counted \in 0 .. Len(file)
    /\ out \in Nat /\ total \in 0 .. ask.declared + 1
    /\ record \in [size : Nat, opened : BOOLEAN, partError : BOOLEAN, mailError : BOOLEAN]
    /\ header \in [wanted : BOOLEAN, saved : BOOLEAN]

Over == stage = "done" /\ wait.complete

\* What the wait keeps of the part: all of it, but for the last two characters
\* of a text that is not base64, which are its line end, if it has one.
Wanted == IF ask.base64 THEN Body(ask) ELSE Span(1, Payload(ask) - 2)

\* What memory has room for: a base64 line is taken with what follows on it.
Room == Payload(ask) + (IF ask.base64 THEN 3 ELSE 0) < MaxChar

\* A text in memory is the beginning of what is kept of its part, and all of it
\* when there is room, and nothing else; but a base64 text that leaves room for
\* the tagged line after it, or is empty, takes in what that line decodes to.
TagFits ==
    ask.base64 /\ (Payload(ask) = 0 \/ Payload(ask) + 3 + TagChars < MaxChar)
TextIsOwn ==
    ask.type = "TEXT" =>
       /\ IsPrefix(text, IF TagFits THEN Wanted \o NoByte(TagBytes) ELSE Wanted)
       /\ Over /\ Room => IsPrefix(Wanted, text)

\* A saved text is all that is kept of its part, however long; behind a base64
\* text come the parenthesis, if it is saved as it came, and the tagged line.
\* An attachment in its file is its own bytes only, unless it was declared so
\* large that the line before a blank last one, counted twice, and the tagged
\* line still fit; it is whole if it was declared large enough and no blank
\* line, which counts as the one before it, has another line behind it.
Twice(a) == LET n == Len(a.lines) IN
            IF n > 1 /\ a.lines[n] = 0 THEN a.lines[n - 1] ELSE 0
NoBlank(a) == \A k \in DOMAIN a.lines :
                 a.lines[k] = 0 => k > 1 /\ \A m \in k .. Len(a.lines) : a.lines[m] = 0
FileIsPart ==
    CASE ask.type = "TEXT" ->
           /\ IsPrefix(file, Wanted \o NoByte(IF ask.base64 THEN 1 + TagBytes ELSE 0))
           /\ Over /\ ask.save /\ ask.sdOk => IsPrefix(Wanted, file)
      [] ask.type = "ATTACHMENT" /\ ask.base64 ->
           /\ ask.declared < Sum(ask.lines) + Twice(ask) + TagBytes
                /\ NoBlank(ask) => IsPrefix(file, Wanted)
           /\ Over /\ NoBlank(ask) /\ ask.declared >= Sum(ask.lines) => IsPrefix(Wanted, file)
      [] OTHER -> file = <<>>

\* After a download with a progress report the size that getAttachmentFileSize
\* gives is that of the file.
SizeIsFile ==
    Over /\ ask.type = "ATTACHMENT" /\ ask.report => record.size = Len(file)

\* A text that was cut because it came too slowly is told: in the error of the
\* mail, or, if it goes to a file, in that of the part, if that is the last of
\* the mail.  A text that came whole is not called an error, but for a storage
\* that is not there.
Cut == stage = "done" /\ wait.valid /\ ~wait.complete
CutIsTold ==
    /\ Cut => record.mailError \/ (record.opened /\ ask.sdOk /\ (ask.last => record.partError))
    /\ Over => ~record.mailError /\ (record.partError => ~ask.sdOk)

-----------------------------------------------------------------------------
\* What the header says of getTextMessage: the plain text message, so nothing
\* that is not of the message.
TextOnly == stage = "done" => \A i \in DOMAIN text : text[i] # 0
=============================================================================
