---------------------------- MODULE ImapSession ----------------------------
(***************************************************************************)
(* One call of ESP32_MailClient::readMail against a server that may be     *)
(* slow, refuse a command or go away.                                      *)
(*                                                                         *)
(* Without a UID to fetch, readMail lists the folders, opens one, searches *)
(* and fetches the headers of what it found.  With one it fetches the      *)
(* header of a single mail, asks for its parts one by one until the server *)
(* refuses a number, and then fetches the text of the parts and the        *)
(* attachments.  A wait that times out does not always end the session,    *)
(* and every reply carries the same tag: `late` records that a wait was    *)
(* given up whose reply may still come.                                    *)
(*                                                                         *)
(* The numbers found by a search, their window and their order are the     *)
(* subject of ImapSearch; here a search finds the messages 1 .. ask.found, *)
(* or takes the line of another reply for numbers (message 0).             *)
(***************************************************************************)
EXTENDS ImapWait, FiniteSets, SequencesExt

CONSTANT Asks   \* what a caller may ask for, and what the server holds

\* A part is a leaf, or a multipart with the leaves it holds.  type is what
\* waitIMAPResponse takes from the Content-Type line, "" when that line has no
\* parameter; disp the Content-Disposition, where big is an attachment above
\* the size limit.  A multipart has none (its first part would take it over).
LeafTypes == {"", "text", "html", "file"}
Dispositions == {"", "inline", "att", "big"}
Leaves == [type : LeafTypes, disp : Dispositions]
Parts == {p \in [type : LeafTypes \cup {"multi"}, disp : Dispositions, subs : Seq(Leaves)] :
            /\ (p.type = "multi") = (p.subs # <<>>)
            /\ p.type = "multi" => p.disp = ""}
Options == [download : BOOLEAN, save : BOOLEAN, text : BOOLEAN, html : BOOLEAN]

\* uid: setFetchUID was called.  criteria: setSearchCriteria was called.
\* opts: _downloadAttachment, _saveTextMsg, _textFormat, _htmlFormat.
\* mail: the parts of the mail with that UID.  found: the messages of the
\* mailbox, which are also those a search matches.
ASSUME AsksAssumption ==
    \A a \in Asks : /\ a.uid \in BOOLEAN /\ a.criteria \in BOOLEAN
                    /\ a.opts \in Options
                    /\ a.found \in Nat
                    /\ a.mail \in Seq(Parts)

VARIABLES
    ask,        \* what this call was asked for
    stage,      \* what readMail is doing
    cmd,        \* the command being sent or waited for
    wait,       \* the state of waitIMAPResponse
    tries,      \* connect() calls that failed
    msgs,       \* _msgNum
    total,      \* _totalMessage
    headers,    \* the commands whose reply gave each message its header
    subID,      \* _partID: next part of a multipart
    slots,      \* _messageDataInfo: part, content type and disposition
    attCount,   \* _attachmentCount
    dataIndex,  \* messageDataIndex
    j,          \* the slot whose text or attachment is fetched
    text,       \* the commands whose reply went into the text of each slot
    file,       \* ... and into its file
    sdOk,       \* _sdOk
    status,     \* _imapStatus
    result,     \* what readMail returned
    conn,       \* "up" while both ends hold the connection
    toSrv,      \* commands the server has not answered
    owed,       \* lines of a reply still to come
    inbox,      \* lines the client can read
    late,       \* lines of a reply may outlive the wait for it
    refused     \* the server refused something it holds

scan == <<subID, slots, attCount, dataIndex>>
body == <<j, text, file, sdOk>>
data == <<msgs, total, headers, scan, body>>
link == <<conn, toSrv, owed, inbox>>
outcome == <<status, result>>
history == <<late, refused>>
vars == <<ask, stage, cmd, wait, tries, data, link, outcome, history>>

-----------------------------------------------------------------------------
Cmd(t) == [type |-> t, part |-> <<>>]
Fetch(t, part) == [type |-> t, part |-> part]

\* LOGOUT is waited for with type 0, which is LOGIN.
WaitType(c) == IF c.type = "LOGOUT" THEN "LOGIN" ELSE c.type

Exists(part) ==
    /\ part[1] \in DOMAIN ask.mail
    /\ Len(part) = 2 => part[2] \in DOMAIN ask.mail[part[1]].subs
PartAt(part) == IF Len(part) = 1 THEN ask.mail[part[1]]
                                 ELSE ask.mail[part[1]].subs[part[2]]

Attachment == {"att", "big"}
NoSlot == [part |-> <<>>, type |-> "", disp |-> ""]

\* ESP32MailHTTPClient::connected(): data left to read counts.
Connected == conn = "up" \/ inbox # <<>>

Init ==
    /\ ask \in Asks
    /\ stage = "connect" /\ cmd = Cmd("LOGIN") /\ wait = NewWait /\ tries = 0
    /\ msgs = <<>> /\ total = 0 /\ headers = <<>>
    /\ subID = 1 /\ slots = <<>> /\ attCount = 0 /\ dataIndex = 0
    /\ j = 0 /\ text = <<>> /\ file = <<>> /\ sdOk \in BOOLEAN
    /\ status = "none" /\ result = "none"
    /\ conn = "down" /\ toSrv = <<>> /\ owed = <<>> /\ inbox = <<>>
    /\ late = FALSE /\ refused = FALSE

-----------------------------------------------------------------------------
\* Connecting: up to ten tries, and one more after them.

MaxTries == 10

ConnectFails ==
    /\ stage = "connect"
    /\ tries' = tries + 1
    /\ status' = IF tries < MaxTries THEN "connect" ELSE status
    /\ IF tries < MaxTries THEN UNCHANGED <<stage, result>>
                           ELSE stage' = "done" /\ result' = "false"
    /\ UNCHANGED <<ask, cmd, wait, data, link, history>>

\* The greeting is read and thrown away; it is not modelled.
ConnectSucceeds ==
    /\ stage = "connect"
    /\ conn' = "up" /\ stage' = "send" /\ tries' = 0
    /\ UNCHANGED <<ask, cmd, wait, data, toSrv, owed, inbox, outcome, history>>

\* LOGOUT throws away what is left to read before it is sent.
Send ==
    /\ stage = "send" /\ Connected
    /\ toSrv' = IF conn = "up" THEN Append(toSrv, cmd) ELSE toSrv
    /\ inbox' = IF cmd.type = "LOGOUT" THEN <<>> ELSE inbox
    /\ stage' = "first" /\ wait' = NewWait
    /\ UNCHANGED <<ask, cmd, tries, data, conn, owed, outcome, history>>

\* getStreamPtr() is a null pointer once the connection is gone: readMail
\* writes, and waitIMAPResponse reads, through it unchecked.
NullStream ==
    /\ ~Connected
    /\ stage = "send" \/ (stage = "lines" /\ ~wait.complete)
    /\ stage' = "crashed"
    /\ UNCHANGED <<ask, cmd, wait, tries, data, link, outcome, history>>

-----------------------------------------------------------------------------
\* waitIMAPResponse.

FirstByte ==
    /\ stage = "first" /\ inbox # <<>>
    /\ stage' = "lines"
    /\ UNCHANGED <<ask, cmd, wait, tries, data, link, outcome, history>>

\* Nothing within tcpTimeout, or nobody there any more.
TimeOut ==
    /\ stage = "first" /\ inbox = <<>>
    /\ stage' = "decide"
    /\ late' = (late \/ conn = "up")
    /\ UNCHANGED <<ask, cmd, wait, tries, data, link, outcome, refused>>

\* The mail's header lines name the sender; those of a part its type.
StoreHeader(line) ==
    headers' = IF cmd.type = "HEADER" /\ line.kind = "body" /\ line.of.type = "HEADER"
                 THEN [headers EXCEPT ![cmd.part[1]] = @ \cup {line.of}]
                 ELSE headers

\* What the header of a part leaves out stays in its slot: the type, when the
\* Content-Type line has no parameter, and the disposition.
Over(old, new) == IF new = "" THEN old ELSE new
NewSlot(old, line) ==
    IF line.of.type # "MIME" THEN [old EXCEPT !.part = cmd.part]
    ELSE LET p == PartAt(line.of.part)
         IN [part |-> cmd.part, type |-> Over(old.type, p.type), disp |-> Over(old.disp, p.disp)]

StoreSlot(line) ==
    IF cmd.type = "MIME" /\ Stores("MIME", wait, line)
      THEN LET s == IF Len(slots) = dataIndex THEN Append(slots, NoSlot) ELSE slots
           IN /\ slots' = [s EXCEPT ![dataIndex + 1] = NewSlot(@, line)]
              /\ attCount' = IF /\ line.of.type = "MIME"
                                /\ PartAt(line.of.part).disp \in Attachment
                               THEN attCount + 1 ELSE attCount
      ELSE UNCHANGED <<slots, attCount>>

StoreBody(line) ==
    IF cmd.type \in {"TEXT", "ATTACHMENT"} /\ Stores(cmd.type, wait, line)
      THEN /\ text' = IF cmd.type = "TEXT"
                        THEN [text EXCEPT ![j + 1] = @ \cup {line.of}] ELSE text
           /\ file' = IF sdOk /\ (cmd.type = "ATTACHMENT" \/ ask.opts.save)
                        THEN [file EXCEPT ![j + 1] = @ \cup {line.of}] ELSE file
      ELSE UNCHANGED <<text, file>>

\* The first line of a search gives the numbers, whatever it is: words that
\* are no numbers count as message 0.  A mailbox opened tells its size.
StoreNumbers(line) ==
    /\ msgs' = IF cmd.type = "SEARCH" /\ wait.lf = 0
                 THEN IF line.of.type = "SEARCH" /\ line.kind = "data"
                        THEN [n \in 1 .. ask.found |-> n] ELSE <<0>>
                 ELSE msgs
    /\ total' = IF cmd.type = "EXAMINE" /\ line.of.type = "EXAMINE" /\ line.kind = "data"
                  THEN ask.found ELSE total

\* One line, to the line feed.  BAD in the reply to SEARCH breaks the loop.
ReadLine ==
    /\ stage = "lines" /\ inbox # <<>>
    /\ LET line == Head(inbox) IN
         /\ wait' = Take(WaitType(cmd), wait, line)
         /\ StoreHeader(line) /\ StoreSlot(line)
         /\ StoreBody(line) /\ StoreNumbers(line)
    /\ inbox' = Tail(inbox)
    /\ stage' = IF wait'.broken THEN "decide" ELSE "lines"
    /\ UNCHANGED <<ask, cmd, tries, subID, dataIndex, j, sdOk, conn, toSrv,
                   owed, outcome, history>>

\* Nothing more to read and the response complete.
EndWait ==
    /\ stage = "lines" /\ inbox = <<>> /\ wait.complete
    /\ stage' = "decide"
    /\ UNCHANGED <<ask, cmd, wait, tries, data, link, outcome, history>>

-----------------------------------------------------------------------------
\* What readMail does with the answer.

Go(c) == stage' = "send" /\ cmd' = c
GiveUp(s) == stage' = "out" /\ status' = s /\ UNCHANGED cmd
Answered(t) == stage = "decide" /\ cmd.type = t

LoginAnswered ==
    /\ Answered("LOGIN")
    /\ IF wait.valid
         THEN Go(Cmd(IF ask.uid THEN "EXAMINE" ELSE "LIST")) /\ UNCHANGED status
         ELSE GiveUp("login")
    /\ UNCHANGED <<ask, wait, tries, data, link, result, history>>

\* A folder list that fails is reported and survived.
ListAnswered ==
    /\ Answered("LIST")
    /\ Go(Cmd("EXAMINE"))
    /\ status' = IF wait.valid THEN status ELSE "bad"
    /\ UNCHANGED <<ask, wait, tries, data, link, result, history>>

\* The first fetch, or nothing to fetch.
StartFetch(m) ==
    IF m = <<>> THEN Go(Cmd("LOGOUT")) /\ UNCHANGED headers
    ELSE Go(Fetch("HEADER", <<1>>)) /\ headers' = <<{}>>

ExamineAnswered ==
    /\ Answered("EXAMINE")
    /\ CASE ~wait.valid ->
               GiveUp("bad") /\ UNCHANGED <<msgs, headers>>
         [] wait.valid /\ ~ask.uid /\ ask.criteria ->
               Go(Cmd("SEARCH")) /\ UNCHANGED <<status, msgs, headers>>
         [] OTHER ->
               /\ msgs' = <<IF ask.uid THEN 1 ELSE total>>
               /\ StartFetch(msgs') /\ UNCHANGED status
    /\ UNCHANGED <<ask, wait, tries, total, scan, body, link, result, history>>

SearchAnswered ==
    /\ Answered("SEARCH")
    /\ IF wait.valid THEN StartFetch(msgs) /\ UNCHANGED status
                     ELSE GiveUp("bad") /\ UNCHANGED headers
    /\ UNCHANGED <<ask, wait, tries, msgs, total, scan, body, link, result, history>>

\* Without a UID the next message; with one the scan of the parts.
HeaderAnswered ==
    /\ Answered("HEADER")
    /\ LET i == cmd.part[1] IN
       CASE ~wait.valid ->
              /\ GiveUp(IF ask.uid THEN "bad" ELSE "response")
              /\ UNCHANGED headers
         [] wait.valid /\ ask.uid ->
              Go(Fetch("MIME", <<1>>)) /\ UNCHANGED <<headers, status>>
         [] wait.valid /\ ~ask.uid /\ i < Len(msgs) ->
              /\ Go(Fetch("HEADER", <<i + 1>>))
              /\ headers' = Append(headers, {}) /\ UNCHANGED status
         [] OTHER -> Go(Cmd("LOGOUT")) /\ UNCHANGED <<headers, status>>
    /\ UNCHANGED <<ask, wait, tries, msgs, total, scan, body, link, result, history>>

\* A part was described: its slot is filled, a multipart is entered, any
\* other part gives way to the next; without a content type the same part is
\* asked for again.  The first refusal ends the scan.
PartAnswered ==
    /\ Answered("MIME") /\ Len(cmd.part) = 1
    /\ LET p == cmd.part[1]
           s == IF Len(slots) = dataIndex THEN Append(slots, NoSlot) ELSE slots
           type == s[dataIndex + 1].type
       IN IF ~wait.valid
            THEN stage' = "mount" /\ UNCHANGED <<cmd, slots, dataIndex>>
            ELSE /\ slots' = s
                 /\ dataIndex' = IF type \in {"", "multi"} THEN dataIndex
                                                            ELSE dataIndex + 1
                 /\ Go(CASE type = ""      -> cmd
                         [] type = "multi" -> Fetch("MIME", <<p, subID>>)
                         [] OTHER          -> Fetch("MIME", <<p + 1>>))
    /\ UNCHANGED <<ask, wait, tries, msgs, total, headers, subID, attCount, body,
                   link, outcome, history>>

\* The parts of a multipart, until one is refused.  subID keeps its value for
\* the next multipart.
NextSubSameSlot(p) == /\ subID' = subID + 1 /\ UNCHANGED dataIndex
                      /\ Go(Fetch("MIME", <<p, subID + 1>>))
NextSub(p) == /\ subID' = subID + 1 /\ dataIndex' = dataIndex + 1
              /\ Go(Fetch("MIME", <<p, subID + 1>>))

LeaveMultiCounted(p) == /\ dataIndex' = dataIndex + 1 /\ UNCHANGED subID
                        /\ Go(Fetch("MIME", <<p + 1>>))
LeaveMultiNever(p) == UNCHANGED <<subID, dataIndex>> /\ Go(cmd)
LeaveMulti(p) == UNCHANGED <<subID, dataIndex>> /\ Go(Fetch("MIME", <<p + 1>>))

SubAnswered ==
    /\ Answered("MIME") /\ Len(cmd.part) = 2
    /\ IF wait.valid THEN NextSub(cmd.part[1]) ELSE LeaveMulti(cmd.part[1])
    /\ UNCHANGED <<ask, wait, tries, msgs, total, headers, slots, attCount, body,
                   link, outcome, history>>

\* The storage is mounted when it is wanted and not mounted yet.
StartBodies ==
    /\ stage = "mount"
    /\ sdOk' \in IF ~sdOk /\ (ask.opts.save \/ ask.opts.download)
                   THEN BOOLEAN ELSE {sdOk}
    /\ j' = 0 /\ stage' = "pick"
    /\ text' = [k \in DOMAIN slots |-> {}] /\ file' = [k \in DOMAIN slots |-> {}]
    /\ UNCHANGED <<ask, cmd, wait, tries, msgs, total, headers, scan, link,
                   outcome, history>>

\* What readMail fetches of a part: a text has no disposition.
TextWantedSwapped(s) == /\ s.disp = ""
                        /\ ask.opts.text \/ s.type = "text"
                        /\ ask.opts.html \/ s.type = "html"
TextWanted(s) == /\ s.disp = ""
                 /\ ask.opts.text \/ s.type = "html"
                 /\ ask.opts.html \/ s.type = "text"
FileWanted(s) == s.disp = "att" /\ sdOk /\ ask.opts.download

\* The next part to fetch, or the end of the mail and of the storage.
PickPart ==
    /\ stage = "pick"
    /\ LET wanted == {k \in j .. Len(slots) - 1 :
                        TextWanted(slots[k + 1]) \/ FileWanted(slots[k + 1])}
       IN IF wanted = {}
            THEN Go(Cmd("LOGOUT")) /\ sdOk' = FALSE /\ UNCHANGED j
            ELSE /\ j' = CHOOSE k \in wanted : \A l \in wanted : k <= l
                 /\ LET s == slots[j' + 1] IN
                      Go(Fetch(IF FileWanted(s) THEN "ATTACHMENT" ELSE "TEXT", s.part))
                 /\ UNCHANGED sdOk
    /\ UNCHANGED <<ask, wait, tries, msgs, total, headers, scan, text, file, link,
                   outcome, history>>

\* A part that cannot be fetched is reported and survived.
BodyAnswered ==
    /\ Answered("TEXT") \/ Answered("ATTACHMENT")
    /\ stage' = "pick" /\ j' = j + 1
    /\ status' = IF wait.valid THEN status ELSE "response"
    /\ UNCHANGED <<ask, cmd, wait, tries, msgs, total, headers, scan, text, file,
                   sdOk, link, result, history>>

\* The connection is emptied and stopped.
Stop == conn' = "down" /\ toSrv' = <<>> /\ owed' = <<>> /\ inbox' = <<>>

LogoutAnswered ==
    /\ Answered("LOGOUT")
    /\ IF wait.valid
         THEN stage' = "done" /\ result' = "true" /\ Stop /\ UNCHANGED <<cmd, status>>
         ELSE GiveUp("bad") /\ UNCHANGED <<result, link>>
    /\ UNCHANGED <<ask, wait, tries, data, history>>

Out ==
    /\ stage = "out"
    /\ stage' = "done" /\ result' = "false" /\ Stop
    /\ UNCHANGED <<ask, cmd, wait, tries, data, status, history>>

-----------------------------------------------------------------------------
\* The server: it answers the commands in their order, a line at a time.

\* What the server holds it sends, or refuses to.
Holds(c) == CASE c.type = "HEADER" -> msgs[c.part[1]] # 0
              [] c.type = "MIME" -> Exists(c.part)
              [] c.type \in {"TEXT", "ATTACHMENT"} -> Exists(c.part)
              [] OTHER -> TRUE

Given(c) == CASE c.type = "LOGIN" -> {<<"ok">>, <<"okcap">>}
              [] c.type \in {"LIST", "EXAMINE", "LOGOUT"} -> {<<"data", "ok">>}
              [] c.type = "SEARCH" -> {<<"data", "ok">>, <<"data", "data", "ok">>}
              [] c.type \in {"HEADER", "MIME"} -> {<<"literal", "body", "ok">>}
              [] OTHER -> {<<"literal", "body", "body", "ok">>}

Refusal(c) == CASE c.type = "LOGOUT" -> {}
                [] c.type = "SEARCH" -> {<<"no">>, <<"bad">>}
                [] c.type = "HEADER" /\ ~Holds(c) -> {<<"ok">>, <<"bad">>}
                [] c.type = "MIME" /\ ~Holds(c) -> {<<"ok">>, <<"no">>, <<"nil", "ok">>}
                [] OTHER -> {<<"no">>}

Serve ==
    /\ conn = "up" /\ owed = <<>> /\ toSrv # <<>>
    /\ LET c == Head(toSrv) IN
       \E r \in (IF Holds(c) THEN Given(c) ELSE {}) \cup Refusal(c) :
          /\ owed' = Lines(r, c)
          /\ refused' = (refused \/ (Holds(c) /\ r \in Refusal(c)))
          /\ late' = (late \/ (c.type = "SEARCH" /\ Len(r) > 2))
    /\ toSrv' = Tail(toSrv)
    /\ UNCHANGED <<ask, stage, cmd, wait, tries, data, conn, inbox, outcome>>

Deliver ==
    /\ conn = "up" /\ owed # <<>>
    /\ inbox' = Append(inbox, Head(owed)) /\ owed' = Tail(owed)
    /\ UNCHANGED <<ask, stage, cmd, wait, tries, data, conn, toSrv, outcome, history>>

Disconnect ==
    /\ conn = "up"
    /\ conn' = "down" /\ toSrv' = <<>> /\ owed' = <<>>
    /\ UNCHANGED <<ask, stage, cmd, wait, tries, data, inbox, outcome, history>>

-----------------------------------------------------------------------------
Client == \/ ConnectFails \/ ConnectSucceeds \/ Send \/ NullStream
          \/ FirstByte \/ TimeOut \/ ReadLine \/ EndWait
          \/ LoginAnswered \/ ListAnswered \/ ExamineAnswered \/ SearchAnswered
          \/ HeaderAnswered \/ PartAnswered \/ SubAnswered
          \/ StartBodies \/ PickPart \/ BodyAnswered \/ LogoutAnswered \/ Out
Server == Serve \/ Deliver \/ Disconnect

Next == Client \/ Server

\* The client is a loop on a processor that always returns to it; nothing is
\* assumed of the server.
Safe == Init /\ [][Next]_vars
Spec == Safe /\ WF_vars(Client)

-----------------------------------------------------------------------------
\* Properties.

Stages == {"connect", "send", "first", "lines", "decide", "mount", "pick",
           "out", "done", "crashed"}
Path(part) == part \in Seq(Nat) /\ Len(part) <= 2
IsSlot(s) == Path(s.part) /\ s.type \in LeafTypes \cup {"multi"} /\ s.disp \in Dispositions

\* The type invariant: waitIMAPResponse and readMail index the vectors of a
\* mail by messageDataIndex and j; dataIndex is never past the end of slots.
TypeOK ==
    /\ ask \in Asks /\ stage \in Stages /\ tries \in 0 .. MaxTries + 1
    /\ cmd.type \in Types \cup {"LOGOUT"} /\ Path(cmd.part)
    /\ wait \in Wait
    /\ msgs \in Seq(Nat) /\ total \in Nat /\ Len(headers) <= Len(msgs)
    /\ subID \in Nat /\ (\A k \in DOMAIN slots : IsSlot(slots[k])) /\ attCount \in Nat
    /\ dataIndex \in 0 .. Len(slots)
    /\ j \in 0 .. Len(slots)
    /\ stage \in {"first", "lines"} /\ cmd.type \in {"TEXT", "ATTACHMENT"} => j < Len(slots)
    /\ sdOk \in BOOLEAN /\ late \in BOOLEAN /\ refused \in BOOLEAN
    /\ status \in {"none", "connect", "login", "bad", "response"}
    /\ result \in {"none", "true", "false"} /\ conn \in {"up", "down"}

\* A header, a text or a file is made of the reply to its own command, as
\* long as no reply outlived its wait: all commands carry the tag "$", so
\* nothing but the completion rules of waitIMAPResponse keeps them apart.
OwnReplies ==
    ~late =>
      /\ \A i \in DOMAIN headers : headers[i] \subseteq {Fetch("HEADER", <<i>>)}
      /\ \A k \in DOMAIN text : text[k] \subseteq {Fetch("TEXT", slots[k].part)}
      /\ \A k \in DOMAIN file : file[k] \subseteq {Fetch("TEXT", slots[k].part),
                                                Fetch("ATTACHMENT", slots[k].part)}

\* The leaves of a mail in their order, and how many are attachments.
LeavesOf(p) == IF ask.mail[p].type = "multi"
                 THEN [s \in DOMAIN ask.mail[p].subs |-> <<p, s>>]
                 ELSE <<<<p>>>>
AllLeaves == FlattenSeq([p \in DOMAIN ask.mail |-> LeavesOf(p)])

Multis == {p \in DOMAIN ask.mail : ask.mail[p].type = "multi"}
Undisturbed == result = "true" /\ ~late /\ ~refused

\* After a session in which nothing was late or refused, the slots hold every
\* leaf of the mail, in order, with its disposition and the type its header
\* gives (one that gives none keeps what is in the slot), and the attachments
\* are counted: the scan of readMail skips and repeats nothing.
EveryLeaf ==
    Undisturbed /\ ask.uid /\ Cardinality(Multis) <= 1 =>
      /\ [k \in DOMAIN slots |-> slots[k].part] = AllLeaves
      /\ \A k \in DOMAIN slots :
            LET p == PartAt(slots[k].part)
            IN slots[k].disp = p.disp /\ (p.type # "" => slots[k].type = p.type)
      /\ attCount = Cardinality({k \in DOMAIN slots : slots[k].disp \in Attachment})

\* The attachments counted are those of the mail, however many multiparts it
\* has.
AllAttachmentsCounted ==
    Undisturbed /\ ask.uid =>
      LET all == AllLeaves IN
      attCount = Cardinality({k \in DOMAIN all : PartAt(all[k]).disp \in Attachment})

\* The format of a text was asked for.
Asked(s) == \/ s.type = "text" /\ ask.opts.text
            \/ s.type = "html" /\ ask.opts.html

\* true means that every message found has its header, unless something was
\* late or refused; and, whatever was late, refused or lost, that every text
\* without a disposition in a format that was asked for is there, or the
\* status says that one is not.
NothingMissing ==
    result = "true" =>
      /\ ~late /\ ~refused =>
            /\ Len(headers) = Len(msgs)
            /\ \A i \in DOMAIN msgs : msgs[i] # 0 => headers[i] # {}
      /\ \A k \in DOMAIN text :
            slots[k].disp = "" /\ Asked(slots[k]) => text[k] # {} \/ status = "response"

\* readMail always comes to an end, crashes on a dead connection, or spins in
\* waitIMAPResponse for good; it never goes round in requests, unless a part
\* gives a content type without a parameter.
Ended == stage \in {"done", "crashed"}
Polling == stage = "lines" /\ inbox = <<>> /\ ~wait.complete
HasBare == \E p \in DOMAIN ask.mail : ask.mail[p].type = ""
EndsOrPolls == HasBare \/ <>Ended \/ <>[]Polling

=============================================================================
