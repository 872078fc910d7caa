---------------------------- MODULE SmtpSession ----------------------------
(***************************************************************************)
(* One call of ESP32_MailClient::sendMail against a server and a network   *)
(* that may delay, split and lose replies.                                 *)
(*                                                                         *)
(* The client sends one command at a time and waits for its reply with     *)
(* waitSMTPResponse.  That function has no notion of which command a line  *)
(* answers: it waits for the first byte or for tcpTimeout, then reads all  *)
(* that is there and takes the number that starts the first line.  A reply *)
(* that arrives late, or in several pieces, is read by the wait of a later *)
(* command.  The model keeps, for every piece of a reply, the command it   *)
(* answers, so that the properties can ask whether the client ever acted   *)
(* on the reply to something else.                                         *)
(*                                                                         *)
(* Time is abstract: a wait with nothing to read may give up at any        *)
(* moment, which covers every order of a timeout and a late reply.  One    *)
(* poll of the connection is one step.                                     *)
(***************************************************************************)
EXTENDS Integers, Sequences

CONSTANTS
    ListLen,      \* number of recipients in <<to, cc, bcc>>
    Attachments,  \* the kind of each attachment, "data" or "file"
    IndexMod,     \* the loop counters are uint8_t: 2^8 in the code
    MultiLine,    \* the stages whose reply may take several lines
    MaxSegments   \* bound: pieces of replies under way at once

Lists == 1..3
EarlyStages == {"GREET", "EHLO", "HELO"}
LateStages == {"AUTH", "USER", "PASS", "MAIL", "RCPT", "DATA", "BODY"}
Stages == EarlyStages \cup LateStages

\* The lists may have any length, also one the uint8_t counter cannot reach.
ASSUME ListsAssumption == ListLen \in [Lists -> Nat]
ASSUME AttachmentsAssumption == Attachments \in Seq({"data", "file"})
ASSUME IndexAssumption == IndexMod \in Nat \ {0}
\* Servers answer the greeting and EHLO over several lines, the challenges
\* of AUTH and the transaction commands with one.
ASSUME ReplyAssumption == MultiLine \subseteq EarlyStages
ASSUME BoundAssumption == MaxSegments \in Nat \ {0}

VARIABLES
    pc,        \* where sendMail is
    cmd,       \* the command being sent or waited for
    part,      \* next part of the body: 0 the text, then the attachments
    sdOk,      \* _sdOk: the client believes the storage is mounted
    attached,  \* the attachments written into the body
    status,    \* _smtpStatus
    result,    \* what sendMail returned
    conn,      \* "up" while both ends hold the connection
    toSrv,     \* commands on their way to the server
    net,       \* pieces of replies on their way to the client
    inbox,     \* pieces of replies the client can read
    okd,       \* commands the server accepted
    refused,   \* commands the server refused
    acted,     \* the last accepted wait: its command and the reply's command
    wantTLS,   \* SMTPData::_starttls
    port       \* SMTPData::_port

client == <<pc, cmd, part, sdOk, attached, status, result, acted>>
link == <<conn, toSrv, net, inbox>>
server == <<okd, refused>>
setup == <<wantTLS, port>>
vars == <<client, link, server, setup>>

-----------------------------------------------------------------------------
\* A command of the session; only RCPT has a place in the recipient lists.
Cmd(s) == [stage |-> s, lst |-> 0, i |-> 0]
Rcpt(l, n) == [stage |-> "RCPT", lst |-> l, i |-> n]
Commands == [stage : Stages, lst : {0} \cup Lists, i : Nat]
NoCmd == [stage |-> "none", lst |-> 0, i |-> 0]

NoCode == -1000    \* waitSMTPResponse's resCode when no first line was parsed
Err == 550         \* any refusal
Silence == [code |-> NoCode, cmd |-> NoCmd]    \* a wait that read nothing

\* The reply sendMail waits for after each command.
OkCode(s) ==
    CASE s = "GREET" -> 220
      [] s \in {"AUTH", "USER"} -> 334
      [] s = "PASS" -> 235
      [] s = "DATA" -> 354
      [] OTHER -> 250

Pieces == [code : {220, 235, 250, 334, 354, Err, NoCode}, cmd : Commands]

\* A stage that is not the last takes only its own code.  The last one also
\* takes no reply at all: if (res != 250 && res != -1000).
AcceptsAnyPositive(s, code) == code \notin {Err, NoCode}
AcceptsNoSilence(s, code) == code = OkCode(s)
AcceptsAnyRcpt(s, code) == s = "RCPT" \/ code = OkCode(s) \/ (s = "BODY" /\ code = NoCode)
Accepts(s, code) ==
    \/ code = OkCode(s)
    \/ s = "BODY" /\ code = NoCode

\* The reason sendMail reports for a stage that failed.
StatusOfStageName(s) == s
StatusOf(s) ==
    CASE s = "GREET" -> "response"
      [] s \in {"EHLO", "HELO"} -> "identification"
      [] s = "AUTH" -> "authen"
      [] s = "USER" -> "user"
      [] s = "PASS" -> "password"
      [] s = "MAIL" -> "sender"
      [] s = "RCPT" -> "recipient"
      [] s \in {"DATA", "BODY"} -> "body"

Reasons == {"connect", "response", "identification", "authen", "user",
            "password", "sender", "recipient", "body"}

-----------------------------------------------------------------------------
\* The recipients still to be named from position n of list l on.  The three
\* loops of the code run one after the other.
Remaining(l, n) ==
    {m \in Lists : \/ m = l /\ n < ListLen[m]
                   \/ m > l /\ 0 < ListLen[m]}

RcptFrom(l, n) ==
    IF Remaining(l, n) = {} THEN Cmd("DATA")
    ELSE LET m == CHOOSE x \in Remaining(l, n) :
                      \A y \in Remaining(l, n) : x <= y
         IN Rcpt(m, IF m = l THEN n ELSE 0)

\* The command that follows an accepted one.
After(c) ==
    CASE c.stage = "GREET" -> Cmd("EHLO")
      [] c.stage \in {"EHLO", "HELO"} -> Cmd("AUTH")
      [] c.stage = "AUTH" -> Cmd("USER")
      [] c.stage = "USER" -> Cmd("PASS")
      [] c.stage = "PASS" -> Cmd("MAIL")
      [] c.stage = "MAIL" -> RcptFrom(1, 0)
      [] c.stage = "RCPT" -> RcptFrom(c.lst, (c.i + 1) % IndexMod)
      [] c.stage \in {"DATA", "BODY"} -> Cmd("BODY")

\* if (_port == 587) starttls = true
UsesSTARTTLS == wantTLS \/ port = 587

\* The STARTTLS handshake, which reads the greeting, is run on these ports
\* alone; sendMail skips its own wait for the greeting on any port.
HandshakeReadsGreeting == UsesSTARTTLS /\ port \in {25, 587}

\* ESP32MailHTTPClient::connected(): data left to read counts.
Connected == conn = "up" \/ inbox # <<>>

-----------------------------------------------------------------------------
Init ==
    /\ pc = "idle" /\ cmd = Cmd("GREET") /\ part = 0
    /\ sdOk \in BOOLEAN
    /\ attached = {} /\ status = "none" /\ result = "none"
    /\ conn = "down" /\ toSrv = <<>> /\ net = <<>> /\ inbox = <<>>
    /\ okd = {} /\ refused = {} /\ acted = [cmd |-> NoCmd, tag |-> NoCmd]
    /\ wantTLS \in BOOLEAN /\ port \in {25, 465, 587}

\* connect() fails: no connection was made, there is nothing to stop.
ConnectFails ==
    /\ pc = "idle"
    /\ pc' = "done" /\ result' = "false" /\ status' = "connect"
    /\ UNCHANGED <<cmd, part, sdOk, attached, acted, link, server, setup>>

\* The server speaks first; its greeting is the reply to no command.
ConnectSucceeds ==
    /\ pc = "idle"
    /\ conn' = "up"
    /\ toSrv' = IF HandshakeReadsGreeting THEN <<>> ELSE <<Cmd("GREET")>>
    /\ IF UsesSTARTTLS THEN pc' = "send" /\ cmd' = Cmd("EHLO")
                       ELSE pc' = "wait" /\ cmd' = Cmd("GREET")
    /\ UNCHANGED <<part, sdOk, attached, status, result, acted, net, inbox,
                   server, setup>>

\* What is written on a connection the peer has left is lost.
Transmit(c) == toSrv' = IF conn = "up" THEN Append(toSrv, c) ELSE toSrv

SendCommand ==
    /\ pc = "send" /\ Connected
    /\ Transmit(cmd)
    /\ pc' = "wait"
    /\ UNCHANGED <<cmd, part, sdOk, attached, status, result, acted, conn, net,
                   inbox, server, setup>>

\* The headers and the text of the message.
SendText ==
    /\ pc = "body" /\ part = 0 /\ Connected
    /\ part' = 1
    /\ UNCHANGED <<pc, cmd, sdOk, attached, status, result, acted, link,
                   server, setup>>

\* for (uint8_t i = 0; ...; i++)
NextPart == part' = (part % IndexMod) + 1

SendAttachment(p) ==
    /\ pc = "body" /\ part = p /\ p # 0 /\ p <= Len(Attachments)
    /\ Connected
    /\ sdOk' = IF Attachments[p] = "file" THEN TRUE ELSE sdOk
    /\ attached' = attached \cup {p}
    /\ NextPart
    /\ UNCHANGED <<pc, cmd, status, result, acted, link, server, setup>>

\* A file whose storage cannot be mounted, or that is not there, is left out
\* of the mail without a word.  Nothing is written to the connection.
SkipFile(p) ==
    /\ pc = "body" /\ part = p /\ p # 0 /\ p <= Len(Attachments)
    /\ Attachments[p] = "file"
    /\ sdOk' \in {sdOk, TRUE}
    /\ NextPart
    /\ UNCHANGED <<pc, cmd, attached, status, result, acted, link, server, setup>>

\* The closing boundary and the final dot.
EndBody ==
    /\ pc = "body" /\ part > Len(Attachments) /\ Connected
    /\ Transmit(cmd)
    /\ pc' = "wait"
    /\ UNCHANGED <<cmd, part, sdOk, attached, status, result, acted, conn, net,
                   inbox, server, setup>>

\* getStreamPtr() is a null pointer once the connection is gone, and every
\* write goes through it unchecked.
WriteOnDeadLink ==
    /\ pc \in {"send", "body"} /\ ~Connected
    /\ pc' = "crashed"
    /\ UNCHANGED <<cmd, part, sdOk, attached, status, result, acted, link,
                   server, setup>>

-----------------------------------------------------------------------------
\* sendMail on the way out: stop(), which drops what was not read.
Return(r, s) ==
    /\ pc' = "done" /\ result' = r /\ status' = s
    /\ conn' = "down" /\ net' = <<>> /\ inbox' = <<>>
    /\ UNCHANGED toSrv

StageAccepted(reply) ==
    /\ Accepts(cmd.stage, reply.code)
    /\ acted' = [cmd |-> cmd, tag |-> reply.cmd]
    /\ cmd' = After(cmd)
    /\ IF cmd.stage = "BODY"
       THEN Return("true", status)
       ELSE /\ pc' = IF After(cmd).stage = "BODY" THEN "body" ELSE "send"
            /\ inbox' = <<>>
            /\ UNCHANGED <<status, result, conn, toSrv, net>>

\* EHLO is not understood: the session goes on with HELO.
FallBackToHelo(reply) ==
    /\ cmd.stage = "EHLO" /\ ~Accepts(cmd.stage, reply.code)
    /\ cmd' = Cmd("HELO") /\ pc' = "send" /\ inbox' = <<>>
    /\ UNCHANGED <<status, result, acted, conn, toSrv, net>>

StageFailed(reply) ==
    /\ cmd.stage # "EHLO" /\ ~Accepts(cmd.stage, reply.code)
    /\ Return("false", StatusOf(cmd.stage))
    /\ UNCHANGED <<cmd, acted>>

Handle(reply) ==
    /\ \/ StageAccepted(reply)
       \/ FallBackToHelo(reply)
       \/ StageFailed(reply)
    /\ UNCHANGED <<part, sdOk, attached, server, setup>>

\* waitSMTPResponse with something to read: all of it is read, the first
\* line alone counts.
ReadReply ==
    /\ pc = "wait" /\ inbox # <<>>
    /\ Handle(Head(inbox))

\* ... and with nothing to read until tcpTimeout is over or the peer is gone.
GiveUpWhenGone ==
    /\ pc = "wait" /\ inbox = <<>> /\ conn = "down"
    /\ Handle(Silence)
GiveUp ==
    /\ pc = "wait" /\ inbox = <<>>
    /\ Handle(Silence)

-----------------------------------------------------------------------------
\* The server and the network, as sendMail meets them.

Reply(code, c) == net' = IF conn = "up" THEN Append(net, [code |-> code, cmd |-> c]) ELSE net

\* One line of several: "250-..." with or without a blank.
ServeLine ==
    /\ toSrv # <<>> /\ Head(toSrv).stage \in MultiLine
    /\ Len(net) + Len(inbox) < MaxSegments
    /\ \E code \in {OkCode(Head(toSrv).stage), NoCode} : Reply(code, Head(toSrv))
    /\ UNCHANGED <<conn, toSrv, inbox, server, client, setup>>

\* The last line of the reply and the verdict it carries.
ServeOk ==
    /\ toSrv # <<>>
    /\ okd' = okd \cup {Head(toSrv)} /\ UNCHANGED refused
    /\ \E code \in {OkCode(Head(toSrv).stage), NoCode} : Reply(code, Head(toSrv))
    /\ toSrv' = Tail(toSrv)
    /\ UNCHANGED <<conn, inbox, client, setup>>

ServeErr ==
    /\ toSrv # <<>>
    /\ refused' = refused \cup {Head(toSrv)} /\ UNCHANGED okd
    /\ \E code \in {Err, NoCode} : Reply(code, Head(toSrv))
    /\ toSrv' = Tail(toSrv)
    /\ UNCHANGED <<conn, inbox, client, setup>>

Deliver ==
    /\ net # <<>>
    /\ inbox' = Append(inbox, Head(net)) /\ net' = Tail(net)
    /\ UNCHANGED <<conn, toSrv, server, client, setup>>

\* The connection breaks.  What has arrived can still be read.
Disconnect ==
    /\ conn = "up"
    /\ conn' = "down" /\ net' = <<>>
    /\ UNCHANGED <<toSrv, inbox, server, client, setup>>

-----------------------------------------------------------------------------
SendMail ==
    \/ ConnectFails \/ ConnectSucceeds
    \/ SendCommand \/ WriteOnDeadLink
    \/ SendText \/ EndBody
    \/ \E p \in 1..Len(Attachments) : SendAttachment(p) \/ SkipFile(p)
    \/ ReadReply \/ GiveUp

Environment == ServeLine \/ ServeOk \/ ServeErr \/ Deliver \/ Disconnect

Next == SendMail \/ Environment

Safe == Init /\ [][Next]_vars

\* sendMail is a loop-free run of blocking calls on the caller's task: as
\* long as it has a step it takes one.  Nothing is asked of the server.
Spec == Safe /\ WF_vars(SendMail)

-----------------------------------------------------------------------------
\* Everything has its type: in particular, the reason reported is one of the
\* codes smtpErrorReasonStr knows.
TypeOK ==
    /\ pc \in {"idle", "send", "body", "wait", "done", "crashed"}
    /\ cmd \in Commands
    /\ part \in Nat /\ sdOk \in BOOLEAN
    /\ attached \subseteq 1..Len(Attachments)
    /\ status \in Reasons \cup {"none"}
    /\ result \in {"none", "true", "false"}
    /\ conn \in {"up", "down"}
    /\ toSrv \in Seq(Commands)
    /\ net \in Seq(Pieces) /\ inbox \in Seq(Pieces)
    /\ okd \subseteq Commands /\ refused \subseteq Commands
    /\ acted \in [cmd : Commands \cup {NoCmd}, tag : Commands \cup {NoCmd}]
    /\ wantTLS \in BOOLEAN /\ port \in {25, 465, 587}

\* From AUTH on, a reply that let the session go on was the reply to the very
\* command it was waited for, whatever was late, split or left over before:
\* the codes 334, 235 and 354 put the two sides back in step.  The one
\* exception is the end of the message, where silence is taken for a yes.
ReplyMatchesCommand ==
    acted.cmd.stage \in LateStages =>
        \/ acted.tag = acted.cmd
        \/ acted.cmd.stage = "BODY" /\ acted.tag \in {NoCmd, acted.cmd}

Rank == [AUTH |-> 1, USER |-> 2, PASS |-> 3, MAIL |-> 4, RCPT |-> 5,
         DATA |-> 6, BODY |-> 7]

\* Recipient n of list l is named before the current command.
Named(l, n) ==
    \/ cmd.stage \in {"DATA", "BODY"}
    \/ cmd.stage = "RCPT" /\ (l < cmd.lst \/ (l = cmd.lst /\ n < cmd.i))

\* The session reaches a command, fails at it or is through with it, only
\* when the server has granted every command before: no recipient the server
\* turned down is passed over, and the reason reported for a failure names
\* the first command that was not granted.
EarlierGranted ==
    cmd.stage \in LateStages =>
        /\ \A s \in LateStages \ {"RCPT"} :
               Rank[s] < Rank[cmd.stage] => Cmd(s) \in okd
        /\ \A l \in Lists : \A n \in 0..(ListLen[l] - 1) :
               Named(l, n) => Rcpt(l, n) \in okd

\* After false the server does not hold the message, and never will: the
\* caller may send it again without sending it twice.
RetrySafe == result = "false" => Cmd("BODY") \notin okd

\* sendMail comes to an end, or takes the device down, whatever the server
\* does.
Terminates == <>(pc \in {"done", "crashed"})

\* sendMail keeps the promise MailTransfer states.
Fate ==
    IF Cmd("BODY") \in okd THEN "accepted"
    ELSE IF Cmd("BODY") \in refused THEN "rejected"
    ELSE IF cmd.stage = "BODY" /\ pc \in {"wait", "done"} THEN "handed"
    ELSE "none"

Answer == IF pc = "crashed" THEN "crashed" ELSE result

Promise == INSTANCE MailTransfer WITH fate <- Fate, answer <- Answer

KeepsPromise == Promise!Spec

\* What the description of sendMail says of the value it returns.
TrueMeansAccepted == result = "true" => Cmd("BODY") \in okd
=============================================================================
