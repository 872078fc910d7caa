------------------------ MODULE SmtpSession_proofs ------------------------
(***************************************************************************)
(* Proofs about SmtpSession, for every message, every width of the loop    *)
(* counter and every set of early stages answered over several lines.      *)
(*                                                                         *)
(* The argument.  The three queues between the two sides are one pipeline: *)
(* toSrv feeds net feeds inbox.  Replies to the early stages may pile up   *)
(* in it, but the reply to a late stage is always the last thing in it,    *)
(* because the client sends nothing while it waits.  334 is a code no      *)
(* early stage has, so the wait for AUTH is passed only by the reply to    *)
(* AUTH, and with it the pipeline is empty.  From there on it holds the    *)
(* current command or its reply and nothing else.                          *)
(***************************************************************************)
EXTENDS SmtpSession, TLAPS

Body == Cmd("BODY")

\* What each place in the program knows about the connection.
Places ==
    /\ conn = "down" => net = <<>>
    /\ pc \in {"idle", "done", "crashed"} => conn = "down" /\ inbox = <<>>
    /\ pc = "idle" => toSrv = <<>> /\ cmd.stage = "GREET"
    /\ result # "none" => pc = "done"
    /\ pc = "send" => cmd.stage # "BODY"
    /\ pc = "body" => cmd.stage = "BODY"

\* Only RCPT carries a place in a list.
WellFormed ==
    \/ cmd.stage # "RCPT" /\ cmd = Cmd(cmd.stage)
    \/ cmd.stage = "RCPT" /\ cmd.lst \in Lists

\* A late command, or its reply, is the last thing in the pipeline.
LateIsLast ==
    /\ \A k \in 1..Len(toSrv) : toSrv[k].stage \in LateStages =>
           k = Len(toSrv) /\ toSrv[k] = cmd /\ pc \in {"wait", "done"}
    /\ \A k \in 1..Len(net) : net[k].cmd.stage \in LateStages =>
           k = Len(net) /\ toSrv = <<>> /\ net[k].cmd = cmd /\ pc = "wait"
    /\ \A k \in 1..Len(inbox) : inbox[k].cmd.stage \in LateStages =>
           /\ k = Len(inbox) /\ net = <<>> /\ toSrv = <<>>
           /\ inbox[k].cmd = cmd /\ pc = "wait"

\* Once AUTH is through, nothing early is left in the pipeline.
EarlyIsGone ==
    cmd.stage \in LateStages \ {"AUTH"} =>
        /\ \A k \in 1..Len(toSrv) : toSrv[k].stage \in LateStages
        /\ \A k \in 1..Len(net) : net[k].cmd.stage \in LateStages
        /\ \A k \in 1..Len(inbox) : inbox[k].cmd.stage \in LateStages

\* A piece of a reply carries its command's code or no yes at all, and a yes
\* to a late command was given.
Honest(p) ==
    /\ p.code \in {OkCode(p.cmd.stage), Err, NoCode}
    /\ p.cmd.stage \in LateStages /\ p.code = OkCode(p.cmd.stage) => p.cmd \in okd
    /\ p.cmd = Body /\ p.code = Err => Body \in refused

AllHonest ==
    /\ \A k \in 1..Len(net) : Honest(net[k])
    /\ \A k \in 1..Len(inbox) : Honest(inbox[k])

\* The message is judged once, after the dot was sent.
JudgedOnce ==
    /\ Body \in okd \cup refused => cmd = Body /\ pc \in {"wait", "done"}
    /\ Body \in okd => Body \notin refused
    /\ \A k \in 1..Len(toSrv) : toSrv[k] = Body => Body \notin okd \cup refused

\* After false no verdict is still to come.
Settled == result = "false" =>
    Body \notin okd /\ \A k \in 1..Len(toSrv) : toSrv[k] # Body

Pipeline == LateIsLast /\ EarlyIsGone /\ AllHonest
Judgement == JudgedOnce /\ Settled

-----------------------------------------------------------------------------
\* Lemmas about the operators.

\* The first list that still has somebody to name, if any has.
LEMMA LeastRemaining ==
    ASSUME NEW l, NEW n, Remaining(l, n) # {}
    PROVE  \E m \in Remaining(l, n) : \A y \in Remaining(l, n) : m <= y
<1>1. Remaining(l, n) \subseteq {1, 2, 3}
    BY DEF Remaining, Lists
<1>2. CASE 1 \in Remaining(l, n)
    BY <1>1, <1>2
<1>3. CASE 1 \notin Remaining(l, n) /\ 2 \in Remaining(l, n)
    BY <1>1, <1>3
<1>4. CASE Remaining(l, n) = {3}
    BY <1>4
<1> QED
    BY <1>1, <1>2, <1>3, <1>4

\* Where the three loops over the recipients go from position n of list l:
\* every list passed on the way has nobody left.
LEMMA RcptFromShape ==
    ASSUME NEW l \in Lists, NEW n \in Nat
    PROVE  \/ /\ RcptFrom(l, n) = Cmd("DATA")
              /\ ListLen[l] <= n
              /\ \A k \in Lists : l < k => ListLen[k] = 0
           \/ \E m \in Lists :
              /\ RcptFrom(l, n) = Rcpt(m, IF m = l THEN n ELSE 0)
              /\ l <= m
              /\ l < m => ListLen[l] <= n
              /\ \A k \in Lists : l < k /\ k < m => ListLen[k] = 0
<1> USE ListsAssumption
<1>1. CASE Remaining(l, n) = {}
    <2>1. RcptFrom(l, n) = Cmd("DATA")
        BY <1>1 DEF RcptFrom
    <2>2. l \notin Remaining(l, n) /\ \A k \in Lists : k \notin Remaining(l, n)
        BY <1>1
    <2>3. ~(n < ListLen[l])
        BY <2>2 DEF Remaining
    <2>4. \A k \in Lists : l < k => ListLen[k] = 0
        BY <2>2 DEF Remaining, Lists
    <2> QED
        BY <2>1, <2>3, <2>4 DEF Lists
<1>2. CASE Remaining(l, n) # {}
    <2> DEFINE m == CHOOSE x \in Remaining(l, n) :
                        \A y \in Remaining(l, n) : x <= y
    <2>1. m \in Remaining(l, n) /\ \A y \in Remaining(l, n) : m <= y
        BY <1>2, LeastRemaining
    <2>2. RcptFrom(l, n) = Rcpt(m, IF m = l THEN n ELSE 0)
        BY <1>2 DEF RcptFrom
    <2> HIDE DEF m
    <2>3. m \in Lists /\ l <= m
        BY <2>1 DEF Remaining, Lists
    <2>4. l < m => ListLen[l] <= n
        BY <2>1, <2>3 DEF Remaining, Lists
    <2>5. \A k \in Lists : l < k /\ k < m => ListLen[k] = 0
        BY <2>1, <2>3 DEF Remaining, Lists
    <2> QED
        BY <2>2, <2>3, <2>4, <2>5
<1> QED
    BY <1>1, <1>2

\* The command after an accepted one is a command, is well formed and, past
\* AUTH, is late again.
LEMMA AfterShape ==
    ASSUME NEW c \in Commands, c.stage = "RCPT" => c.lst \in Lists
    PROVE  /\ After(c) \in Commands
           /\ After(c).stage \notin {"GREET", "HELO"}
           /\ \/ After(c).stage # "RCPT" /\ After(c) = Cmd(After(c).stage)
              \/ After(c).stage = "RCPT" /\ After(c).lst \in Lists
           /\ After(c).stage \in {"EHLO", "AUTH"} <=> c.stage \in EarlyStages
<1>1. c.stage \in Stages /\ c.i \in Nat
    BY DEF Commands
<1>2. CASE c.stage = "MAIL"
    <2>1. After(c) = RcptFrom(1, 0)
        BY <1>2 DEF After
    <2>2. PICK x : x = RcptFrom(1, 0)
        OBVIOUS
    <2>3. x = Cmd("DATA") \/ \E m \in Lists : x = Rcpt(m, 0)
        BY <2>2, RcptFromShape DEF Lists
    <2> QED
        BY <1>2, <2>1, <2>2, <2>3
        DEF Cmd, Rcpt, Commands, Stages, LateStages, EarlyStages, Lists
<1>3. CASE c.stage = "RCPT"
    <2>1. After(c) = RcptFrom(c.lst, (c.i + 1) % IndexMod)
        BY <1>3 DEF After
    <2>2. (c.i + 1) % IndexMod \in Nat
        BY <1>1, IndexAssumption
    <2>3. \/ After(c) = Cmd("DATA")
          \/ \E m \in Lists, n \in Nat : After(c) = Rcpt(m, n)
        BY <1>3, <2>1, <2>2, RcptFromShape
    <2> QED
        BY <1>3, <2>3
        DEF Cmd, Rcpt, Commands, Stages, LateStages, EarlyStages, Lists
<1>4. CASE c.stage \notin {"MAIL", "RCPT"}
    BY <1>1, <1>4
    DEF After, Cmd, Commands, Stages, LateStages, EarlyStages, Lists
<1> QED
    BY <1>2, <1>3, <1>4

\* The codes, command by command.
LEMMA OkCodes ==
    /\ \A s \in Stages : OkCode(s) \in {220, 235, 250, 334, 354}
    /\ \A s \in Stages : OkCode(s) = 334 <=> s \in {"AUTH", "USER"}
    /\ OkCode("BODY") = 250
BY DEF OkCode, Stages, LateStages, EarlyStages

LEMMA LengthZero ==
    ASSUME NEW S, NEW s \in Seq(S), Len(s) = 0
    PROVE  s = <<>>
OBVIOUS

LEMMA StatusIsReason ==
    ASSUME NEW s \in Stages
    PROVE  StatusOf(s) \in Reasons
BY DEF StatusOf, Reasons, Stages, LateStages, EarlyStages

-----------------------------------------------------------------------------
\* Types.

Typed == TypeOK /\ WellFormed

IInv == /\ Typed /\ Places /\ Pipeline /\ Judgement
        /\ ReplyMatchesCommand /\ EarlierGranted

\* What a wait can come back with.
Outcomes == Pieces \cup {Silence}

LEMMA CmdIsCommand == \A s \in Stages : Cmd(s) \in Commands
BY DEF Cmd, Commands

LEMMA HandleTyped ==
    ASSUME Typed, NEW reply \in Outcomes, Handle(reply)
    PROVE  Typed'
<1>1. cmd \in Commands /\ cmd.stage \in Stages
    BY DEF Typed, TypeOK, Commands
<1>2. /\ reply.cmd \in Commands \cup {NoCmd}
    BY DEF Outcomes, Pieces, Silence
<1>3. UNCHANGED <<part, sdOk, attached, okd, refused, wantTLS, port>>
    BY DEF Handle, server, setup
<1>4. CASE StageAccepted(reply)
    <2>1. After(cmd) \in Commands
          /\ \/ After(cmd).stage # "RCPT" /\ After(cmd) = Cmd(After(cmd).stage)
             \/ After(cmd).stage = "RCPT" /\ After(cmd).lst \in Lists
        BY AfterShape, <1>1 DEF Typed, WellFormed
    <2>2. acted' \in [cmd : Commands \cup {NoCmd}, tag : Commands \cup {NoCmd}]
        BY <1>1, <1>2, <1>4 DEF StageAccepted
    <2>3. cmd' = After(cmd)
        BY <1>4 DEF StageAccepted
    <2>4. CASE cmd.stage = "BODY"
        BY <1>3, <1>4, <2>1, <2>2, <2>3, <2>4
        DEF StageAccepted, Return, Typed, TypeOK, WellFormed
    <2>5. CASE cmd.stage # "BODY"
        BY <1>3, <1>4, <2>1, <2>2, <2>3, <2>5
        DEF StageAccepted, Typed, TypeOK, WellFormed
    <2> QED
        BY <2>4, <2>5
<1>5. CASE FallBackToHelo(reply)
    <2>1. Cmd("HELO") \in Commands /\ Cmd("HELO").stage = "HELO"
        BY CmdIsCommand DEF Cmd, Stages, EarlyStages
    <2> QED
        BY <1>3, <1>5, <2>1 DEF FallBackToHelo, Typed, TypeOK, WellFormed
<1>6. CASE StageFailed(reply)
    <2>1. StatusOf(cmd.stage) \in Reasons
        BY <1>1, StatusIsReason
    <2> QED
        BY <1>3, <1>6, <2>1 DEF StageFailed, Return, Typed, TypeOK, WellFormed
<1> QED
    BY <1>4, <1>5, <1>6 DEF Handle

LEMMA TypedInit == Init => Typed
<1>1. Cmd("GREET") \in Commands /\ Cmd("GREET").stage = "GREET"
    BY CmdIsCommand DEF Cmd, Stages, EarlyStages
<1> QED
    BY <1>1 DEF Init, Typed, TypeOK, WellFormed, Cmd

\* The reply the server writes is made of pieces.
LEMMA ReplyTyped ==
    ASSUME Typed, NEW c \in Commands, NEW code \in {OkCode(c.stage), Err, NoCode},
           Reply(code, c)
    PROVE  net' \in Seq(Pieces)
<1>1. OkCode(c.stage) \in {220, 235, 250, 334, 354}
    BY OkCodes DEF Commands
<1>2. [code |-> code, cmd |-> c] \in Pieces
    BY <1>1 DEF Pieces
<1> QED
    BY <1>2 DEF Reply, Typed, TypeOK

LEMMA TypedStep == Typed /\ [Next]_vars => Typed'
<1> SUFFICES ASSUME Typed, [Next]_vars PROVE Typed'
    OBVIOUS
<1> USE DEF client, link, server, setup
<1>1. CASE ConnectFails
    BY <1>1 DEF ConnectFails, Typed, TypeOK, WellFormed, Reasons
<1>2. CASE ConnectSucceeds
    <2>1. /\ Cmd("GREET") \in Commands /\ Cmd("GREET").stage = "GREET"
          /\ Cmd("EHLO") \in Commands /\ Cmd("EHLO").stage = "EHLO"
        BY CmdIsCommand DEF Cmd, Stages, EarlyStages
    <2>2. toSrv' \in Seq(Commands)
        BY <1>2, <2>1 DEF ConnectSucceeds
    <2>3. /\ cmd' \in {Cmd("GREET"), Cmd("EHLO")} /\ pc' \in {"send", "wait"}
        BY <1>2 DEF ConnectSucceeds
    <2> QED
        BY <1>2, <2>1, <2>2, <2>3 DEF ConnectSucceeds, Typed, TypeOK, WellFormed
<1>3. CASE SendCommand \/ EndBody
    <2>1. toSrv' \in Seq(Commands)
        <3>1. Transmit(cmd)
            BY <1>3 DEF SendCommand, EndBody
        <3>2. cmd \in Commands /\ toSrv \in Seq(Commands)
            BY DEF Typed, TypeOK
        <3> QED
            BY <3>1, <3>2 DEF Transmit
    <2>2. /\ pc' = "wait"
          /\ UNCHANGED <<cmd, part, sdOk, attached, status, result, acted,
                         conn, net, inbox, okd, refused, wantTLS, port>>
        BY <1>3 DEF SendCommand, EndBody
    <2> QED
        BY <2>1, <2>2 DEF Typed, TypeOK, WellFormed
<1>4. CASE WriteOnDeadLink
    BY <1>4 DEF WriteOnDeadLink, Typed, TypeOK, WellFormed
<1>5. CASE SendText
    BY <1>5 DEF SendText, Typed, TypeOK, WellFormed
<1>6. ASSUME NEW p \in 1..Len(Attachments), SendAttachment(p) \/ SkipFile(p)
      PROVE  Typed'
    <2>1. NextPart
        BY <1>6 DEF SendAttachment, SkipFile
    <2>2. part' \in Nat
        <3>1. part % IndexMod \in Nat
            BY IndexAssumption DEF Typed, TypeOK
        <3> QED
            BY <2>1, <3>1 DEF NextPart
    <2>3. sdOk' \in BOOLEAN /\ attached' \subseteq 1..Len(Attachments)
        <3>1. CASE SendAttachment(p)
            BY <3>1 DEF SendAttachment, Typed, TypeOK
        <3>2. CASE SkipFile(p)
            BY <3>2 DEF SkipFile, Typed, TypeOK
        <3> QED
            BY <1>6, <3>1, <3>2
    <2>4. UNCHANGED <<pc, cmd, status, result, acted, conn, toSrv, net, inbox,
                      okd, refused, wantTLS, port>>
        BY <1>6 DEF SendAttachment, SkipFile
    <2> QED
        BY <2>2, <2>3, <2>4 DEF Typed, TypeOK, WellFormed
<1>7. CASE ReadReply
    <2>1. Head(inbox) \in Outcomes
        BY <1>7 DEF ReadReply, Typed, TypeOK, Outcomes
    <2> QED
        BY <1>7, <2>1, HandleTyped DEF ReadReply
<1>8. CASE GiveUp
    BY <1>8, HandleTyped DEF GiveUp, Outcomes
<1>9. CASE ServeLine \/ ServeOk \/ ServeErr
    <2>1. Head(toSrv) \in Commands /\ Tail(toSrv) \in Seq(Commands)
        BY <1>9 DEF ServeLine, ServeOk, ServeErr, Typed, TypeOK
    <2>2. net' \in Seq(Pieces)
        BY <1>9, <2>1, ReplyTyped DEF ServeLine, ServeOk, ServeErr
    <2>3. /\ toSrv' \in Seq(Commands)
          /\ okd' \subseteq Commands /\ refused' \subseteq Commands
        BY <1>9, <2>1 DEF ServeLine, ServeOk, ServeErr, Typed, TypeOK
    <2>4. UNCHANGED <<pc, cmd, part, sdOk, attached, status, result, acted,
                      conn, inbox, wantTLS, port>>
        BY <1>9 DEF ServeLine, ServeOk, ServeErr
    <2> QED
        BY <2>2, <2>3, <2>4 DEF Typed, TypeOK, WellFormed
<1>10. CASE Deliver
    BY <1>10 DEF Deliver, Typed, TypeOK, WellFormed
<1>11. CASE Disconnect
    BY <1>11 DEF Disconnect, Typed, TypeOK, WellFormed
<1>12. CASE UNCHANGED vars
    BY <1>12 DEF vars, Typed, TypeOK, WellFormed
<1> QED
    BY <1>1, <1>2, <1>3, <1>4, <1>5, <1>6, <1>7, <1>8, <1>9, <1>10, <1>11, <1>12
    DEF Next, SendMail, Environment

\* Every variable keeps its type and the reason reported is always one the
\* client can put into words.
THEOREM TypeCorrect == Spec => []TypeOK
<1>1. Typed => TypeOK
    BY DEF Typed
<1> QED
    BY <1>1, TypedInit, TypedStep, PTL DEF Spec, Safe

-----------------------------------------------------------------------------
\* The pipeline.

\* While the client holds a late command it has not sent, nothing late is
\* under way; past AUTH nothing at all is.
LEMMA NothingUnderWay ==
    ASSUME IInv, pc \in {"send", "body"}
    PROVE  /\ \A k \in 1..Len(toSrv) : toSrv[k].stage \notin LateStages
           /\ \A k \in 1..Len(net) : net[k].cmd.stage \notin LateStages
           /\ \A k \in 1..Len(inbox) : inbox[k].cmd.stage \notin LateStages
           /\ cmd.stage \in LateStages \ {"AUTH"} =>
                  toSrv = <<>> /\ net = <<>> /\ inbox = <<>>
<1>1. /\ \A k \in 1..Len(toSrv) : toSrv[k].stage \notin LateStages
      /\ \A k \in 1..Len(net) : net[k].cmd.stage \notin LateStages
      /\ \A k \in 1..Len(inbox) : inbox[k].cmd.stage \notin LateStages
    BY DEF IInv, Pipeline, LateIsLast
<1>2. ASSUME cmd.stage \in LateStages \ {"AUTH"}
      PROVE  toSrv = <<>> /\ net = <<>> /\ inbox = <<>>
    <2>1. 1 \notin 1..Len(toSrv) /\ 1 \notin 1..Len(net) /\ 1 \notin 1..Len(inbox)
        BY <1>1, <1>2 DEF IInv, Pipeline, EarlyIsGone
    <2> QED
        BY <2>1 DEF IInv, Typed, TypeOK
<1> QED
    BY <1>1, <1>2

\* While the client waits for the reply to an early command, or has none
\* to wait for, nothing late is under way.
LEMMA NothingLate ==
    ASSUME IInv, cmd.stage \in EarlyStages
    PROVE  /\ \A k \in 1..Len(toSrv) : toSrv[k].stage \notin LateStages
           /\ \A k \in 1..Len(net) : net[k].cmd.stage \notin LateStages
           /\ \A k \in 1..Len(inbox) : inbox[k].cmd.stage \notin LateStages
<1>1. cmd.stage \notin LateStages
    BY DEF LateStages, EarlyStages
<1> QED
    BY <1>1 DEF IInv, Pipeline, LateIsLast

\* What a late wait reads is the reply to its command and the last thing in
\* the pipeline: always past AUTH, and at AUTH when the code is 334.
LEMMA LateReply ==
    ASSUME IInv, pc = "wait", inbox # <<>>, cmd.stage \in LateStages,
           cmd.stage = "AUTH" => Head(inbox).code = 334
    PROVE  /\ Head(inbox).cmd = cmd /\ Honest(Head(inbox))
           /\ toSrv = <<>> /\ net = <<>>
<1>1. 1 \in 1..Len(inbox) /\ Head(inbox) = inbox[1] /\ inbox[1] \in Pieces
    BY DEF IInv, Typed, TypeOK
<1>2. Honest(inbox[1])
    BY <1>1 DEF IInv, Pipeline, AllHonest
<1>3. inbox[1].cmd.stage \in LateStages
    <2>1. CASE cmd.stage = "AUTH"
        <3>1. inbox[1].cmd.stage \in Stages
            BY <1>1 DEF Pieces, Commands
        <3>2. OkCode(inbox[1].cmd.stage) = 334
            BY <1>1, <1>2, <2>1 DEF Honest, Err, NoCode
        <3> QED
            BY <3>1, <3>2, OkCodes DEF LateStages
    <2>2. CASE cmd.stage # "AUTH"
        BY <1>1, <2>2 DEF IInv, Pipeline, EarlyIsGone
    <2> QED
        BY <2>1, <2>2
<1> QED
    BY <1>1, <1>2, <1>3 DEF IInv, Pipeline, LateIsLast

-----------------------------------------------------------------------------
\* Going on to the next command once this one was granted.
LEMMA AdvanceGranted ==
    ASSUME Typed, EarlierGranted, cmd.stage \in LateStages \ {"BODY"},
           cmd \in okd, okd' = okd, cmd' = After(cmd)
    PROVE  EarlierGranted'
<1> USE ListsAssumption
<1>1. cmd \in Commands /\ cmd.i \in Nat
    BY DEF Typed, TypeOK, Commands
<1>2. CASE cmd.stage \in {"AUTH", "USER", "PASS", "DATA"}
    <2>1. cmd = Cmd(cmd.stage)
        BY <1>2 DEF Typed, WellFormed
    <2>2. CASE cmd.stage = "AUTH"
        <3>1. cmd'.stage = "USER"
            BY <2>2 DEF After, Cmd
        <3> QED
            BY <2>1, <2>2, <3>1 DEF EarlierGranted, LateStages, Rank, Named
    <2>3. CASE cmd.stage = "USER"
        <3>1. cmd'.stage = "PASS"
            BY <2>3 DEF After, Cmd
        <3> QED
            BY <2>1, <2>3, <3>1 DEF EarlierGranted, LateStages, Rank, Named
    <2>4. CASE cmd.stage = "PASS"
        <3>1. cmd'.stage = "MAIL"
            BY <2>4 DEF After, Cmd
        <3> QED
            BY <2>1, <2>4, <3>1 DEF EarlierGranted, LateStages, Rank, Named
    <2>5. CASE cmd.stage = "DATA"
        <3>1. cmd'.stage = "BODY"
            BY <2>5 DEF After, Cmd
        <3> QED
            BY <2>1, <2>5, <3>1 DEF EarlierGranted, LateStages, Rank, Named
    <2> QED
        BY <1>2, <2>2, <2>3, <2>4, <2>5
<1>3. CASE cmd.stage \in {"MAIL", "RCPT"}
    <2> DEFINE l == IF cmd.stage = "MAIL" THEN 1 ELSE cmd.lst
               n == IF cmd.stage = "MAIL" THEN 0 ELSE (cmd.i + 1) % IndexMod
    <2>1. cmd' = RcptFrom(l, n)
        BY <1>3 DEF After
    <2>2. n \in Nat /\ (cmd.stage = "RCPT" => n <= cmd.i + 1)
        BY <1>1, IndexAssumption
    <2>3. l \in Lists
        BY <1>3 DEF Typed, WellFormed, Lists
    <2>4. \A s \in LateStages \ {"RCPT"} : Rank[s] <= Rank["MAIL"] => Cmd(s) \in okd
        <3>1. CASE cmd.stage = "MAIL"
            <4>1. cmd = Cmd("MAIL")
                BY <3>1 DEF Typed, WellFormed
            <4> QED
                BY <3>1, <4>1 DEF EarlierGranted, LateStages, Rank
        <3>2. CASE cmd.stage = "RCPT"
            BY <3>2 DEF EarlierGranted, LateStages, Rank
        <3> QED
            BY <1>3, <3>1, <3>2
    <2>5. \A k \in Lists : \A j \in 0..(ListLen[k] - 1) :
              k < l \/ (k = l /\ j < n) => Rcpt(k, j) \in okd
        <3>1. CASE cmd.stage = "MAIL"
            BY <3>1 DEF Lists
        <3>2. CASE cmd.stage = "RCPT"
            <4>1. cmd = Rcpt(cmd.lst, cmd.i)
                BY <1>1, <3>2 DEF Commands, Rcpt
            <4>2. \A k \in Lists : \A j \in 0..(ListLen[k] - 1) :
                      k < cmd.lst \/ (k = cmd.lst /\ j < cmd.i) => Rcpt(k, j) \in okd
                BY <3>2 DEF EarlierGranted, Named, LateStages
            <4> HIDE DEF n
            <4>3. SUFFICES ASSUME NEW k \in Lists, NEW j \in 0..(ListLen[k] - 1),
                                  k = l, j < n
                           PROVE  Rcpt(k, j) \in okd
                BY <3>2, <4>2
            <4>4. k = cmd.lst /\ j <= cmd.i
                BY <1>1, <2>2, <3>2, <4>3
            <4>5. CASE j < cmd.i
                BY <4>2, <4>4, <4>5
            <4>6. CASE j = cmd.i
                BY <4>1, <4>4, <4>6
            <4> QED
                BY <1>1, <4>4, <4>5, <4>6
        <3> QED
            BY <1>3, <3>1, <3>2
    <2> HIDE DEF l, n
    <2>6. CASE /\ RcptFrom(l, n) = Cmd("DATA")
               /\ ListLen[l] <= n
               /\ \A k \in Lists : l < k => ListLen[k] = 0
        <3>1. cmd'.stage = "DATA"
            BY <2>1, <2>6 DEF Cmd
        <3>2. \A s \in LateStages \ {"RCPT"} : Rank[s] < Rank["DATA"] => Cmd(s) \in okd
            BY <2>4 DEF LateStages, Rank
        <3>3. \A k \in Lists : \A j \in 0..(ListLen[k] - 1) : Rcpt(k, j) \in okd
            BY <2>2, <2>3, <2>5, <2>6 DEF Lists
        <3> QED
            BY <3>1, <3>2, <3>3 DEF EarlierGranted
    <2>7. ASSUME NEW m \in Lists,
                 RcptFrom(l, n) = Rcpt(m, IF m = l THEN n ELSE 0),
                 l <= m,
                 l < m => ListLen[l] <= n,
                 \A k \in Lists : l < k /\ k < m => ListLen[k] = 0
          PROVE  EarlierGranted'
        <3>1. cmd'.stage = "RCPT" /\ cmd'.lst = m /\ cmd'.i = IF m = l THEN n ELSE 0
            BY <2>1, <2>7 DEF Rcpt
        <3>2. \A s \in LateStages \ {"RCPT"} : Rank[s] < Rank["RCPT"] => Cmd(s) \in okd
            BY <2>4 DEF LateStages, Rank
        <3>3. \A k \in Lists : \A j \in 0..(ListLen[k] - 1) :
                  k < m \/ (k = m /\ j < cmd'.i) => Rcpt(k, j) \in okd
            BY <2>2, <2>3, <2>5, <2>7, <3>1 DEF Lists
        <3> QED
            BY <3>1, <3>2, <3>3 DEF EarlierGranted, Named
    <2> QED
        BY <2>2, <2>3, <2>6, <2>7, RcptFromShape
<1> QED
    BY <1>2, <1>3 DEF LateStages

-----------------------------------------------------------------------------
\* The steps that end a wait.

\* The reply a wait comes back with.
Waited(reply) ==
    \/ inbox # <<>> /\ reply = Head(inbox)
    \/ inbox = <<>> /\ reply = Silence

\* A command that is granted was granted by the server, and by the reply to
\* it; the only exception is silence after the message.
LEMMA AcceptedReply ==
    ASSUME IInv, pc = "wait", NEW reply, Waited(reply),
           Accepts(cmd.stage, reply.code), cmd.stage \in LateStages
    PROVE  /\ cmd.stage # "BODY" => /\ reply.cmd = cmd /\ cmd \in okd
                                    /\ toSrv = <<>> /\ net = <<>>
           /\ cmd.stage = "BODY" => reply.cmd \in {cmd, NoCmd}
<1> USE OkCodes DEF NoCode, Err
<1>1. cmd.stage \in Stages /\ OkCode(cmd.stage) # NoCode
    BY DEF Stages
<1>2. CASE inbox # <<>> /\ reply = Head(inbox)
    <2>1. cmd.stage = "AUTH" => reply.code = 334
        BY <1>1, <1>2 DEF Accepts
    <2>2. reply.cmd = cmd /\ Honest(reply) /\ toSrv = <<>> /\ net = <<>>
        BY <1>2, <2>1, LateReply
    <2>3. cmd.stage # "BODY" => reply.code = OkCode(cmd.stage)
        BY DEF Accepts
    <2> QED
        BY <2>2, <2>3 DEF Honest
<1>3. CASE inbox = <<>> /\ reply = Silence
    <2>1. reply.code = NoCode /\ reply.cmd = NoCmd
        BY <1>3 DEF Silence
    <2>2. cmd.stage = "BODY"
        BY <1>1, <2>1 DEF Accepts
    <2> QED
        BY <2>1, <2>2
<1> QED
    BY <1>2, <1>3 DEF Waited

LEMMA AcceptedStep ==
    ASSUME IInv, Typed', pc = "wait", NEW reply, Waited(reply),
           StageAccepted(reply), Handle(reply)
    PROVE  IInv'
<1>1. cmd \in Commands /\ cmd.stage \in Stages
    BY DEF IInv, Typed, TypeOK, Commands
<1>2. okd' = okd /\ refused' = refused
    BY DEF Handle, server
<1>3. /\ Accepts(cmd.stage, reply.code)
      /\ acted' = [cmd |-> cmd, tag |-> reply.cmd] /\ cmd' = After(cmd)
    BY DEF StageAccepted
<1>4. After(cmd).stage \in {"EHLO", "AUTH"} <=> cmd.stage \in EarlyStages
    BY <1>1, AfterShape DEF IInv, Typed, WellFormed
<1>5. inbox' = <<>> /\ toSrv' = toSrv
    BY DEF StageAccepted, Return
<1>6. CASE cmd.stage \in EarlyStages
    <2>1. /\ pc' \in {"send", "body"} /\ UNCHANGED <<result, conn, net>>
          /\ pc' = "body" <=> After(cmd).stage = "BODY"
        BY <1>6 DEF StageAccepted, EarlyStages
    <2>2. After(cmd).stage \in {"EHLO", "AUTH"}
        BY <1>4, <1>6
    <2>3. /\ \A k \in 1..Len(toSrv) : toSrv[k].stage \notin LateStages
          /\ \A k \in 1..Len(net) : net[k].cmd.stage \notin LateStages
        BY <1>6, NothingLate
    <2>4. Places'
        BY <1>3, <1>5, <2>1, <2>2 DEF IInv, Places
    <2>5. Pipeline'
        <3>1. LateIsLast'
            BY <1>5, <2>1, <2>3 DEF LateIsLast
        <3>2. EarlyIsGone'
            BY <1>3, <2>2 DEF EarlyIsGone, LateStages
        <3>3. AllHonest'
            BY <1>2, <1>5, <2>1 DEF IInv, Pipeline, AllHonest, Honest
        <3> QED
            BY <3>1, <3>2, <3>3 DEF Pipeline
    <2>6. Judgement'
        <3>1. cmd # Body /\ Body.stage \in LateStages
            BY <1>6 DEF Body, Cmd, EarlyStages, LateStages
        <3> QED
            BY <1>2, <1>5, <2>1, <2>3, <3>1
            DEF IInv, Judgement, JudgedOnce, Settled, Places
    <2>7. ReplyMatchesCommand'
        BY <1>3, <1>6 DEF ReplyMatchesCommand, EarlyStages, LateStages
    <2>8. EarlierGranted'
        BY <1>3, <2>2 DEF EarlierGranted, Named, Rank, LateStages
    <2> QED
        BY <2>4, <2>5, <2>6, <2>7, <2>8 DEF IInv
<1>7. CASE cmd.stage \in LateStages \ {"BODY"}
    <2>1. /\ pc' \in {"send", "body"} /\ UNCHANGED <<result, conn, net>>
          /\ pc' = "body" <=> After(cmd).stage = "BODY"
        BY <1>7 DEF StageAccepted
    <2>2. reply.cmd = cmd /\ cmd \in okd /\ toSrv = <<>> /\ net = <<>>
        BY <1>3, <1>7, AcceptedReply
    <2>3. Places'
        BY <1>3, <1>5, <2>1 DEF IInv, Places
    <2>4. Pipeline'
        BY <1>5, <2>1, <2>2
        DEF Pipeline, LateIsLast, EarlyIsGone, AllHonest
    <2>5. Judgement'
        <3>1. cmd # Body
            BY <1>7 DEF Body, Cmd
        <3> QED
            BY <1>2, <1>5, <2>1, <2>2, <3>1
            DEF IInv, Judgement, JudgedOnce, Settled, Places
    <2>6. ReplyMatchesCommand'
        BY <1>3, <2>2 DEF ReplyMatchesCommand
    <2>7. EarlierGranted'
        BY <1>2, <1>3, <1>7, <2>2, AdvanceGranted DEF IInv
    <2> QED
        BY <2>3, <2>4, <2>5, <2>6, <2>7 DEF IInv
<1>8. CASE cmd.stage = "BODY"
    <2>1. /\ pc' = "done" /\ result' = "true" /\ conn' = "down" /\ net' = <<>>
        BY <1>8 DEF StageAccepted, Return
    <2>2. cmd = Body /\ cmd' = Body
        BY <1>3, <1>8 DEF IInv, Typed, WellFormed, Body, After, Cmd
    <2>3. Places'
        BY <1>5, <2>1 DEF Places
    <2>4. Pipeline'
        BY <1>5, <1>8, <2>1, <2>2
        DEF IInv, Pipeline, LateIsLast, EarlyIsGone, AllHonest
    <2>5. Judgement'
        BY <1>2, <1>5, <2>1, <2>2
        DEF IInv, Judgement, JudgedOnce, Settled
    <2>6. ReplyMatchesCommand'
        <3>1. reply.cmd \in {cmd, NoCmd}
            BY <1>3, <1>8, AcceptedReply DEF LateStages
        <3> QED
            BY <1>3, <1>8, <3>1 DEF ReplyMatchesCommand
    <2>7. EarlierGranted'
        BY <1>2, <2>2 DEF IInv, EarlierGranted, Named
    <2> QED
        BY <2>3, <2>4, <2>5, <2>6, <2>7 DEF IInv
<1> QED
    BY <1>1, <1>6, <1>7, <1>8 DEF Stages

LEMMA FallBackStep ==
    ASSUME IInv, Typed', pc = "wait", NEW reply,
           FallBackToHelo(reply), Handle(reply)
    PROVE  IInv'
<1>1. /\ cmd.stage = "EHLO" /\ cmd' = Cmd("HELO") /\ pc' = "send" /\ inbox' = <<>>
      /\ UNCHANGED <<result, acted, conn, toSrv, net, okd, refused>>
    BY DEF FallBackToHelo, Handle, server
<1>2. cmd'.stage = "HELO"
    BY <1>1 DEF Cmd
<1>3. /\ \A k \in 1..Len(toSrv) : toSrv[k].stage \notin LateStages
      /\ \A k \in 1..Len(net) : net[k].cmd.stage \notin LateStages
    BY <1>1, NothingLate DEF EarlyStages
<1>4. Places'
    BY <1>1, <1>2 DEF IInv, Places
<1>5. Pipeline'
    BY <1>1, <1>2, <1>3
    DEF IInv, Pipeline, LateIsLast, EarlyIsGone, AllHonest, Honest, LateStages
<1>6. Judgement'
    <2>1. cmd # Body /\ Body.stage \in LateStages
        BY <1>1 DEF Body, Cmd, LateStages
    <2> QED
        BY <1>1, <1>3, <2>1 DEF IInv, Judgement, JudgedOnce, Settled, Places
<1>7. ReplyMatchesCommand' /\ EarlierGranted'
    BY <1>1, <1>2 DEF IInv, ReplyMatchesCommand, EarlierGranted, LateStages
<1> QED
    BY <1>4, <1>5, <1>6, <1>7 DEF IInv

\* The end of the message fails only on the server's own refusal of it.
LEMMA FailedBody ==
    ASSUME IInv, pc = "wait", NEW reply, Waited(reply),
           StageFailed(reply), cmd = Body
    PROVE  toSrv = <<>> /\ Body \in refused
<1>1. cmd.stage = "BODY" /\ cmd.stage \in LateStages \ {"AUTH"}
    BY DEF Body, Cmd, LateStages
<1>2. reply.code \notin {250, NoCode}
    BY <1>1, OkCodes DEF StageFailed, Accepts
<1>3. inbox # <<>> /\ reply = Head(inbox)
    BY <1>2 DEF Waited, Silence
<1>4. reply.cmd = cmd /\ Honest(reply) /\ toSrv = <<>>
    BY <1>1, <1>3, LateReply
<1>5. reply.code = Err
    BY <1>1, <1>2, <1>4, OkCodes DEF Honest
<1> QED
    BY <1>4, <1>5 DEF Honest

\* A session that fails leaves no message the server could still accept.
LEMMA FailedStep ==
    ASSUME IInv, Typed', pc = "wait", NEW reply, Waited(reply),
           StageFailed(reply), Handle(reply)
    PROVE  IInv'
<1>1. /\ pc' = "done" /\ result' = "false" /\ conn' = "down"
      /\ net' = <<>> /\ inbox' = <<>>
      /\ UNCHANGED <<cmd, acted, toSrv, okd, refused>>
      /\ ~Accepts(cmd.stage, reply.code)
    BY DEF StageFailed, Return, Handle, server
<1>2. Places'
    BY <1>1 DEF Places
<1>3. Pipeline'
    BY <1>1 DEF IInv, Pipeline, LateIsLast, EarlyIsGone, AllHonest
<1>4. Settled'
    <2>1. CASE cmd # Body
        <3>1. Body.stage \in LateStages
            BY DEF Body, Cmd, LateStages
        <3> QED
            BY <1>1, <2>1, <3>1
            DEF IInv, Judgement, JudgedOnce, Pipeline, LateIsLast, Settled
    <2>2. CASE cmd = Body
        <3>1. toSrv = <<>> /\ Body \in refused
            BY <2>2, FailedBody
        <3> QED
            BY <1>1, <3>1 DEF IInv, Judgement, JudgedOnce, Settled
    <2> QED
        BY <2>1, <2>2
<1>5. JudgedOnce'
    BY <1>1 DEF IInv, Judgement, JudgedOnce
<1>6. ReplyMatchesCommand' /\ EarlierGranted'
    BY <1>1 DEF IInv, ReplyMatchesCommand, EarlierGranted, Named
<1> QED
    BY <1>2, <1>3, <1>4, <1>5, <1>6 DEF IInv, Judgement

-----------------------------------------------------------------------------
\* The other steps of the client.

LEMMA IInvInit == Init => IInv
<1> SUFFICES ASSUME Init PROVE IInv
    OBVIOUS
<1>1. Typed
    BY TypedInit
<1>2. Places /\ Pipeline /\ Judgement
    BY DEF Init, Places, Pipeline, LateIsLast, EarlyIsGone, AllHonest,
           Judgement, JudgedOnce, Settled, Cmd, LateStages
<1>3. ReplyMatchesCommand /\ EarlierGranted
    BY DEF Init, ReplyMatchesCommand, EarlierGranted, NoCmd, Cmd, LateStages
<1> QED
    BY <1>1, <1>2, <1>3 DEF IInv

\* A step that touches none of the variables the invariant is about.
LEMMA FrameStep ==
    ASSUME IInv, Typed',
           UNCHANGED <<pc, cmd, result, acted, conn, toSrv, net, inbox, okd, refused>>
    PROVE  IInv'
<1>1. Places' /\ Pipeline' /\ Judgement'
    BY DEF IInv, Places, Pipeline, LateIsLast, EarlyIsGone, AllHonest, Honest,
           Judgement, JudgedOnce, Settled
<1>2. ReplyMatchesCommand' /\ EarlierGranted'
    BY DEF IInv, ReplyMatchesCommand, EarlierGranted, Named
<1> QED
    BY <1>1, <1>2 DEF IInv

LEMMA ConnectStep ==
    ASSUME IInv, Typed', ConnectFails \/ ConnectSucceeds
    PROVE  IInv'
<1>1. /\ pc = "idle" /\ toSrv = <<>> /\ net = <<>> /\ inbox = <<>>
      /\ UNCHANGED <<acted, net, inbox, okd, refused>>
    BY DEF ConnectFails, ConnectSucceeds, IInv, Places, link, server
<1>2. /\ Body \notin okd \cup refused
    BY <1>1 DEF IInv, Judgement, JudgedOnce
<1>3. /\ Cmd("GREET").stage = "GREET" /\ Cmd("EHLO").stage = "EHLO"
      /\ Cmd("GREET") # Body
    BY DEF Cmd, Body
<1>4. /\ cmd'.stage \in {"GREET", "EHLO"}
      /\ toSrv' \in {<<>>, <<Cmd("GREET")>>}
    BY <1>1, <1>3 DEF ConnectFails, ConnectSucceeds, IInv, Places, link
<1>5. Places'
    <2>1. CASE ConnectFails
        BY <1>1, <2>1 DEF ConnectFails, link, IInv, Places
    <2>2. CASE ConnectSucceeds
        BY <1>1, <1>3, <2>2 DEF ConnectSucceeds, IInv, Places
    <2> QED
        BY <2>1, <2>2
<1>6. Pipeline'
    BY <1>1, <1>3, <1>4
    DEF Pipeline, LateIsLast, EarlyIsGone, AllHonest, LateStages
<1>7. Judgement'
    BY <1>1, <1>2, <1>3, <1>4 DEF Judgement, JudgedOnce, Settled
<1>8. ReplyMatchesCommand' /\ EarlierGranted'
    BY <1>1, <1>4 DEF IInv, ReplyMatchesCommand, EarlierGranted, LateStages
<1> QED
    BY <1>5, <1>6, <1>7, <1>8 DEF IInv

\* Sending a command, the final dot included.
LEMMA SendStep ==
    ASSUME IInv, Typed', SendCommand \/ EndBody
    PROVE  IInv'
<1>1. /\ pc \in {"send", "body"} /\ pc' = "wait" /\ Transmit(cmd)
      /\ UNCHANGED <<cmd, result, acted, conn, net, inbox, okd, refused>>
    BY DEF SendCommand, EndBody, server
<1>2. /\ \A k \in 1..Len(toSrv) : toSrv[k].stage \notin LateStages
      /\ \A k \in 1..Len(net) : net[k].cmd.stage \notin LateStages
      /\ \A k \in 1..Len(inbox) : inbox[k].cmd.stage \notin LateStages
      /\ cmd.stage \in LateStages \ {"AUTH"} =>
             toSrv = <<>> /\ net = <<>> /\ inbox = <<>>
    BY <1>1, NothingUnderWay
<1>3. cmd \in Commands /\ toSrv \in Seq(Commands)
    BY DEF IInv, Typed, TypeOK
<1>4. \/ toSrv' = toSrv
      \/ /\ toSrv' \in Seq(Commands) /\ Len(toSrv') = Len(toSrv) + 1
         /\ toSrv'[Len(toSrv')] = cmd
         /\ \A k \in 1..Len(toSrv) : toSrv'[k] = toSrv[k]
    BY <1>1, <1>3 DEF Transmit
<1>5. \A k \in 1..Len(toSrv') :
          \/ k \in 1..Len(toSrv) /\ toSrv'[k] = toSrv[k]
          \/ k = Len(toSrv') /\ toSrv'[k] = cmd
    BY <1>3, <1>4
<1>6. Places'
    BY <1>1 DEF IInv, Places
<1>7. Pipeline'
    <2>1. LateIsLast'
        BY <1>1, <1>2, <1>5 DEF LateIsLast
    <2>2. EarlyIsGone'
        BY <1>1, <1>2, <1>5 DEF EarlyIsGone
    <2>3. AllHonest'
        BY <1>1 DEF IInv, Pipeline, AllHonest, Honest
    <2> QED
        BY <2>1, <2>2, <2>3 DEF Pipeline
<1>8. Judgement'
    <2>1. Body \notin okd \cup refused /\ result = "none"
        BY <1>1 DEF IInv, Judgement, JudgedOnce, Places
    <2> QED
        BY <1>1, <2>1 DEF Judgement, JudgedOnce, Settled
<1>9. ReplyMatchesCommand' /\ EarlierGranted'
    BY <1>1 DEF IInv, ReplyMatchesCommand, EarlierGranted, Named
<1> QED
    BY <1>6, <1>7, <1>8, <1>9 DEF IInv

LEMMA CrashStep ==
    ASSUME IInv, Typed', WriteOnDeadLink
    PROVE  IInv'
<1>1. /\ pc \in {"send", "body"} /\ pc' = "crashed" /\ conn = "down" /\ inbox = <<>>
      /\ UNCHANGED <<cmd, result, acted, conn, toSrv, net, inbox, okd, refused>>
    BY DEF WriteOnDeadLink, Connected, link, server, IInv, Typed, TypeOK
<1>2. \A k \in 1..Len(toSrv) : toSrv[k].stage \notin LateStages
    BY <1>1, NothingUnderWay
<1>3. net = <<>>
    BY <1>1 DEF IInv, Places
<1>4. Places'
    BY <1>1 DEF IInv, Places
<1>5. Pipeline'
    BY <1>1, <1>2, <1>3
    DEF IInv, Pipeline, LateIsLast, EarlyIsGone, AllHonest
<1>6. Judgement'
    BY <1>1 DEF IInv, Judgement, JudgedOnce, Settled, Places
<1>7. ReplyMatchesCommand' /\ EarlierGranted'
    BY <1>1 DEF IInv, ReplyMatchesCommand, EarlierGranted, Named
<1> QED
    BY <1>4, <1>5, <1>6, <1>7 DEF IInv

-----------------------------------------------------------------------------
\* The steps of the server and the network.

\* One more line of a reply to an early stage.
LEMMA ServeLineStep ==
    ASSUME IInv, Typed', ServeLine
    PROVE  IInv'
<1> DEFINE h == Head(toSrv)
<1>1. /\ 1 \in 1..Len(toSrv) /\ h = toSrv[1] /\ h.stage \in EarlyStages
      /\ UNCHANGED <<pc, cmd, result, acted, conn, toSrv, inbox, okd, refused>>
    BY ReplyAssumption DEF ServeLine, IInv, Typed, TypeOK, client, server
<1> HIDE DEF h
<1>2. PICK code \in {OkCode(h.stage), NoCode} : Reply(code, h)
    BY DEF ServeLine, h
<1> DEFINE p == [code |-> code, cmd |-> h]
<1>3. net' = net \/ net' = Append(net, p)
    BY <1>2 DEF Reply
<1>4. p.cmd = h /\ p.code = code /\ h.stage \notin LateStages /\ h # Body
    BY <1>1 DEF EarlyStages, LateStages, Body, Cmd
<1>5. Honest(p)
    BY <1>4 DEF Honest
<1> HIDE DEF p
<1>6. \A k \in 1..Len(net') : (k \in 1..Len(net) /\ net'[k] = net[k]) \/ net'[k] = p
    BY <1>3 DEF IInv, Typed, TypeOK
<1>7. /\ \A k \in 1..Len(net) : net[k].cmd.stage \notin LateStages
      /\ \A k \in 1..Len(inbox) : inbox[k].cmd.stage \notin LateStages
      /\ cmd.stage \notin LateStages \ {"AUTH"}
    BY <1>1, <1>4 DEF IInv, Pipeline, LateIsLast, EarlyIsGone
<1>8. Pipeline'
    <2>1. LateIsLast'
        BY <1>1, <1>4, <1>6, <1>7 DEF IInv, Pipeline, LateIsLast
    <2>2. EarlyIsGone'
        BY <1>1, <1>7 DEF EarlyIsGone
    <2>3. AllHonest'
        BY <1>1, <1>5, <1>6 DEF IInv, Pipeline, AllHonest, Honest
    <2> QED
        BY <2>1, <2>2, <2>3 DEF Pipeline
<1>9. Places'
    BY <1>1, <1>2 DEF IInv, Places, Reply
<1>10. Judgement' /\ ReplyMatchesCommand' /\ EarlierGranted'
    BY <1>1 DEF IInv, Judgement, JudgedOnce, Settled, ReplyMatchesCommand,
                EarlierGranted, Named
<1> QED
    BY <1>8, <1>9, <1>10 DEF IInv

\* The verdict on a command.
LEMMA ServeStep ==
    ASSUME IInv, Typed', ServeOk \/ ServeErr
    PROVE  IInv'
<1>1. PICK h : h = Head(toSrv)
    OBVIOUS
<1>2. /\ toSrv # <<>> /\ 1 \in 1..Len(toSrv) /\ h = toSrv[1]
      /\ h \in Commands /\ h.stage \in Stages
      /\ toSrv' = Tail(toSrv)
      /\ UNCHANGED <<pc, cmd, result, acted, conn, inbox>>
    BY <1>1 DEF ServeOk, ServeErr, IInv, Typed, TypeOK, client, Commands
<1>3. \/ okd' = okd \cup {h} /\ refused' = refused
      \/ okd' = okd /\ refused' = refused \cup {h}
    BY <1>1 DEF ServeOk, ServeErr
<1>4. PICK p : /\ \/ net' = net
                  \/ conn = "up" /\ net' = Append(net, p)
               /\ p.cmd = h
               /\ p.code \in {OkCode(h.stage), Err, NoCode}
               /\ p.code = OkCode(h.stage) => h \in okd'
               /\ p.code = Err => h \in refused'
    <2>1. OkCode(h.stage) \notin {Err, NoCode}
        BY <1>2, OkCodes DEF Err, NoCode
    <2>2. CASE ServeOk
        <3>1. PICK code \in {OkCode(h.stage), NoCode} : Reply(code, h)
            BY <1>1, <2>2 DEF ServeOk
        <3>2. h \in okd'
            BY <1>1, <2>2 DEF ServeOk
        <3>3. code # Err
            BY <2>1, <3>1 DEF Err, NoCode
        <3> QED
            BY <3>1, <3>2, <3>3 DEF Reply
    <2>3. CASE ServeErr
        <3>1. PICK code \in {Err, NoCode} : Reply(code, h)
            BY <1>1, <2>3 DEF ServeErr
        <3>2. h \in refused'
            BY <1>1, <2>3 DEF ServeErr
        <3>3. code # OkCode(h.stage)
            BY <2>1, <3>1
        <3> QED
            BY <3>1, <3>2, <3>3 DEF Reply
    <2> QED
        BY <2>2, <2>3
<1>5. Honest(p)'
    BY <1>4 DEF Honest
<1>6. \A k \in 1..Len(net') :
          \/ k \in 1..Len(net) /\ net'[k] = net[k]
          \/ k = Len(net') /\ net'[k] = p /\ conn = "up"
    BY <1>4 DEF IInv, Typed, TypeOK
<1>7. /\ \A k \in 1..Len(net) : net[k].cmd.stage \notin LateStages
      /\ \A k \in 1..Len(inbox) : inbox[k].cmd.stage \notin LateStages
    BY <1>2 DEF IInv, Pipeline, LateIsLast
<1>8. /\ Len(toSrv') = Len(toSrv) - 1
      /\ \A k \in 1..Len(toSrv') : k + 1 \in 1..Len(toSrv) /\ toSrv'[k] = toSrv[k + 1]
    BY <1>2 DEF IInv, Typed, TypeOK
<1>9. h.stage \in LateStages =>
          1 = Len(toSrv) /\ h = cmd /\ pc \in {"wait", "done"} /\ toSrv' = <<>>
    <2>1. h.stage \in LateStages =>
              1 = Len(toSrv) /\ h = cmd /\ pc \in {"wait", "done"}
        BY <1>2 DEF IInv, Pipeline, LateIsLast
    <2>2. 1 = Len(toSrv) => toSrv' = <<>>
        <3>1. toSrv' \in Seq(Commands)
            BY DEF Typed, TypeOK
        <3>2. 1 = Len(toSrv) => Len(toSrv') = 0
            BY <1>8
        <3> QED
            BY <3>1, <3>2, LengthZero
    <2> QED
        BY <2>1, <2>2
<1>10. conn = "up" => pc # "done"
    BY DEF IInv, Places
<1>11. LateIsLast'
    <2>1. \A k \in 1..Len(toSrv') : toSrv'[k].stage \in LateStages =>
              k = Len(toSrv') /\ toSrv'[k] = cmd /\ pc \in {"wait", "done"}
        BY <1>8 DEF IInv, Pipeline, LateIsLast
    <2>2. \A k \in 1..Len(net') : net'[k].cmd.stage \in LateStages =>
              k = Len(net') /\ toSrv' = <<>> /\ net'[k].cmd = cmd /\ pc = "wait"
        BY <1>4, <1>6, <1>7, <1>9, <1>10
    <2> QED
        BY <1>2, <1>7, <2>1, <2>2 DEF LateIsLast
<1>12. EarlyIsGone'
    BY <1>2, <1>4, <1>6, <1>8 DEF IInv, Pipeline, EarlyIsGone
<1>13. AllHonest'
    <2>1. \A q : Honest(q) => Honest(q)'
        BY <1>3 DEF Honest
    <2> QED
        BY <1>2, <1>5, <1>6, <2>1 DEF IInv, Pipeline, AllHonest
<1>14. Places'
    <2>1. conn = "down" => net' = <<>>
        BY <1>4 DEF IInv, Places
    <2> QED
        BY <1>2, <2>1 DEF IInv, Places
<1>15. Judgement'
    <2>1. Body.stage \in LateStages
        BY DEF Body, Cmd, LateStages
    <2>2. CASE h = Body
        <3>1. toSrv' = <<>> /\ cmd = Body /\ pc \in {"wait", "done"}
            BY <1>9, <2>1, <2>2
        <3>2. Body \notin okd \cup refused /\ result # "false"
            BY <1>2, <2>2 DEF IInv, Judgement, JudgedOnce, Settled
        <3> QED
            BY <1>2, <1>3, <2>2, <3>1, <3>2 DEF Judgement, JudgedOnce, Settled
    <2>3. CASE h # Body
        <3>1. /\ Body \in okd' <=> Body \in okd
              /\ Body \in refused' <=> Body \in refused
            BY <1>3, <2>3
        <3> QED
            BY <1>2, <1>8, <3>1 DEF IInv, Judgement, JudgedOnce, Settled
    <2> QED
        BY <2>2, <2>3
<1>16. ReplyMatchesCommand' /\ EarlierGranted'
    BY <1>2, <1>3 DEF IInv, ReplyMatchesCommand, EarlierGranted, Named
<1> QED
    BY <1>11, <1>12, <1>13, <1>14, <1>15, <1>16 DEF IInv, Pipeline

LEMMA DeliverStep ==
    ASSUME IInv, Typed', Deliver
    PROVE  IInv'
<1>1. PICK p : p = net[1]
    OBVIOUS
<1>2. /\ net # <<>> /\ 1 \in 1..Len(net) /\ Head(net) = p
      /\ inbox' = Append(inbox, p) /\ net' = Tail(net)
      /\ UNCHANGED <<pc, cmd, result, acted, conn, toSrv, okd, refused>>
    BY <1>1 DEF Deliver, client, server, IInv, Typed, TypeOK
<1>3. /\ Len(net') = Len(net) - 1
      /\ \A k \in 1..Len(net') : k + 1 \in 1..Len(net) /\ net'[k] = net[k + 1]
    BY <1>2 DEF IInv, Typed, TypeOK
<1>4. \A k \in 1..Len(inbox') :
          \/ k \in 1..Len(inbox) /\ inbox'[k] = inbox[k]
          \/ k = Len(inbox') /\ inbox'[k] = p
    BY <1>2 DEF IInv, Typed, TypeOK
<1>5. \A k \in 1..Len(inbox) : inbox[k].cmd.stage \notin LateStages
    BY <1>2 DEF IInv, Pipeline, LateIsLast
<1>6. p.cmd.stage \in LateStages =>
          net' = <<>> /\ toSrv = <<>> /\ p.cmd = cmd /\ pc = "wait"
    <2>1. p.cmd.stage \in LateStages =>
              1 = Len(net) /\ toSrv = <<>> /\ p.cmd = cmd /\ pc = "wait"
        BY <1>1, <1>2 DEF IInv, Pipeline, LateIsLast
    <2>2. 1 = Len(net) => net' = <<>>
        <3>1. net' \in Seq(Pieces)
            BY DEF Typed, TypeOK
        <3>2. 1 = Len(net) => Len(net') = 0
            BY <1>3
        <3> QED
            BY <3>1, <3>2, LengthZero
    <2> QED
        BY <2>1, <2>2
<1>7. LateIsLast'
    <2>1. \A k \in 1..Len(net') : net'[k].cmd.stage \in LateStages =>
              k = Len(net') /\ toSrv = <<>> /\ net'[k].cmd = cmd /\ pc = "wait"
        BY <1>3 DEF IInv, Pipeline, LateIsLast
    <2>2. \A k \in 1..Len(inbox') : inbox'[k].cmd.stage \in LateStages =>
              /\ k = Len(inbox') /\ net' = <<>> /\ toSrv = <<>>
              /\ inbox'[k].cmd = cmd /\ pc = "wait"
        BY <1>4, <1>5, <1>6
    <2> QED
        BY <1>2, <2>1, <2>2 DEF IInv, Pipeline, LateIsLast
<1>8. EarlyIsGone'
    BY <1>1, <1>2, <1>3, <1>4 DEF IInv, Pipeline, EarlyIsGone
<1>9. AllHonest'
    BY <1>1, <1>2, <1>3, <1>4 DEF IInv, Pipeline, AllHonest, Honest
<1>10. Places'
    <2>1. conn = "up"
        BY <1>2 DEF IInv, Places, Typed, TypeOK
    <2> QED
        BY <1>2, <2>1 DEF IInv, Places
<1>11. Judgement' /\ ReplyMatchesCommand' /\ EarlierGranted'
    BY <1>2 DEF IInv, Judgement, JudgedOnce, Settled, ReplyMatchesCommand,
                EarlierGranted, Named
<1> QED
    BY <1>7, <1>8, <1>9, <1>10, <1>11 DEF IInv, Pipeline

LEMMA DisconnectStep ==
    ASSUME IInv, Typed', Disconnect
    PROVE  IInv'
<1>1. /\ conn = "up" /\ conn' = "down" /\ net' = <<>>
      /\ UNCHANGED <<pc, cmd, result, acted, toSrv, inbox, okd, refused>>
    BY DEF Disconnect, client, server
<1>2. Places'
    BY <1>1 DEF IInv, Places
<1>3. Pipeline'
    BY <1>1 DEF IInv, Pipeline, LateIsLast, EarlyIsGone, AllHonest, Honest
<1>4. Judgement' /\ ReplyMatchesCommand' /\ EarlierGranted'
    BY <1>1 DEF IInv, Judgement, JudgedOnce, Settled, ReplyMatchesCommand,
                EarlierGranted, Named
<1> QED
    BY <1>2, <1>3, <1>4 DEF IInv

-----------------------------------------------------------------------------
\* Every step.

LEMMA IInvStep == IInv /\ [Next]_vars => IInv'
<1> SUFFICES ASSUME IInv, [Next]_vars PROVE IInv'
    OBVIOUS
<1>1. Typed'
    BY TypedStep DEF IInv
<1>2. CASE ConnectFails \/ ConnectSucceeds
    BY <1>1, <1>2, ConnectStep
<1>3. CASE SendCommand \/ EndBody
    BY <1>1, <1>3, SendStep
<1>4. CASE WriteOnDeadLink
    BY <1>1, <1>4, CrashStep
<1>5. CASE SendText
    BY <1>1, <1>5, FrameStep DEF SendText, link, server
<1>6. ASSUME NEW p \in 1..Len(Attachments), SendAttachment(p) \/ SkipFile(p)
      PROVE  IInv'
    BY <1>1, <1>6, FrameStep DEF SendAttachment, SkipFile, link, server
<1>7. CASE ReadReply \/ GiveUp
    <2>1. PICK reply : Waited(reply) /\ Handle(reply) /\ pc = "wait"
        BY <1>7 DEF ReadReply, GiveUp, Waited
    <2>2. CASE StageAccepted(reply)
        BY <1>1, <2>1, <2>2, AcceptedStep
    <2>3. CASE FallBackToHelo(reply)
        BY <1>1, <2>1, <2>3, FallBackStep
    <2>4. CASE StageFailed(reply)
        BY <1>1, <2>1, <2>4, FailedStep
    <2> QED
        BY <2>1, <2>2, <2>3, <2>4 DEF Handle
<1>8. CASE ServeLine
    BY <1>1, <1>8, ServeLineStep
<1>9. CASE ServeOk \/ ServeErr
    BY <1>1, <1>9, ServeStep
<1>10. CASE Deliver
    BY <1>1, <1>10, DeliverStep
<1>11. CASE Disconnect
    BY <1>1, <1>11, DisconnectStep
<1>12. CASE UNCHANGED vars
    BY <1>1, <1>12, FrameStep DEF vars, client, link, server
<1> QED
    BY <1>2, <1>3, <1>4, <1>5, <1>6, <1>7, <1>8, <1>9, <1>10, <1>11, <1>12
    DEF Next, SendMail, Environment

THEOREM Inductive == Spec => []IInv
BY IInvInit, IInvStep, PTL DEF Spec, Safe

\* From AUTH on the session goes on only with the reply to the command it
\* waited for, the end of the message excepted.
THEOREM RepliesMatch == Spec => []ReplyMatchesCommand
<1>1. IInv => ReplyMatchesCommand
    BY DEF IInv
<1> QED
    BY <1>1, Inductive, PTL

\* The session reaches a command only when every earlier one was granted,
\* each recipient by name.
THEOREM GrantedInOrder == Spec => []EarlierGranted
<1>1. IInv => EarlierGranted
    BY DEF IInv
<1> QED
    BY <1>1, Inductive, PTL

\* After false the server does not hold the message.
THEOREM SafeToRetry == Spec => []RetrySafe
<1>1. IInv => RetrySafe
    BY DEF IInv, Judgement, Settled, RetrySafe, Body
<1> QED
    BY <1>1, Inductive, PTL

-----------------------------------------------------------------------------
\* The promise to the caller.

\* A step that leaves the fate and the answer alone.
LEMMA Stutter ==
    ASSUME UNCHANGED <<Fate, Answer>>
    PROVE  [Promise!Next]_Promise!vars
BY DEF Promise!vars

\* Nothing has become of the message as long as its dot was not sent.
LEMMA NoFate ==
    ASSUME IInv, cmd.stage # "BODY" \/ pc \notin {"wait", "done"}
    PROVE  Fate = "none" /\ Body \notin okd \cup refused
<1>1. Body \notin okd \cup refused
    BY DEF IInv, Judgement, JudgedOnce, Body, Cmd
<1> QED
    BY <1>1 DEF Fate, Body

LEMMA PromiseWait ==
    ASSUME IInv, IInv', pc = "wait", NEW reply, Waited(reply), Handle(reply)
    PROVE  [Promise!Next]_Promise!vars
<1>1. Answer = "none" /\ UNCHANGED <<okd, refused>>
    BY DEF Answer, Handle, server, IInv, Places, Typed, TypeOK
<1>2. CASE StageAccepted(reply) /\ cmd.stage = "BODY"
    <2>1. pc' = "done" /\ result' = "true" /\ cmd'.stage = "BODY"
        BY <1>2 DEF StageAccepted, Return, After, Cmd
    <2>2. Fate # "none" /\ Fate' = Fate
        BY <1>1, <1>2, <2>1 DEF Fate
    <2>3. Answer' = "true"
        BY <2>1 DEF Answer
    <2> QED
        BY <1>1, <2>2, <2>3 DEF Promise!Next, Promise!ReturnTrue
<1>3. CASE StageAccepted(reply) /\ cmd.stage # "BODY"
    <2>1. pc' \in {"send", "body"} /\ result' = result
        BY <1>3 DEF StageAccepted
    <2>2. Fate = "none" /\ Body \notin okd \cup refused
        BY <1>3, NoFate
    <2>3. Fate' = "none"
        BY <1>1, <2>1, <2>2 DEF Fate, Body
    <2>4. Answer' = Answer
        BY <2>1 DEF Answer
    <2> QED
        BY <2>2, <2>3, <2>4, Stutter
<1>4. CASE FallBackToHelo(reply)
    <2>1. pc' = "send" /\ result' = result /\ cmd.stage # "BODY"
        BY <1>4 DEF FallBackToHelo
    <2>2. Fate = "none" /\ Body \notin okd \cup refused
        BY <2>1, NoFate
    <2>3. Fate' = "none"
        BY <1>1, <2>1, <2>2 DEF Fate, Body
    <2>4. Answer' = Answer
        BY <2>1 DEF Answer
    <2> QED
        BY <2>2, <2>3, <2>4, Stutter
<1>5. CASE StageFailed(reply)
    <2>1. pc' = "done" /\ result' = "false" /\ cmd' = cmd
        BY <1>5 DEF StageFailed, Return
    <2>2. Fate' = Fate /\ Answer' = "false"
        BY <1>1, <2>1 DEF Fate, Answer
    <2>3. Fate \in {"none", "rejected"}
        <3>1. CASE cmd.stage # "BODY"
            BY <3>1, NoFate
        <3>2. CASE cmd.stage = "BODY"
            <4>1. cmd = Body
                BY <3>2 DEF IInv, Typed, WellFormed, Body
            <4>2. Body \in refused
                BY <1>5, <4>1, FailedBody
            <4> QED
                BY <4>2 DEF Fate, Body, IInv, Judgement, JudgedOnce
        <3> QED
            BY <3>1, <3>2
    <2> QED
        BY <1>1, <2>2, <2>3 DEF Promise!Next, Promise!ReturnFalse
<1> QED
    BY <1>2, <1>3, <1>4, <1>5 DEF Handle

LEMMA PromiseServe ==
    ASSUME IInv, IInv', ServeOk \/ ServeErr
    PROVE  [Promise!Next]_Promise!vars
<1>1. PICK h : h = Head(toSrv)
    OBVIOUS
<1>2. /\ 1 \in 1..Len(toSrv) /\ h = toSrv[1]
      /\ UNCHANGED <<pc, cmd, result>>
    BY <1>1 DEF ServeOk, ServeErr, client, IInv, Typed, TypeOK
<1>3. \/ okd' = okd \cup {h} /\ refused' = refused
      \/ okd' = okd /\ refused' = refused \cup {h}
    BY <1>1 DEF ServeOk, ServeErr
<1>4. Answer' = Answer
    BY <1>2 DEF Answer
<1>5. CASE h # Body
    <2>1. Fate' = Fate
        BY <1>2, <1>3, <1>5 DEF Fate, Body
    <2> QED
        BY <1>4, <2>1, Stutter
<1>6. CASE h = Body
    <2>1. Body.stage \in LateStages /\ Body.stage = "BODY"
        BY DEF Body, Cmd, LateStages
    <2>2. cmd = Body /\ pc \in {"wait", "done"}
        BY <1>2, <1>6, <2>1 DEF IInv, Pipeline, LateIsLast
    <2>3. Body \notin okd \cup refused
        BY <1>2, <1>6 DEF IInv, Judgement, JudgedOnce
    <2>4. Fate = "handed"
        BY <2>1, <2>2, <2>3 DEF Fate, Body
    <2>5. Fate' \in {"accepted", "rejected"}
        BY <1>3, <1>6 DEF Fate, Body
    <2> QED
        BY <1>4, <2>4, <2>5 DEF Promise!Next, Promise!Verdict
<1> QED
    BY <1>5, <1>6

LEMMA PromiseInit == Init => Promise!Init
<1> SUFFICES ASSUME Init PROVE Promise!Init
    OBVIOUS
<1>1. cmd.stage # "BODY" /\ okd = {} /\ refused = {}
    BY DEF Init, Cmd
<1>2. pc = "idle" /\ result = "none"
    BY DEF Init
<1> QED
    BY <1>1, <1>2 DEF Promise!Init, Fate, Answer

LEMMA PromiseStep == IInv /\ IInv' /\ [Next]_vars => [Promise!Next]_Promise!vars
<1> SUFFICES ASSUME IInv, IInv', [Next]_vars PROVE [Promise!Next]_Promise!vars
    OBVIOUS
<1> USE DEF link, server
<1>1. CASE ConnectFails
    <2>1. pc = "idle" /\ pc' = "done" /\ result' = "false" /\ UNCHANGED <<cmd, okd, refused>>
        BY <1>1 DEF ConnectFails
    <2>2. Fate = "none" /\ Answer = "none"
        BY <2>1, NoFate DEF Answer, IInv, Places, Typed, TypeOK
    <2>3. Fate' = "none" /\ Answer' = "false"
        <3>1. cmd.stage # "BODY" /\ Body \notin okd \cup refused
            BY <2>1, NoFate DEF IInv, Places
        <3> QED
            BY <2>1, <3>1 DEF Fate, Answer, Body
    <2> QED
        BY <2>2, <2>3 DEF Promise!Next, Promise!ReturnFalse
<1>2. CASE ConnectSucceeds
    <2>1. /\ pc = "idle" /\ pc' \in {"send", "wait"} /\ cmd'.stage # "BODY"
          /\ UNCHANGED <<result, okd, refused>>
        BY <1>2 DEF ConnectSucceeds, Cmd
    <2>2. Fate = "none" /\ Fate' = "none"
        BY <2>1, NoFate DEF Fate, Body
    <2>3. Answer' = Answer
        BY <2>1 DEF Answer
    <2> QED
        BY <2>2, <2>3, Stutter
<1>3. CASE SendCommand
    <2>1. /\ pc = "send" /\ pc' = "wait" /\ cmd.stage # "BODY"
          /\ UNCHANGED <<cmd, result, okd, refused>>
        BY <1>3 DEF SendCommand, IInv, Places
    <2>2. Fate' = Fate /\ Answer' = Answer
        BY <2>1 DEF Fate, Answer
    <2> QED
        BY <2>2, Stutter
<1>4. CASE EndBody
    <2>1. /\ pc = "body" /\ pc' = "wait" /\ cmd.stage = "BODY"
          /\ UNCHANGED <<cmd, result, okd, refused>>
        BY <1>4 DEF EndBody, IInv, Places
    <2>2. Fate = "none" /\ Body \notin okd \cup refused
        BY <2>1, NoFate
    <2>3. Fate' = "handed"
        BY <2>1, <2>2 DEF Fate, Body
    <2>4. Answer = "none" /\ Answer' = "none"
        BY <2>1 DEF Answer, IInv, Places
    <2> QED
        BY <2>2, <2>3, <2>4 DEF Promise!Next, Promise!HandOver
<1>5. CASE WriteOnDeadLink
    <2>1. /\ pc \in {"send", "body"} /\ pc' = "crashed"
          /\ UNCHANGED <<cmd, result, okd, refused>>
        BY <1>5 DEF WriteOnDeadLink
    <2>2. Fate = "none" /\ Body \notin okd \cup refused
        BY <2>1, NoFate
    <2>3. Fate' = "none"
        BY <2>1, <2>2 DEF Fate, Body
    <2>4. Answer = "none" /\ Answer' = "crashed"
        BY <2>1 DEF Answer, IInv, Places
    <2> QED
        BY <2>2, <2>3, <2>4 DEF Promise!Next, Promise!Crash
<1>6. CASE \/ SendText \/ ServeLine \/ Deliver \/ Disconnect \/ UNCHANGED vars
           \/ \E p \in 1..Len(Attachments) : SendAttachment(p) \/ SkipFile(p)
    <2>1. UNCHANGED <<pc, cmd, result, okd, refused>>
        BY <1>6 DEF SendText, ServeLine, Deliver, Disconnect, SendAttachment,
                    SkipFile, vars, client
    <2>2. Fate' = Fate /\ Answer' = Answer
        BY <2>1 DEF Fate, Answer
    <2> QED
        BY <2>2, Stutter
<1>7. CASE ReadReply \/ GiveUp
    <2>1. PICK reply : Waited(reply) /\ Handle(reply) /\ pc = "wait"
        BY <1>7 DEF ReadReply, GiveUp, Waited
    <2> QED
        BY <2>1, PromiseWait
<1>8. CASE ServeOk \/ ServeErr
    BY <1>8, PromiseServe
<1> QED
    BY <1>1, <1>2, <1>3, <1>4, <1>5, <1>6, <1>7, <1>8
    DEF Next, SendMail, Environment

\* sendMail implements MailTransfer: it answers once, true only after the
\* message was handed over, and false only when the server does not have it.
THEOREM PromiseKept == Spec => KeepsPromise
<1>1. Spec => []IInv
    BY Inductive
<1> QED
    BY <1>1, PromiseInit, PromiseStep, PTL
    DEF Spec, Safe, KeepsPromise, Promise!Spec
=============================================================================
