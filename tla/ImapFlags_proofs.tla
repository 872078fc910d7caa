-------------------------- MODULE ImapFlags_proofs --------------------------
(***************************************************************************)
(* If _setFlag returns true and no wait was given up, the server took the  *)
(* flags.  Neither the tag nor the reader of the reply to STORE tells      *)
(* which command an " OK " is for; what does is that, while no wait was    *)
(* given up, nothing is under way when a command is sent.                  *)
(***************************************************************************)
EXTENDS ImapFlags, SequenceTheorems, TLAPS

\* Nothing is under way between the client and the server.
Quiet == toSrv = <<>> /\ owed = <<>> /\ inbox = <<>>

\* A connection that is down brings nothing more.
Down == conn = "down" => toSrv = <<>> /\ owed = <<>>

\* A line with " OK " in it answers a command the server granted, and no line
\* announces a literal.
Truthful(lines) ==
    \A k \in DOMAIN lines :
       /\ lines[k].kind \in {"ok", "okcap"} => lines[k].of \in granted
       /\ lines[k].size = 0

\* Lines of a reply to c, of which only the last one has the tag.
Answering(lines, c) ==
    \A k \in DOMAIN lines :
       /\ lines[k].of = c
       /\ lines[k].kind \in Tagged => k = Len(lines)

\* What is under way, as long as no wait was given up: while the client waits,
\* only its command or the reply to it.
Current ==
    /\ stage \in {"connect", "send"} => Quiet
    /\ stage \in {"first", "lines"} =>
         /\ \A k \in DOMAIN toSrv : toSrv[k] = cmd
         /\ Len(toSrv) <= 1
         /\ Answering(inbox, cmd) /\ Answering(owed, cmd)
         /\ toSrv # <<>> => owed = <<>> /\ inbox = <<>>
         /\ \A k \in DOMAIN inbox : inbox[k].kind \in Tagged => owed = <<>>
    /\ stage = "lines" /\ wait.complete => Quiet
    /\ stage = "decide" /\ (wait.valid \/ cmd # "STORE") => Quiet

\* ... and once the client took the reply to STORE for a yes, it was one.
Stored ==
    /\ stage = "decide" /\ cmd = "STORE" /\ wait.valid => "STORE" \in granted
    /\ cmd = "LOGOUT" => "STORE" \in granted

\* The tries that are left, and what the waits are for.
Waiting ==
    /\ stage = "connect" => tries <= MaxTries
    /\ stage = "first" => wait = NewWait
    /\ stage = "lines" => cmd # "STORE" /\ wait.payload = 0
    /\ result = "true" => cmd = "LOGOUT"

IInv ==
    /\ TypeOK /\ Down /\ Waiting /\ Truthful(inbox) /\ Truthful(owed)
    /\ ~late => Current /\ Stored

-----------------------------------------------------------------------------
\* Sequences of lines.

LEMMA NoLines ==
    /\ <<>> \in Seq(ReplyLines) /\ <<>> \in Seq(Commands) /\ Len(<<>>) = 0
    /\ Truthful(<<>>) /\ \A c : Answering(<<>>, c)
BY DEF Truthful, Answering

\* A reply has one line or two, of which the last has the tag, and says yes
\* only if it grants the command.
LEMMA ReplyShape ==
    ASSUME NEW c \in Commands, NEW r \in Yes(c) \cup No(c)
    PROVE  /\ Lines(r, c) \in Seq(ReplyLines) /\ Answering(Lines(r, c), c)
           /\ \A k \in DOMAIN Lines(r, c) :
                 /\ Lines(r, c)[k].of = c /\ Lines(r, c)[k].size = 0
                 /\ Lines(r, c)[k].kind \in {"ok", "okcap"} => r \in Yes(c)
<1>1. /\ r \in {<<"ok">>, <<"okcap">>, <<"data", "ok">>, <<"no">>, <<"bad">>}
      /\ r \in {<<"no">>, <<"bad">>} \/ r \in Yes(c)
  BY DEF Yes, No
<1>2. PICK n \in Nat :
        /\ DOMAIN r = 1 .. n
        /\ \A k \in 1 .. n : /\ r[k] \in {"data", "ok", "okcap", "no", "bad"}
                             /\ r[k] \in Tagged => k = n
                             /\ r[k] \in {"ok", "okcap"} => r \in Yes(c)
  <2>1. CASE r \in {<<"ok">>, <<"okcap">>, <<"no">>, <<"bad">>}
    <3>1. DOMAIN r = 1 .. 1 /\ r[1] \in {"ok", "okcap", "no", "bad"}
      BY <2>1
    <3>2. r[1] \in {"ok", "okcap"} => r \in Yes(c)
      BY <1>1
    <3> QED
      BY <3>1, <3>2
  <2>2. CASE r = <<"data", "ok">>
    <3>1. DOMAIN r = 1 .. 2 /\ r[1] = "data" /\ r[2] = "ok"
      BY <2>2
    <3>2. r \in Yes(c)
      BY <1>1, <2>2
    <3> QED
      BY <3>1, <3>2 DEF Tagged
  <2> QED
    BY <1>1, <2>1, <2>2
<1> DEFINE L == Lines(r, c)
<1>3. /\ DOMAIN L = 1 .. n
      /\ \A k \in 1 .. n : L[k] = [kind |-> r[k], size |-> 0, of |-> c]
  BY <1>2 DEF Lines, Line
<1>4. L \in [1 .. n -> ReplyLines]
  <2>1. L = [k \in 1 .. n |-> L[k]]
    BY <1>2 DEF Lines
  <2>2. \A k \in 1 .. n : L[k] \in ReplyLines
    BY <1>2, <1>3 DEF ReplyLines, Kinds
  <2> HIDE DEF L
  <2> QED
    BY <2>1, <2>2
<1> HIDE DEF L
<1>5. L \in Seq(ReplyLines) /\ Len(L) = n
  <2>1. L \in Seq(ReplyLines)
    BY <1>2, <1>4, SeqDef
  <2>2. DOMAIN L = 1 .. Len(L) /\ Len(L) \in Nat
    BY <2>1, LenProperties
  <2> QED
    BY <1>3, <2>1, <2>2
<1>6. Answering(L, c)
  BY <1>2, <1>3, <1>5 DEF Answering
<1> QED
  BY <1>2, <1>3, <1>5, <1>6 DEF L

\* One line read.
LEMMA OneRead ==
    ASSUME NEW S, NEW s \in Seq(S), s # <<>>
    PROVE  /\ Tail(s) \in Seq(S) /\ Head(s) = s[1] /\ Head(s) \in S
           /\ 1 \in DOMAIN s /\ Len(s) \in Nat /\ Len(s) >= 1
           /\ DOMAIN s = 1 .. Len(s) /\ Len(Tail(s)) = Len(s) - 1
           /\ \A k \in DOMAIN Tail(s) : k + 1 \in DOMAIN s /\ Tail(s)[k] = s[k + 1]
           /\ Len(s) = 1 => Tail(s) = <<>>
<1>1. /\ Len(s) \in Nat /\ DOMAIN s = 1 .. Len(s) /\ Len(s) >= 1
  BY LenProperties, EmptySeq
<1>2. /\ Head(s) \in S /\ Tail(s) \in Seq(S) /\ Len(Tail(s)) = Len(s) - 1
      /\ \A i \in 1 .. Len(Tail(s)) : Tail(s)[i] = s[i + 1]
  BY HeadTailProperties
<1>3. DOMAIN Tail(s) = 1 .. Len(Tail(s))
  BY <1>2, LenProperties
<1>4. ASSUME Len(s) = 1 PROVE Tail(s) = <<>>
  <2>1. Len(Tail(s)) = 0
    BY <1>2, <1>4
  <2>2. Tail(s) # <<>> => Len(Tail(s)) \in Nat \ {0}
    BY <1>2, EmptySeq
  <2> QED
    BY <2>1, <2>2
<1> QED
  BY <1>1, <1>2, <1>3, <1>4

\* One line more.
LEMMA OneMore ==
    ASSUME NEW S, NEW s \in Seq(S), NEW e \in S
    PROVE  /\ Append(s, e) \in Seq(S) /\ Len(Append(s, e)) = Len(s) + 1
           /\ Len(s) \in Nat /\ DOMAIN s = 1 .. Len(s)
           /\ DOMAIN Append(s, e) = 1 .. (Len(s) + 1)
           /\ \A k \in DOMAIN s : Append(s, e)[k] = s[k]
           /\ Append(s, e)[Len(s) + 1] = e
<1>1. Len(s) \in Nat /\ DOMAIN s = 1 .. Len(s)
  BY LenProperties
<1>2. /\ Append(s, e) \in Seq(S) /\ Len(Append(s, e)) = Len(s) + 1
      /\ \A i \in 1 .. Len(s) : Append(s, e)[i] = s[i]
      /\ Append(s, e)[Len(s) + 1] = e
  BY AppendProperties
<1>3. DOMAIN Append(s, e) = 1 .. Len(Append(s, e))
  BY <1>2, LenProperties
<1> QED
  BY <1>1, <1>2, <1>3

-----------------------------------------------------------------------------
\* The types.

LEMMA TypeInit == Init => TypeOK
<1> SUFFICES ASSUME Init PROVE TypeOK
  OBVIOUS
<1>1. wait \in Wait
  BY DEF Init, NewWait, Wait
<1>2. tries \in 0 .. MaxTries + 1
  BY DEF Init, MaxTries
<1>3. toSrv \in Seq(Commands) /\ owed \in Seq(ReplyLines) /\ inbox \in Seq(ReplyLines)
  BY NoLines DEF Init
<1>4. /\ stage = "connect" /\ cmd \in Commands /\ status = "none" /\ result = "none"
      /\ conn = "down" /\ granted \subseteq Commands /\ late \in BOOLEAN
  BY DEF Init, Commands
<1> QED
  BY <1>1, <1>2, <1>3, <1>4 DEF TypeOK

\* A line read by waitIMAPResponse, which here never reads one of SEARCH.
LEMMA Taken ==
    ASSUME NEW w \in Wait, NEW line \in ReplyLines, NEW t \in {"LOGIN", "LIST", "EXAMINE"}
    PROVE  /\ Take(t, w, line) \in Wait
           /\ w.payload = 0 /\ line.size = 0 =>
                /\ Take(t, w, line).payload = 0
                /\ Take(t, w, line).complete => w.complete \/ line.kind \in Tagged
<1> DEFINE v == Take(t, w, line)
<1>1. v = [lf |-> 1, payload |-> IF w.lf = 0 THEN line.size ELSE w.payload,
           got |-> Read(w), valid |-> ValidAfter(t, w, line),
           complete |-> CompleteAfter(t, w, line), broken |-> FALSE]
  BY DEF Take
<1>2. Read(w) \in Nat
  BY DEF Read, Wait
<1>3. ValidAfter(t, w, line) \in BOOLEAN
  BY DEF ValidAfter, Wait
<1>4. CompleteAfter(t, w, line) \in BOOLEAN
  BY DEF CompleteAfter
<1>5. (IF w.lf = 0 THEN line.size ELSE w.payload) \in Nat
  BY DEF Wait, ReplyLines
<1>6. v \in Wait
  BY <1>1, <1>2, <1>3, <1>4, <1>5 DEF Wait
<1>7. ASSUME w.payload = 0, line.size = 0
      PROVE  v.payload = 0 /\ (v.complete => w.complete \/ line.kind \in Tagged)
  <2>1. v.payload = 0
    BY <1>1, <1>7
  <2>2. v.complete = CompleteAfter(t, w, line)
    BY <1>1
  <2>3. CompleteAfter(t, w, line) => w.complete \/ line.kind \in Tagged
    BY DEF CompleteAfter
  <2> QED
    BY <2>1, <2>2, <2>3
<1> QED
  BY <1>6, <1>7

LEMMA WaitTypes ==
    ASSUME NEW c \in Commands \ {"STORE"}
    PROVE  WaitType(c) \in {"LOGIN", "LIST", "EXAMINE"} /\ WaitType(c) \in Types
BY DEF WaitType, Commands, Types

\* What the client changes of its own.
LEMMA ClientTypes == ASSUME IInv, [Next]_vars
    PROVE  /\ stage' \in {"connect", "send", "first", "lines", "decide", "done", "crashed"}
           /\ cmd' \in Commands /\ (stage' = "lines" => cmd' # "STORE")
           /\ tries' \in 0 .. MaxTries + 1
           /\ status' \in {"none", "connect", "login", "bad", "flag"}
           /\ result' \in {"none", "true", "false"} /\ conn' \in {"up", "down"}
           /\ late' \in BOOLEAN
<1>0. /\ stage \in {"connect", "send", "first", "lines", "decide", "done", "crashed"}
      /\ cmd \in Commands /\ (stage = "lines" => cmd # "STORE")
      /\ tries \in 0 .. MaxTries + 1
      /\ status \in {"none", "connect", "login", "bad", "flag"}
      /\ result \in {"none", "true", "false"} /\ conn \in {"up", "down"}
      /\ late \in BOOLEAN
  BY DEF IInv, TypeOK, Waiting
<1>1. /\ stage' \in {"connect", "send", "first", "lines", "decide", "done", "crashed"}
      /\ cmd' \in Commands /\ (stage' = "lines" => cmd' # "STORE")
  <2>1. CASE Proceed
    BY <1>0, <2>1 DEF Proceed, After, Commands
  <2>2. CASE ~Proceed
    <3>1. cmd' = cmd
      BY <2>2 DEF Next, Client, vars, link, ConnectFails, ConnectSucceeds, Send, NullStream,
                  TimeOut, FirstByte, ReadLine, EndWait, ReadStored, Succeed, Fail,
                  Serve, Deliver, Disconnect
    <3>2. /\ stage' \in {stage, "send", "first", "lines", "decide", "done", "crashed"}
          /\ stage' = "lines" => stage = "lines" \/ cmd # "STORE"
      BY <2>2 DEF Next, Client, vars, link, ConnectFails, ConnectSucceeds, Send, NullStream,
                  TimeOut, FirstByte, ReadLine, EndWait, ReadStored, Succeed, Fail,
                  Serve, Deliver, Disconnect
    <3> QED
      BY <1>0, <3>1, <3>2
  <2> QED
    BY <2>1, <2>2
<1>2. tries' \in 0 .. MaxTries + 1
  <2>1. CASE ConnectFails
    <3>1. tries' = tries + 1 /\ tries <= MaxTries
      BY <2>1 DEF ConnectFails, IInv, Waiting
    <3> QED
      BY <1>0, <3>1 DEF MaxTries
  <2>2. CASE ~ConnectFails
    <3>1. tries' \in {tries, 0}
      BY <2>2 DEF Next, Client, vars, link, ConnectSucceeds, Send, NullStream,
                  TimeOut, FirstByte, ReadLine, EndWait, ReadStored, Proceed, Succeed, Fail,
                  Serve, Deliver, Disconnect
    <3> QED
      BY <1>0, <3>1 DEF MaxTries
  <2> QED
    BY <2>1, <2>2
<1>3. status' \in {status, "connect", "login", "bad", "flag"}
  BY DEF Next, Client, vars, link, ConnectFails, ConnectSucceeds, Send, NullStream,
         TimeOut, FirstByte, ReadLine, EndWait, ReadStored, Proceed, Succeed, Fail,
         Serve, Deliver, Disconnect, StatusOf
<1>4. result' \in {result, "true", "false"} /\ conn' \in {conn, "up", "down"}
  BY DEF Next, Client, vars, link, ConnectFails, ConnectSucceeds, Send, NullStream, Stop,
         TimeOut, FirstByte, ReadLine, EndWait, ReadStored, Proceed, Succeed, Fail,
         Serve, Deliver, Disconnect
<1>5. late' \in BOOLEAN
  <2>1. CASE TimeOut
    BY <2>1 DEF TimeOut
  <2>2. CASE ~TimeOut
    <3>1. late' = late
      BY <2>2 DEF Next, Client, vars, link, ConnectFails, ConnectSucceeds, Send, NullStream,
                  FirstByte, ReadLine, EndWait, ReadStored, Proceed, Succeed, Fail,
                  Serve, Deliver, Disconnect
    <3> QED
      BY <1>0, <3>1
  <2> QED
    BY <2>1, <2>2
<1> QED
  BY <1>0, <1>1, <1>2, <1>3, <1>4, <1>5

LEMMA WaitingStep == ASSUME IInv, [Next]_vars PROVE Waiting' /\ wait' \in Wait
<1>0. /\ wait \in Wait /\ NewWait \in Wait /\ tries \in 0 .. MaxTries + 1 /\ cmd \in Commands
      /\ Waiting
  BY DEF IInv, TypeOK, Wait, NewWait
<1>1. CASE ConnectFails
  <2>1. /\ tries' = tries + 1 /\ UNCHANGED <<cmd, wait>>
        /\ IF tries < MaxTries THEN UNCHANGED <<stage, result>>
                               ELSE stage' = "done" /\ result' = "false"
    BY <1>1 DEF ConnectFails
  <2>2. tries < MaxTries => tries' <= MaxTries
    BY <1>0, <2>1 DEF MaxTries
  <2> QED
    BY <1>0, <2>1, <2>2 DEF Waiting
<1>2. CASE Send
  <2>1. stage' = "first" /\ wait' = NewWait /\ UNCHANGED <<cmd, result>>
    BY <1>2 DEF Send
  <2> QED
    BY <1>0, <2>1 DEF Waiting
<1>3. CASE FirstByte
  <2>1. stage = "first" /\ cmd # "STORE" /\ stage' = "lines" /\ UNCHANGED <<cmd, wait, result>>
    BY <1>3 DEF FirstByte
  <2>2. wait.payload = 0
    BY <1>0, <2>1 DEF Waiting, NewWait
  <2> QED
    BY <1>0, <2>1, <2>2 DEF Waiting
<1>4. CASE ReadLine
  <2>1. /\ stage = "lines" /\ inbox # <<>> /\ UNCHANGED <<stage, cmd, result>>
        /\ wait' = Take(WaitType(cmd), wait, Head(inbox))
    BY <1>4 DEF ReadLine
  <2>2. cmd \in Commands \ {"STORE"} /\ wait.payload = 0
    BY <1>0, <2>1 DEF Waiting
  <2>3. /\ Head(inbox) \in ReplyLines /\ Head(inbox).size = 0
    <3>1. inbox \in Seq(ReplyLines) /\ Truthful(inbox)
      BY DEF IInv, TypeOK
    <3>2. 1 \in DOMAIN inbox /\ Head(inbox) = inbox[1] /\ Head(inbox) \in ReplyLines
      BY <2>1, <3>1, OneRead
    <3> QED
      BY <3>1, <3>2 DEF Truthful
  <2>4. wait' \in Wait /\ wait'.payload = 0
    BY <1>0, <2>1, <2>2, <2>3, WaitTypes, Taken
  <2> QED
    BY <1>0, <2>1, <2>2, <2>4 DEF Waiting
<1>5. CASE ReadStored
  <2>1. /\ stage' = "decide" /\ UNCHANGED <<cmd, result>>
        /\ wait' = [wait EXCEPT !.valid = SaysYes(inbox)]
    BY <1>5 DEF ReadStored
  <2>2. SaysYes(inbox) \in BOOLEAN
    BY DEF SaysYes
  <2>3. wait' \in Wait
    BY <1>0, <2>1, <2>2 DEF Wait
  <2> QED
    BY <1>0, <2>1, <2>3 DEF Waiting
<1>6. CASE Proceed \/ Succeed \/ Fail
  <2>1. wait' = wait /\ stage' \in {"send", "done"}
    BY <1>6 DEF Proceed, Succeed, Fail
  <2>2. result' = "true" => cmd' = "LOGOUT"
    BY <1>0, <1>6 DEF Proceed, Succeed, Fail, Waiting
  <2> QED
    BY <1>0, <2>1, <2>2 DEF Waiting
<1>7. CASE \/ ConnectSucceeds \/ NullStream \/ TimeOut \/ EndWait
           \/ Serve \/ Deliver \/ Disconnect \/ UNCHANGED vars
  <2>1. /\ UNCHANGED <<cmd, wait, result>>
        /\ \/ UNCHANGED <<stage, tries>>
           \/ stage' \in {"send", "crashed", "decide"}
    BY <1>7 DEF ConnectSucceeds, NullStream, TimeOut, EndWait, Serve, Deliver, Disconnect, vars
  <2> QED
    BY <1>0, <2>1 DEF Waiting
<1> QED
  BY <1>1, <1>2, <1>3, <1>4, <1>5, <1>6, <1>7 DEF Next, Client

\* What is under way keeps its type, and a line that says yes is for a command
\* that was granted.
LEMMA LinkStep == ASSUME IInv, [Next]_vars
    PROVE  /\ toSrv' \in Seq(Commands) /\ owed' \in Seq(ReplyLines) /\ inbox' \in Seq(ReplyLines)
           /\ granted' \subseteq Commands
           /\ Down' /\ Truthful(inbox)' /\ Truthful(owed)'
<1>0. /\ toSrv \in Seq(Commands) /\ owed \in Seq(ReplyLines) /\ inbox \in Seq(ReplyLines)
      /\ granted \subseteq Commands /\ cmd \in Commands
      /\ Down /\ Truthful(inbox) /\ Truthful(owed)
  BY DEF IInv, TypeOK
<1>1. CASE Send
  <2>1. /\ toSrv' = (IF conn = "up" THEN Append(toSrv, cmd) ELSE toSrv)
        /\ inbox' = (IF cmd = "LOGOUT" THEN <<>> ELSE inbox)
        /\ UNCHANGED <<conn, owed, granted>>
    BY <1>1 DEF Send
  <2>2. toSrv' \in Seq(Commands)
    BY <1>0, <2>1, OneMore
  <2>3. inbox' \in Seq(ReplyLines) /\ Truthful(inbox)'
    BY <1>0, <2>1, NoLines DEF Truthful
  <2>4. Truthful(owed)' /\ Down'
    BY <1>0, <2>1 DEF Truthful, Down
  <2> QED
    BY <1>0, <2>1, <2>2, <2>3, <2>4
<1>2. CASE ConnectSucceeds
  <2>1. conn' = "up" /\ UNCHANGED <<toSrv, owed, inbox, granted>>
    BY <1>2 DEF ConnectSucceeds
  <2> QED
    BY <1>0, <2>1 DEF Truthful, Down
<1>3. CASE ReadLine
  <2>1. inbox # <<>> /\ inbox' = Tail(inbox) /\ UNCHANGED <<conn, toSrv, owed, granted>>
    BY <1>3 DEF ReadLine
  <2>2. /\ inbox' \in Seq(ReplyLines)
        /\ \A k \in DOMAIN inbox' : k + 1 \in DOMAIN inbox /\ inbox'[k] = inbox[k + 1]
    BY <1>0, <2>1, OneRead
  <2>3. Truthful(inbox)'
    BY <1>0, <2>1, <2>2 DEF Truthful
  <2> QED
    BY <1>0, <2>1, <2>2, <2>3 DEF Truthful, Down
<1>4. CASE ReadStored
  <2>1. inbox' = <<>> /\ UNCHANGED <<conn, toSrv, owed, granted>>
    BY <1>4 DEF ReadStored
  <2>2. inbox' \in Seq(ReplyLines) /\ Truthful(inbox)'
    BY <2>1, NoLines DEF Truthful
  <2> QED
    BY <1>0, <2>1, <2>2 DEF Truthful, Down
<1>5. CASE Succeed \/ Fail
  <2>1. toSrv' = <<>> /\ owed' = <<>> /\ inbox' = <<>> /\ granted' = granted
    BY <1>5 DEF Succeed, Fail, Stop
  <2> QED
    BY <1>0, <2>1, NoLines DEF Truthful, Down
<1>6. CASE Serve
  <2>1. conn = "up" /\ toSrv # <<>> /\ toSrv' = Tail(toSrv) /\ UNCHANGED <<conn, inbox>>
    BY <1>6 DEF Serve
  <2>2. PICK r \in Yes(Head(toSrv)) \cup No(Head(toSrv)) :
          /\ owed' = Lines(r, Head(toSrv))
          /\ granted' = IF r \in Yes(Head(toSrv)) THEN granted \cup {Head(toSrv)} ELSE granted
    BY <1>6 DEF Serve
  <2>3. Head(toSrv) \in Commands /\ toSrv' \in Seq(Commands)
    BY <1>0, <2>1, OneRead
  <2>4. /\ owed' \in Seq(ReplyLines)
        /\ \A k \in DOMAIN owed' :
              /\ owed'[k].of = Head(toSrv) /\ owed'[k].size = 0
              /\ owed'[k].kind \in {"ok", "okcap"} => r \in Yes(Head(toSrv))
    BY <2>2, <2>3, ReplyShape
  <2>5. granted \subseteq granted' /\ granted' \subseteq Commands
    BY <1>0, <2>2, <2>3
  <2>6. Truthful(owed)'
    BY <2>2, <2>4 DEF Truthful
  <2>7. Truthful(inbox)'
    BY <1>0, <2>1, <2>5 DEF Truthful
  <2>8. Down'
    BY <2>1 DEF Down
  <2> QED
    BY <1>0, <2>1, <2>3, <2>4, <2>5, <2>6, <2>7, <2>8
<1>7. CASE Deliver
  <2>1. /\ conn = "up" /\ owed # <<>> /\ inbox' = Append(inbox, Head(owed))
        /\ owed' = Tail(owed) /\ UNCHANGED <<conn, toSrv, granted>>
    BY <1>7 DEF Deliver
  <2>2. /\ owed' \in Seq(ReplyLines) /\ Head(owed) = owed[1] /\ Head(owed) \in ReplyLines
        /\ 1 \in DOMAIN owed
        /\ \A k \in DOMAIN owed' : k + 1 \in DOMAIN owed /\ owed'[k] = owed[k + 1]
    BY <1>0, <2>1, OneRead
  <2>3. /\ inbox' \in Seq(ReplyLines) /\ DOMAIN inbox' = 1 .. (Len(inbox) + 1)
        /\ Len(inbox) \in Nat /\ DOMAIN inbox = 1 .. Len(inbox)
        /\ \A k \in DOMAIN inbox : inbox'[k] = inbox[k]
        /\ inbox'[Len(inbox) + 1] = owed[1]
    BY <1>0, <2>1, <2>2, OneMore
  <2>4. Truthful(owed)'
    BY <1>0, <2>1, <2>2 DEF Truthful
  <2>5. Truthful(inbox)'
    <3>1. \A k \in DOMAIN inbox' : k \in DOMAIN inbox \/ k = Len(inbox) + 1
      BY <2>3
    <3>2. /\ owed[1].kind \in {"ok", "okcap"} => owed[1].of \in granted
          /\ owed[1].size = 0
      BY <1>0, <2>2 DEF Truthful
    <3> QED
      BY <1>0, <2>1, <2>3, <3>1, <3>2 DEF Truthful
  <2> QED
    BY <1>0, <2>1, <2>2, <2>3, <2>4, <2>5 DEF Down
<1>8. CASE Disconnect
  <2>1. toSrv' = <<>> /\ owed' = <<>> /\ UNCHANGED <<inbox, granted>>
    BY <1>8 DEF Disconnect
  <2> QED
    BY <1>0, <2>1, NoLines DEF Truthful, Down
<1>9. CASE \/ ConnectFails \/ NullStream \/ TimeOut \/ FirstByte \/ EndWait
           \/ Proceed \/ UNCHANGED vars
  <2>1. UNCHANGED <<conn, toSrv, owed, inbox, granted>>
    BY <1>9 DEF ConnectFails, NullStream, TimeOut, FirstByte, EndWait, Proceed, vars, link
  <2> QED
    BY <1>0, <2>1 DEF Truthful, Down
<1> QED
  BY <1>1, <1>2, <1>3, <1>4, <1>5, <1>6, <1>7, <1>8, <1>9 DEF Next, Client

LEMMA TypeStep == IInv /\ [Next]_vars => TypeOK'
<1> SUFFICES ASSUME IInv, [Next]_vars PROVE TypeOK'
  OBVIOUS
<1>1. stage' = "lines" => WaitType(cmd') \in Types
  BY ClientTypes, WaitTypes
<1> QED
  BY <1>1, ClientTypes, WaitingStep, LinkStep DEF TypeOK

-----------------------------------------------------------------------------
\* What is under way.

\* A wait that was given up stays given up.
LEMMA LateStays == [Next]_vars /\ ~late' => ~late
BY DEF Next, Client, vars, ConnectFails, ConnectSucceeds, Send, NullStream, TimeOut,
       FirstByte, ReadLine, EndWait, ReadStored, Proceed, Succeed, Fail,
       Serve, Deliver, Disconnect

\* When nothing is under way, Current holds at any stage.
LEMMA QuietIsCurrent == Quiet => Current
<1> SUFFICES ASSUME Quiet PROVE Current
  OBVIOUS
<1>1. toSrv = <<>> /\ owed = <<>> /\ inbox = <<>>
  BY DEF Quiet
<1>2. DOMAIN toSrv = {} /\ Len(toSrv) = 0 /\ DOMAIN inbox = {}
  BY <1>1
<1>3. Answering(inbox, cmd) /\ Answering(owed, cmd)
  BY <1>1, NoLines
<1> QED
  BY <1>1, <1>2, <1>3 DEF Current, Quiet

\* A command is sent when nothing is under way.
LEMMA SendCurrent == ASSUME IInv, ~late, Send PROVE Current'
<1>1. /\ toSrv' = (IF conn = "up" THEN Append(toSrv, cmd) ELSE toSrv)
      /\ inbox' = (IF cmd = "LOGOUT" THEN <<>> ELSE inbox)
      /\ stage' = "first" /\ UNCHANGED <<cmd, owed>>
  BY DEF Send
<1>2. toSrv = <<>> /\ owed = <<>> /\ inbox = <<>>
  BY DEF Send, IInv, Current, Quiet
<1>3. owed' = <<>> /\ inbox' = <<>>
  BY <1>1, <1>2
<1>4. Answering(inbox', cmd') /\ Answering(owed', cmd')
  BY <1>3, NoLines
<1>5. Len(toSrv') <= 1 /\ \A k \in DOMAIN toSrv' : toSrv'[k] = cmd'
  <2>1. toSrv' = <<cmd>> \/ toSrv' = <<>>
    BY <1>1, <1>2
  <2> QED
    BY <1>1, <2>1
<1> QED
  BY <1>1, <1>3, <1>4, <1>5 DEF Current

\* The server answers: the reply is for the one command that is waited for.
LEMMA ServeCurrent == ASSUME IInv, ~late, Serve PROVE Current'
<1>1. /\ toSrv # <<>> /\ toSrv' = Tail(toSrv) /\ owed = <<>>
      /\ UNCHANGED <<stage, cmd, wait, inbox>>
  BY DEF Serve
<1>2. PICK r \in Yes(Head(toSrv)) \cup No(Head(toSrv)) : owed' = Lines(r, Head(toSrv))
  BY DEF Serve
<1>3. /\ toSrv \in Seq(Commands) /\ cmd \in Commands /\ Current
      /\ stage \in {"connect", "send", "first", "lines", "decide", "done", "crashed"}
  BY DEF IInv, TypeOK
<1>4. CASE stage \in {"first", "lines"}
  <2>0. /\ Head(toSrv) = toSrv[1] /\ 1 \in DOMAIN toSrv
        /\ Len(toSrv) = 1 => toSrv' = <<>>
        /\ Len(toSrv) \in Nat /\ Len(toSrv) >= 1
    BY <1>1, <1>3, OneRead
  <2>1. Len(toSrv) <= 1 /\ inbox = <<>> /\ Head(toSrv) = cmd
    BY <1>1, <1>3, <1>4, <2>0 DEF Current
  <2>2. toSrv' = <<>>
    BY <2>0, <2>1
  <2>3. Answering(owed', cmd')
    <3>1. Answering(Lines(r, cmd), cmd)
      BY <1>2, <1>3, <2>1, ReplyShape
    <3> QED
      BY <1>1, <1>2, <2>1, <3>1
  <2>4. Answering(inbox', cmd')
    BY <1>1, <2>1, NoLines
  <2>5. DOMAIN toSrv' = {} /\ Len(toSrv') = 0 /\ DOMAIN inbox' = {}
    <3>1. inbox' = <<>>
      BY <1>1, <2>1
    <3> QED
      BY <2>2, <3>1
  <2>6. ~(stage = "lines" /\ wait.complete)
    BY <1>1, <1>3 DEF Current, Quiet
  <2> QED
    BY <1>1, <1>4, <2>2, <2>3, <2>4, <2>5, <2>6 DEF Current
<1>5. CASE stage \in {"connect", "send"} \/ (stage = "decide" /\ (wait.valid \/ cmd # "STORE"))
  BY <1>1, <1>3, <1>5 DEF Current, Quiet
<1>6. CASE stage \in {"done", "crashed"} \/ (stage = "decide" /\ ~(wait.valid \/ cmd # "STORE"))
  BY <1>1, <1>6 DEF Current
<1> QED
  BY <1>3, <1>4, <1>5, <1>6

\* A line comes: the tagged one is the last of what was owed.
LEMMA DeliverCurrent == ASSUME IInv, ~late, Deliver PROVE Current'
<1>1. /\ owed # <<>> /\ inbox' = Append(inbox, Head(owed)) /\ owed' = Tail(owed)
      /\ UNCHANGED <<stage, cmd, wait, toSrv>>
  BY DEF Deliver
<1>2. /\ owed \in Seq(ReplyLines) /\ inbox \in Seq(ReplyLines) /\ Current
      /\ stage \in {"connect", "send", "first", "lines", "decide", "done", "crashed"}
  BY DEF IInv, TypeOK
<1>3. /\ Head(owed) = owed[1] /\ Head(owed) \in ReplyLines
      /\ 1 \in DOMAIN owed /\ Len(owed) \in Nat /\ Len(owed') = Len(owed) - 1
      /\ \A k \in DOMAIN owed' : k + 1 \in DOMAIN owed /\ owed'[k] = owed[k + 1]
      /\ DOMAIN owed = 1 .. Len(owed)
      /\ Len(owed) = 1 => owed' = <<>>
  BY <1>1, <1>2, OneRead
<1>4. /\ Len(inbox') = Len(inbox) + 1 /\ DOMAIN inbox' = 1 .. (Len(inbox) + 1)
      /\ Len(inbox) \in Nat /\ DOMAIN inbox = 1 .. Len(inbox)
      /\ \A k \in DOMAIN inbox : inbox'[k] = inbox[k]
      /\ inbox'[Len(inbox) + 1] = owed[1]
  BY <1>1, <1>2, <1>3, OneMore
<1>5. CASE stage \in {"first", "lines"}
  <2>1. /\ Answering(inbox, cmd) /\ Answering(owed, cmd) /\ toSrv = <<>>
        /\ \A k \in DOMAIN toSrv : toSrv[k] = cmd
        /\ \A k \in DOMAIN inbox : inbox[k].kind \notin Tagged
        /\ Len(toSrv) <= 1
        /\ ~(stage = "lines" /\ wait.complete)
    BY <1>1, <1>2, <1>5 DEF Current, Quiet
  <2>2. Answering(owed', cmd')
    <3> SUFFICES ASSUME NEW k \in DOMAIN owed'
                 PROVE  owed'[k].of = cmd /\ (owed'[k].kind \in Tagged => k = Len(owed'))
      BY <1>1 DEF Answering
    <3>1. k + 1 \in DOMAIN owed /\ owed'[k] = owed[k + 1]
      BY <1>3
    <3>2. owed[k + 1].of = cmd /\ (owed[k + 1].kind \in Tagged => k + 1 = Len(owed))
      BY <2>1, <3>1 DEF Answering
    <3>3. k \in Int
      <4>1. owed' \in Seq(ReplyLines)
        BY <1>1, <1>2, OneRead
      <4> QED
        BY <4>1, LenProperties
    <3> QED
      BY <1>3, <3>1, <3>2, <3>3
  <2>3. /\ owed[1].of = cmd
        /\ owed[1].kind \in Tagged => owed' = <<>>
    BY <1>3, <2>1 DEF Answering
  <2>4. \A k \in DOMAIN inbox' : k \in DOMAIN inbox \/ k = Len(inbox')
    BY <1>4
  <2>5. Answering(inbox', cmd')
    BY <1>1, <1>4, <2>1, <2>3, <2>4 DEF Answering
  <2>6. \A k \in DOMAIN inbox' : inbox'[k].kind \in Tagged => owed' = <<>>
    BY <1>4, <2>1, <2>3, <2>4
  <2> QED
    BY <1>1, <1>5, <2>1, <2>2, <2>5, <2>6 DEF Current
<1>6. CASE stage \in {"connect", "send"} \/ (stage = "decide" /\ (wait.valid \/ cmd # "STORE"))
  BY <1>1, <1>2, <1>6 DEF Current, Quiet
<1>7. CASE stage \in {"done", "crashed"} \/ (stage = "decide" /\ ~(wait.valid \/ cmd # "STORE"))
  BY <1>1, <1>7 DEF Current
<1> QED
  BY <1>2, <1>5, <1>6, <1>7

\* waitIMAPResponse reads a line: if that ends the wait, it was the last.
LEMMA ReadLineCurrent == ASSUME IInv, ~late, ReadLine PROVE Current'
<1>1. /\ stage = "lines" /\ inbox # <<>> /\ inbox' = Tail(inbox)
      /\ wait' = Take(WaitType(cmd), wait, Head(inbox))
      /\ UNCHANGED <<stage, cmd, toSrv, owed>>
  BY DEF ReadLine
<1>2. /\ inbox \in Seq(ReplyLines) /\ Current /\ wait \in Wait
      /\ cmd \in Commands \ {"STORE"} /\ wait.payload = 0 /\ Truthful(inbox)
  BY <1>1 DEF IInv, TypeOK, Waiting
<1>3. /\ Head(inbox) = inbox[1] /\ Head(inbox) \in ReplyLines /\ 1 \in DOMAIN inbox
      /\ Len(inbox) \in Nat /\ Len(inbox') = Len(inbox) - 1
      /\ \A k \in DOMAIN inbox' : k + 1 \in DOMAIN inbox /\ inbox'[k] = inbox[k + 1]
      /\ Len(inbox) = 1 => inbox' = <<>>
      /\ inbox' \in Seq(ReplyLines)
  BY <1>1, <1>2, OneRead
<1>4. /\ Answering(inbox, cmd) /\ Answering(owed, cmd) /\ toSrv = <<>>
      /\ \A k \in DOMAIN toSrv : toSrv[k] = cmd
      /\ Len(toSrv) <= 1
      /\ \A k \in DOMAIN inbox : inbox[k].kind \in Tagged => owed = <<>>
      /\ ~wait.complete
  BY <1>1, <1>2 DEF Current, Quiet
<1>5. Answering(inbox', cmd')
  <2> SUFFICES ASSUME NEW k \in DOMAIN inbox'
               PROVE  inbox'[k].of = cmd /\ (inbox'[k].kind \in Tagged => k = Len(inbox'))
    BY <1>1 DEF Answering
  <2>1. k + 1 \in DOMAIN inbox /\ inbox'[k] = inbox[k + 1] /\ k \in Int
    BY <1>3, LenProperties
  <2>2. inbox[k + 1].of = cmd /\ (inbox[k + 1].kind \in Tagged => k + 1 = Len(inbox))
    BY <1>4, <2>1 DEF Answering
  <2> QED
    BY <1>3, <2>1, <2>2
<1>6. \A k \in DOMAIN inbox' : inbox'[k].kind \in Tagged => owed' = <<>>
  BY <1>1, <1>3, <1>4
<1>7. wait'.complete => Quiet'
  <2> SUFFICES ASSUME wait'.complete PROVE Quiet'
    OBVIOUS
  <2>1. Head(inbox).size = 0
    BY <1>2, <1>3 DEF Truthful
  <2>2. Head(inbox).kind \in Tagged
    BY <1>1, <1>2, <1>3, <1>4, <2>1, WaitTypes, Taken
  <2>3. Len(inbox) = 1 /\ owed = <<>>
    BY <1>3, <1>4, <2>2 DEF Answering
  <2> QED
    BY <1>1, <1>3, <1>4, <2>3 DEF Quiet
<1> QED
  BY <1>1, <1>4, <1>5, <1>6, <1>7 DEF Current

LEMMA CurrentStep == ASSUME IInv, [Next]_vars, ~late' PROVE Current'
<1>0. ~late /\ Current /\ Down
  BY LateStays DEF IInv
<1>1. CASE Send
  BY <1>0, <1>1, SendCurrent
<1>2. CASE Serve
  BY <1>0, <1>2, ServeCurrent
<1>3. CASE Deliver
  BY <1>0, <1>3, DeliverCurrent
<1>4. CASE ReadLine
  BY <1>0, <1>4, ReadLineCurrent
<1>5. CASE ConnectFails
  <2>1. stage = "connect" /\ UNCHANGED <<toSrv, owed, inbox>>
    BY <1>5 DEF ConnectFails, link
  <2>2. Quiet'
    BY <1>0, <2>1 DEF Current, Quiet
  <2> QED
    BY <2>2, QuietIsCurrent, PTL
<1>6. CASE ConnectSucceeds
  <2>1. stage = "connect" /\ UNCHANGED <<toSrv, owed, inbox>>
    BY <1>6 DEF ConnectSucceeds
  <2>2. Quiet'
    BY <1>0, <2>1 DEF Current, Quiet
  <2> QED
    BY <2>2, QuietIsCurrent, PTL
<1>7. CASE NullStream
  BY <1>7 DEF NullStream, Current
<1>8. CASE TimeOut
  <2>1. inbox = <<>> /\ conn # "up" /\ UNCHANGED <<toSrv, owed, inbox>>
    BY <1>8 DEF TimeOut, link
  <2>2. conn = "down"
    BY <2>1 DEF IInv, TypeOK
  <2>3. Quiet'
    BY <1>0, <2>1, <2>2 DEF Down, Quiet
  <2> QED
    BY <2>3, QuietIsCurrent, PTL
<1>9. CASE FirstByte
  <2>1. /\ stage = "first" /\ stage' = "lines" /\ UNCHANGED <<cmd, wait, toSrv, owed, inbox>>
    BY <1>9 DEF FirstByte, link
  <2>2. ~wait.complete
    BY <2>1 DEF IInv, Waiting, NewWait
  <2> QED
    BY <1>0, <2>1, <2>2 DEF Current, Answering
<1>10. CASE EndWait
  <2>1. stage = "lines" /\ wait.complete /\ UNCHANGED <<toSrv, owed, inbox>>
    BY <1>10 DEF EndWait, link
  <2>2. Quiet'
    BY <1>0, <2>1 DEF Current, Quiet
  <2> QED
    BY <2>2, QuietIsCurrent, PTL
<1>11. CASE ReadStored
  <2>1. /\ stage = "first" /\ inbox # <<>> /\ cmd = "STORE" /\ stage' = "decide"
        /\ wait' = [wait EXCEPT !.valid = SaysYes(inbox)]
        /\ inbox' = <<>> /\ UNCHANGED <<cmd, toSrv, owed>>
    BY <1>11 DEF ReadStored
  <2>2. wait'.valid = SaysYes(inbox)
    BY <2>1 DEF IInv, TypeOK, Wait
  <2>3. SaysYes(inbox) => owed = <<>>
    BY <1>0, <2>1 DEF Current, SaysYes, Tagged
  <2>4. toSrv = <<>>
    BY <1>0, <2>1 DEF Current
  <2>5. wait'.valid => Quiet'
    BY <2>1, <2>2, <2>3, <2>4 DEF Quiet
  <2> QED
    BY <2>1, <2>5 DEF Current
<1>12. CASE Proceed
  <2>1. /\ stage = "decide" /\ (wait.valid \/ cmd = "LIST")
        /\ UNCHANGED <<toSrv, owed, inbox>>
    BY <1>12 DEF Proceed, MayFail, link
  <2>2. Quiet'
    BY <1>0, <2>1 DEF Current, Quiet
  <2> QED
    BY <2>2, QuietIsCurrent, PTL
<1>13. CASE Succeed \/ Fail
  <2>1. stage' = "done"
    BY <1>13 DEF Succeed, Fail
  <2> QED
    BY <2>1 DEF Current
<1>14. CASE Disconnect
  <2>1. toSrv' = <<>> /\ owed' = <<>> /\ UNCHANGED <<stage, cmd, wait, inbox>>
    BY <1>14 DEF Disconnect
  <2>2. DOMAIN toSrv' = {} /\ Len(toSrv') = 0 /\ Answering(owed', cmd')
    BY <2>1, NoLines
  <2>3. Quiet => Quiet'
    BY <2>1 DEF Quiet
  <2> QED
    BY <1>0, <2>1, <2>2, <2>3 DEF Current, Answering, Quiet
<1>15. CASE UNCHANGED vars
  <2>1. UNCHANGED <<stage, cmd, wait, toSrv, owed, inbox>>
    BY <1>15 DEF vars, link
  <2> QED
    BY <1>0, <2>1 DEF Current, Answering, Quiet
<1> QED
  BY <1>1, <1>2, <1>3, <1>4, <1>5, <1>6, <1>7, <1>8, <1>9, <1>10, <1>11, <1>12, <1>13,
     <1>14, <1>15 DEF Next, Client

-----------------------------------------------------------------------------
\* An " OK " among the lines of the reply to STORE is the server's yes.
LEMMA StoredStep == ASSUME IInv, [Next]_vars, ~late' PROVE Stored'
<1>0. ~late /\ Current /\ Stored
  BY LateStays DEF IInv
<1>1. granted \subseteq granted'
  BY DEF Next, Client, vars, ConnectFails, ConnectSucceeds, Send, NullStream, TimeOut,
         FirstByte, ReadLine, EndWait, ReadStored, Proceed, Succeed, Fail,
         Serve, Deliver, Disconnect
<1>2. CASE ReadStored
  <2>1. /\ stage = "first" /\ cmd = "STORE" /\ cmd' = cmd
        /\ wait' = [wait EXCEPT !.valid = SaysYes(inbox)]
    BY <1>2 DEF ReadStored
  <2>2. wait'.valid = SaysYes(inbox)
    BY <2>1 DEF IInv, TypeOK, Wait
  <2>3. SaysYes(inbox) => "STORE" \in granted
    BY <1>0, <2>1 DEF SaysYes, Current, Answering, IInv, Truthful
  <2> QED
    BY <1>1, <2>1, <2>2, <2>3 DEF Stored
<1>3. CASE Proceed
  <2>1. /\ stage = "decide" /\ cmd # "LOGOUT" /\ (wait.valid \/ cmd = "LIST")
        /\ stage' = "send" /\ cmd' = After(cmd) /\ cmd \in Commands
    BY <1>3 DEF Proceed, MayFail, IInv, TypeOK
  <2>2. cmd' = "LOGOUT" => cmd = "STORE"
    BY <2>1 DEF After, Commands
  <2>3. cmd' = "LOGOUT" => "STORE" \in granted
    BY <1>0, <2>1, <2>2 DEF Stored
  <2> QED
    BY <1>1, <2>1, <2>3 DEF Stored
<1>4. CASE TimeOut
  <2>1. stage = "first" /\ UNCHANGED <<cmd, wait>>
    BY <1>4 DEF TimeOut
  <2>2. ~wait'.valid
    BY <2>1 DEF IInv, Waiting, NewWait
  <2> QED
    BY <1>0, <1>1, <2>1, <2>2 DEF Stored
<1>5. CASE EndWait
  <2>1. stage = "lines" /\ UNCHANGED <<cmd, wait>>
    BY <1>5 DEF EndWait
  <2>2. cmd # "STORE"
    BY <2>1 DEF IInv, Waiting
  <2> QED
    BY <1>0, <1>1, <2>1, <2>2 DEF Stored
<1>6. CASE ReadLine
  <2>1. stage' = "lines" /\ cmd' = cmd
    BY <1>6 DEF ReadLine
  <2> QED
    BY <1>0, <1>1, <2>1 DEF Stored
<1>7. CASE \/ ConnectFails \/ ConnectSucceeds \/ Send \/ NullStream \/ FirstByte
           \/ Succeed \/ Fail
  <2>1. cmd' = cmd /\ stage' \in {"connect", "send", "crashed", "first", "lines", "done"}
    BY <1>7 DEF ConnectFails, ConnectSucceeds, Send, NullStream, FirstByte, Succeed, Fail
  <2> QED
    BY <1>0, <1>1, <2>1 DEF Stored
<1>8. CASE Serve \/ Deliver \/ Disconnect \/ UNCHANGED vars
  <2>1. UNCHANGED <<stage, cmd, wait>>
    BY <1>8 DEF Serve, Deliver, Disconnect, vars
  <2> QED
    BY <1>0, <1>1, <2>1 DEF Stored
<1> QED
  BY <1>2, <1>3, <1>4, <1>5, <1>6, <1>7, <1>8 DEF Next, Client

-----------------------------------------------------------------------------
LEMMA InvInit == Init => IInv
<1> SUFFICES ASSUME Init PROVE IInv
  OBVIOUS
<1>1. /\ stage = "connect" /\ cmd = "LOGIN" /\ result = "none" /\ tries = 0
      /\ toSrv = <<>> /\ owed = <<>> /\ inbox = <<>>
  BY DEF Init
<1>2. Truthful(inbox) /\ Truthful(owed) /\ Down
  BY <1>1, NoLines DEF Down
<1>3. Waiting
  BY <1>1 DEF Waiting, MaxTries
<1>4. Current
  <2>1. Quiet
    BY <1>1 DEF Quiet
  <2> QED
    BY <2>1, QuietIsCurrent
<1>5. Stored
  BY <1>1 DEF Stored
<1> QED
  BY <1>2, <1>3, <1>4, <1>5, TypeInit DEF IInv

LEMMA InvNext == IInv /\ [Next]_vars => IInv'
BY TypeStep, LinkStep, WaitingStep, CurrentStep, StoredStep DEF IInv

\* Every state of a change of flags satisfies the invariant.
THEOREM Inductive == Spec => []IInv
<1> QED
  BY InvInit, InvNext, PTL DEF Spec

\* The types; the reader of lines never waits for a store.
THEOREM TypeCorrect == Spec => []TypeOK
<1>1. IInv => TypeOK
  BY DEF IInv
<1> QED
  BY <1>1, Inductive, PTL

\* true from setFlag, addFlag or removeFlag means that the server took the
\* flags, unless a wait was given up whose reply may still come.
THEOREM TrueIsStored == Spec => []TrueMeansStored
<1>1. IInv => TrueMeansStored
  BY DEF IInv, Waiting, Stored, TrueMeansStored
<1> QED
  BY <1>1, Inductive, PTL
=============================================================================
