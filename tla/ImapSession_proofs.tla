------------------------- MODULE ImapSession_proofs -------------------------
(***************************************************************************)
(* What readMail puts into a header, a text or a file comes from the reply *)
(* to the command it asked for it with, as long as no wait was given up;   *)
(* and the vectors it reads into are indexed within their bounds, whatever *)
(* was late.  A call that returns true has every text without a            *)
(* disposition that was asked for, or its status says that one is missing; *)
(* and when nothing was late and the server refused nothing it holds, it   *)
(* has every header, and its slots are the leaves of the mail, each once   *)
(* and in their order, with their dispositions and the types they give.    *)
(***************************************************************************)
EXTENDS ImapSession, SequenceTheorems, FiniteSetTheorems, TLAPS

\* The types of commands, lines and slots.
Commands == {c \in [type : Types \cup {"LOGOUT"}, part : Seq(Nat)] :
               Len(c.part) <= 2 /\ (c.type = "MIME" => c.part # <<>>)}
ReplyLines == {Line(kind, c) : kind \in Kinds, c \in Commands}
PartTypes == LeafTypes \cup {"multi"}
SlotTypes == {s \in [part : Seq(Nat), type : PartTypes, disp : Dispositions] :
                Len(s.part) <= 2}

LinkTypes ==
    /\ conn \in {"up", "down"}
    /\ toSrv \in Seq(Commands) /\ owed \in Seq(ReplyLines) /\ inbox \in Seq(ReplyLines)
CallTypes ==
    /\ ask \in Asks /\ stage \in Stages
    /\ tries \in 0 .. MaxTries + 1 /\ (stage = "connect" => tries <= MaxTries)
    /\ cmd \in Commands /\ wait \in Wait
    /\ stage = "first" \/ (stage = "lines" /\ wait.lf = 0) => wait = NewWait
    /\ late \in BOOLEAN /\ refused \in BOOLEAN
    /\ status \in {"none", "connect", "login", "bad", "response"}
    /\ result \in {"none", "true", "false"}
ScanTypes ==
    /\ subID \in Nat /\ attCount \in Nat
    /\ slots \in Seq(SlotTypes) /\ dataIndex \in 0 .. Len(slots)
BodyTypes ==
    /\ msgs \in Seq(Nat) /\ total \in Nat
    /\ headers \in Seq(SUBSET Commands) /\ Len(headers) <= Len(msgs)
    /\ j \in 0 .. Len(slots) /\ sdOk \in BOOLEAN
    /\ text \in Seq(SUBSET Commands) /\ file \in Seq(SUBSET Commands)

\* A line that describes a part is of a part that exists.
Describes(lines) ==
    \A k \in DOMAIN lines :
       lines[k].kind \in {"literal", "body"} /\ lines[k].of.type = "MIME" =>
          Exists(lines[k].of.part)

\* Where readMail is with what it fetches.
Busy == stage \in {"send", "first", "lines", "decide"}
Early == {"LOGIN", "LIST", "EXAMINE", "SEARCH"}
Bodies == {"TEXT", "ATTACHMENT"}
Progress ==
    /\ stage = "connect" \/ (Busy /\ cmd.type \in Early) => headers = <<>>
    /\ stage = "connect" => cmd.type = "LOGIN"
    /\ Busy /\ cmd.type = "HEADER" => cmd.part = <<Len(headers)>> /\ headers # <<>>
    /\ stage \in {"connect", "mount"} \/ (Busy /\ cmd.type \notin Bodies \cup {"LOGOUT"})
         => text = <<>> /\ file = <<>>
    /\ Len(text) \in {0, Len(slots)} /\ Len(file) = Len(text)
    /\ stage = "pick" \/ (Busy /\ cmd.type \in Bodies) => Len(text) = Len(slots)
    /\ Busy /\ cmd.type \in Bodies =>
          j + 1 \in DOMAIN slots /\ cmd.part = slots[j + 1].part

-----------------------------------------------------------------------------
\* A literal and the line after it.

BodyFirst(lines) == lines # <<>> /\ lines[1].kind = "body"

\* Every literal is followed by a line of it, unless the connection breaks.
Paired(lines) == \A k \in DOMAIN lines :
    lines[k].kind = "literal" /\ k < Len(lines) => lines[k + 1].kind = "body"
Whole(lines) == lines # <<>> => lines[Len(lines)].kind # "literal"
Literals ==
    /\ Paired(inbox) /\ Paired(owed) /\ Whole(owed)
    /\ conn = "up" => Whole(inbox) \/ BodyFirst(owed)

\* A wait for the header of a part that goes well has read it into the slot,
\* and a wait for a text into the text of the slot.
Announced == cmd.type \in {"MIME", "TEXT"} /\ wait.payload > 0
Stored == /\ cmd.type = "MIME" => dataIndex < Len(slots)
          /\ cmd.type = "TEXT" => text[j + 1] # {}
Filled ==
    stage \in {"lines", "decide"} =>
      /\ Announced /\ wait.got > 0 => Stored
      /\ Announced /\ wait.got = 0 =>
            /\ wait.valid /\ wait.lf = 1 /\ ~wait.complete /\ stage = "lines"
            /\ IF inbox # <<>> THEN BodyFirst(inbox)
                               ELSE conn = "up" => BodyFirst(owed)
      /\ cmd.type = "MIME" /\ wait.valid /\ wait.payload = 0 => ~wait.complete
      /\ cmd.type = "TEXT" /\ wait.payload = 0 => ~wait.complete
      /\ cmd.type \in {"MIME", "TEXT"} /\ wait.valid /\ stage = "decide" => wait.complete

-----------------------------------------------------------------------------
\* What is under way, as long as nothing was late.

Quiet == toSrv = <<>> /\ owed = <<>> /\ inbox = <<>>
Down == /\ conn = "down" => toSrv = <<>> /\ owed = <<>>
        /\ stage = "connect" => Quiet

\* Lines of a reply to c, of which only the last one has the tag.
Answering(lines, c) ==
    \A k \in DOMAIN lines :
       /\ lines[k].of = c
       /\ lines[k].kind \in Tagged => k = Len(lines)

Current ==
    /\ stage \in {"connect", "send", "decide", "mount", "pick"} => Quiet
    /\ stage \in {"first", "lines"} =>
         /\ \A k \in DOMAIN toSrv : toSrv[k] = cmd
         /\ Len(toSrv) <= 1
         /\ Answering(inbox, cmd) /\ Answering(owed, cmd)
         /\ toSrv # <<>> => owed = <<>> /\ inbox = <<>> /\ stage = "first"
         /\ \A k \in DOMAIN inbox : inbox[k].kind \in Tagged => owed = <<>>
         /\ cmd.type = "SEARCH" =>
               Len(inbox) + Len(owed) <= IF wait.lf = 0 THEN 2 ELSE 1
    /\ stage = "lines" /\ wait.complete => Quiet

IInv ==
    /\ LinkTypes /\ CallTypes /\ ScanTypes /\ BodyTypes
    /\ Describes(inbox) /\ Describes(owed) /\ Progress /\ Down
    /\ Literals /\ Filled
    /\ ~late => Current
    /\ OwnReplies

-----------------------------------------------------------------------------
\* Sequences.

\* One line read.
LEMMA OneRead ==
    ASSUME NEW S, NEW s \in Seq(S), s # <<>>
    PROVE  /\ Tail(s) \in Seq(S) /\ Head(s) = s[1] /\ Head(s) \in S
           /\ 1 \in DOMAIN s /\ Len(s) \in Nat /\ Len(s) >= 1
           /\ DOMAIN s = 1 .. Len(s) /\ Len(Tail(s)) = Len(s) - 1
           /\ \A k \in DOMAIN Tail(s) : k + 1 \in DOMAIN s /\ Tail(s)[k] = s[k + 1]
           /\ Len(s) = 1 => Tail(s) = <<>>
<1>1. /\ Len(s) \in Nat /\ DOMAIN s = 1 .. Len(s) /\ Len(s) >= 1
  BY LenProperties, EmptySeq
<1>2. /\ Head(s) \in S /\ Tail(s) \in Seq(S) /\ Len(Tail(s)) = Len(s) - 1
      /\ \A i \in 1 .. Len(Tail(s)) : Tail(s)[i] = s[i + 1]
  BY HeadTailProperties
<1>3. DOMAIN Tail(s) = 1 .. Len(Tail(s))
  BY <1>2, LenProperties
<1>4. ASSUME Len(s) = 1 PROVE Tail(s) = <<>>
  <2>1. Len(Tail(s)) = 0
    BY <1>2, <1>4
  <2>2. Tail(s) # <<>> => Len(Tail(s)) \in Nat \ {0}
    BY <1>2, EmptySeq
  <2> QED
    BY <2>1, <2>2
<1> QED
  BY <1>1, <1>2, <1>3, <1>4

\* One line more.
LEMMA OneMore ==
    ASSUME NEW S, NEW s \in Seq(S), NEW e \in S
    PROVE  /\ Append(s, e) \in Seq(S) /\ Len(Append(s, e)) = Len(s) + 1
           /\ Len(s) \in Nat /\ DOMAIN s = 1 .. Len(s)
           /\ DOMAIN Append(s, e) = 1 .. (Len(s) + 1)
           /\ \A k \in DOMAIN s : Append(s, e)[k] = s[k]
           /\ Append(s, e)[Len(s) + 1] = e
<1>1. Len(s) \in Nat /\ DOMAIN s = 1 .. Len(s)
  BY LenProperties
<1>2. /\ Append(s, e) \in Seq(S) /\ Len(Append(s, e)) = Len(s) + 1
      /\ \A i \in 1 .. Len(s) : Append(s, e)[i] = s[i]
      /\ Append(s, e)[Len(s) + 1] = e
  BY AppendProperties
<1>3. DOMAIN Append(s, e) = 1 .. Len(Append(s, e))
  BY <1>2, LenProperties
<1> QED
  BY <1>1, <1>2, <1>3

LEMMA NoLines ==
    /\ \A S : <<>> \in Seq(S)
    /\ Len(<<>>) = 0 /\ DOMAIN <<>> = {}
    /\ \A c : Answering(<<>>, c)
    /\ Describes(<<>>) /\ Paired(<<>>) /\ Whole(<<>>)
<1>1. Len(<<>>) = 0 /\ DOMAIN <<>> = {} /\ \A S : <<>> \in Seq(S)
  OBVIOUS
<1> QED
  BY <1>1 DEF Answering, Describes, Paired, Whole

\* One place of a sequence written, as EXCEPT does.
LEMMA OneWritten ==
    ASSUME NEW S, NEW s \in Seq(S), NEW i \in DOMAIN s, NEW e \in S
    PROVE  /\ [s EXCEPT ![i] = e] \in Seq(S)
           /\ Len([s EXCEPT ![i] = e]) = Len(s)
           /\ DOMAIN [s EXCEPT ![i] = e] = DOMAIN s
           /\ \A k \in DOMAIN s : [s EXCEPT ![i] = e][k] = IF k = i THEN e ELSE s[k]
<1> DEFINE t == [s EXCEPT ![i] = e]
<1>1. Len(s) \in Nat /\ DOMAIN s = 1 .. Len(s) /\ s \in [1 .. Len(s) -> S]
  BY LenProperties
<1>2. t \in [1 .. Len(s) -> S] /\ \A k \in DOMAIN s : t[k] = IF k = i THEN e ELSE s[k]
  BY <1>1
<1> HIDE DEF t
<1>3. t \in Seq(S)
  BY <1>1, <1>2, SeqDef
<1>4. DOMAIN t = 1 .. Len(s) /\ Len(t) \in Nat /\ DOMAIN t = 1 .. Len(t)
  BY <1>2, <1>3, LenProperties
<1>5. Len(t) = Len(s)
  BY <1>1, <1>4
<1> QED
  BY <1>1, <1>2, <1>3, <1>4, <1>5 DEF t

\* A function on an interval from 1 is a sequence.
LEMMA Filling ==
    ASSUME NEW S, NEW n \in Nat, NEW s \in [1 .. n -> S]
    PROVE  s \in Seq(S) /\ Len(s) = n /\ DOMAIN s = 1 .. n
<1>1. s \in Seq(S)
  BY SeqDef
<1>2. DOMAIN s = 1 .. n /\ DOMAIN s = 1 .. Len(s) /\ Len(s) \in Nat
  BY <1>1, LenProperties
<1> QED
  BY <1>1, <1>2

\* Numbers below one that is missing can be counted down for ever, unless
\* zero is missing or some number is the first to be missing: the step down
\* maps the missing numbers one-to-one into themselves and misses the largest.
LEMMA SetInduction ==
    ASSUME NEW S, 0 \in S, \A n \in Nat : n \in S => n + 1 \in S
    PROVE  Nat \subseteq S
<1> SUFFICES ASSUME NEW n \in Nat, n \notin S PROVE FALSE
  OBVIOUS
<1> DEFINE D == {k \in 0 .. n : k \notin S}
           down == [k \in D |-> k - 1]
<1>1. IsFiniteSet(D)
  <2>1. D \in SUBSET (0 .. n) /\ IsFiniteSet(0 .. n)
    BY FS_Interval
  <2> QED
    BY <2>1, FS_Subset
<1>2. \A k \in D : k \in Nat /\ k # 0 /\ k <= n /\ k - 1 \in D
  <2> SUFFICES ASSUME NEW k \in D PROVE k \in Nat /\ k # 0 /\ k <= n /\ k - 1 \in D
    OBVIOUS
  <2>1. k \in Nat /\ k # 0 /\ k <= n /\ k \notin S
    OBVIOUS
  <2>2. k - 1 \in Nat /\ (k - 1) + 1 = k
    BY <2>1
  <2> QED
    BY <2>1, <2>2
<1>3. n \in D
  OBVIOUS
<1> HIDE DEF D
<1>4. down \in Injection(D, D)
  BY <1>2 DEF Injection, IsInjective
<1>5. down \in Surjection(D, D)
  BY <1>1, <1>4, FS_Injection
<1>6. PICK k \in D : down[k] = n
  BY <1>3, <1>5 DEF Surjection
<1> QED
  BY <1>2, <1>6

\* The first of several numbers.
LEMMA FirstExists ==
    ASSUME NEW T \in SUBSET Nat, T # {}
    PROVE  \E k \in T : \A l \in T : k <= l
<1> SUFFICES ASSUME \A k \in T : \E l \in T : l < k PROVE FALSE
  OBVIOUS
<1> DEFINE S == {n \in Nat : \A k \in T : n < k}
<1>1. 0 \in S
  <2>1. \A k \in T : k # 0
    OBVIOUS
  <2> QED
    BY <2>1
<1>2. \A n \in Nat : n \in S => n + 1 \in S
  <2> SUFFICES ASSUME NEW n \in S, NEW k \in T PROVE n + 1 < k
    OBVIOUS
  <2>1. PICK l \in T : l < k
    OBVIOUS
  <2>2. n < l /\ n \in Nat /\ l \in Nat /\ k \in Nat
    OBVIOUS
  <2> QED
    BY <2>1, <2>2
<1> HIDE DEF S
<1>3. Nat \subseteq S
  BY <1>1, <1>2, SetInduction
<1>4. PICK k \in T : TRUE
  OBVIOUS
<1> QED
  BY <1>3, <1>4 DEF S

-----------------------------------------------------------------------------
\* Commands and replies.

LEMMA CmdTypes ==
    /\ \A t \in {"LOGIN", "LIST", "EXAMINE", "SEARCH", "LOGOUT"} :
          Cmd(t) \in Commands /\ Cmd(t).type = t /\ Cmd(t).part = <<>>
    /\ \A t \in FetchTypes, part \in Seq(Nat) :
          Len(part) <= 2 /\ (t = "MIME" => part # <<>>) =>
             Fetch(t, part) \in Commands /\ Fetch(t, part).type = t /\ Fetch(t, part).part = part
<1>1. <<>> \in Seq(Nat) /\ Len(<<>>) <= 2
  OBVIOUS
<1>2. ASSUME NEW t \in {"LOGIN", "LIST", "EXAMINE", "SEARCH", "LOGOUT"}
      PROVE  Cmd(t) \in Commands /\ Cmd(t).type = t /\ Cmd(t).part = <<>>
  BY <1>1, <1>2 DEF Cmd, Commands, Types
<1>3. ASSUME NEW t \in FetchTypes, NEW part \in Seq(Nat), Len(part) <= 2,
             t = "MIME" => part # <<>>
      PROVE  Fetch(t, part) \in Commands /\ Fetch(t, part).type = t
             /\ Fetch(t, part).part = part
  BY <1>3 DEF Fetch, Commands, Types, FetchTypes
<1> QED
  BY <1>2, <1>3

LEMMA FetchCmds ==
    ASSUME NEW t \in FetchTypes, NEW p \in Nat
    PROVE  Fetch(t, <<p>>) \in Commands /\ \A q \in Nat : Fetch(t, <<p, q>>) \in Commands
<1>1. <<p>> \in Seq(Nat) /\ Len(<<p>>) <= 2 /\ <<p>> # <<>>
  OBVIOUS
<1>2. ASSUME NEW q \in Nat
      PROVE  <<p, q>> \in Seq(Nat) /\ Len(<<p, q>>) <= 2 /\ <<p, q>> # <<>>
  OBVIOUS
<1> QED
  BY <1>1, <1>2, CmdTypes

LEMMA LineTypes ==
    ASSUME NEW line \in ReplyLines
    PROVE  /\ line.kind \in Kinds /\ line.of \in Commands
           /\ line.size = IF line.kind = "literal" THEN 1 ELSE 0
           /\ line = Line(line.kind, line.of)
BY DEF ReplyLines, Line

LEMMA WaitTypes == ASSUME NEW c \in Commands PROVE WaitType(c) \in Types
BY DEF WaitType, Commands, Types

\* The shapes of a reply: the tag is on the last line and on no other; after
\* a literal comes a line of it.
Shapes == {<<"ok">>, <<"okcap">>, <<"no">>, <<"bad">>, <<"data", "ok">>,
           <<"data", "data", "ok">>, <<"nil", "ok">>,
           <<"literal", "body", "ok">>, <<"literal", "body", "body", "ok">>}

LEMMA Shaped == \A c : Given(c) \cup Refusal(c) \subseteq Shapes
BY DEF Given, Refusal, Shapes

LEMMA ReplyShape ==
    ASSUME NEW r \in Shapes
    PROVE  /\ Len(r) \in 1 .. 4 /\ DOMAIN r = 1 .. Len(r)
           /\ \A k \in 1 .. Len(r) : /\ r[k] \in Kinds
                                     /\ r[k] \in Tagged => k = Len(r)
                                     /\ r[k] = "literal" /\ k < Len(r) => r[k + 1] = "body"
                                     /\ r[k] \in {"literal", "body"} => r[1] = "literal"
           /\ r[Len(r)] \in Tagged
<1>1. CASE r \in {<<"ok">>, <<"okcap">>, <<"no">>, <<"bad">>}
  <2>1. Len(r) = 1 /\ DOMAIN r = 1 .. 1 /\ r[1] \in Tagged
    BY <1>1 DEF Tagged
  <2> QED
    BY <2>1 DEF Tagged, Kinds
<1>2. CASE r = <<"data", "ok">> \/ r = <<"nil", "ok">>
  <2>1. Len(r) = 2 /\ DOMAIN r = 1 .. 2 /\ r[1] \in {"data", "nil"} /\ r[2] = "ok"
    BY <1>2
  <2> QED
    BY <2>1 DEF Tagged, Kinds
<1>3. CASE r = <<"data", "data", "ok">>
  <2>1. Len(r) = 3 /\ DOMAIN r = 1 .. 3 /\ r[1] = "data" /\ r[2] = "data" /\ r[3] = "ok"
    BY <1>3
  <2> QED
    BY <2>1 DEF Tagged, Kinds
<1>4. CASE r = <<"literal", "body", "ok">>
  <2>1. Len(r) = 3 /\ DOMAIN r = 1 .. 3 /\ r[1] = "literal" /\ r[2] = "body" /\ r[3] = "ok"
    BY <1>4
  <2> QED
    BY <2>1 DEF Tagged, Kinds
<1>5. CASE r = <<"literal", "body", "body", "ok">>
  <2>1. /\ Len(r) = 4 /\ DOMAIN r = 1 .. 4 /\ r[1] = "literal" /\ r[2] = "body"
        /\ r[3] = "body" /\ r[4] = "ok"
    BY <1>5
  <2> QED
    BY <2>1 DEF Tagged, Kinds
<1> QED
  BY <1>1, <1>2, <1>3, <1>4, <1>5 DEF Shapes

LEMMA Replied ==
    ASSUME NEW c \in Commands, NEW r \in Shapes
    PROVE  /\ Lines(r, c) \in Seq(ReplyLines) /\ Len(Lines(r, c)) = Len(r)
           /\ \A k \in DOMAIN Lines(r, c) : Lines(r, c)[k].kind = r[k] /\ Lines(r, c)[k].of = c
           /\ Answering(Lines(r, c), c) /\ Lines(r, c) # <<>>
           /\ Paired(Lines(r, c)) /\ Whole(Lines(r, c))
<1> DEFINE L == Lines(r, c)
           n == Len(r)
<1>1. /\ n \in 1 .. 4 /\ n \in Nat /\ DOMAIN r = 1 .. n
      /\ \A k \in 1 .. n : /\ r[k] \in Kinds
                           /\ r[k] \in Tagged => k = n
                           /\ r[k] = "literal" /\ k < n => r[k + 1] = "body"
      /\ r[n] \in Tagged
  BY ReplyShape
<1> HIDE DEF n
<1>2. L = [k \in 1 .. n |-> Line(r[k], c)]
  BY <1>1 DEF Lines
<1>3. \A k \in 1 .. n : Line(r[k], c) \in ReplyLines
  BY <1>1 DEF ReplyLines
<1>4. L \in [1 .. n -> ReplyLines] /\ \A k \in 1 .. n : L[k] = Line(r[k], c)
  BY <1>2, <1>3
<1> HIDE DEF L
<1>5. L \in Seq(ReplyLines) /\ Len(L) = n /\ DOMAIN L = 1 .. n
  BY <1>1, <1>4, Filling
<1>6. \A k \in 1 .. n : L[k].kind = r[k] /\ L[k].of = c
  BY <1>4 DEF Line
<1>7. Answering(L, c)
  BY <1>1, <1>5, <1>6 DEF Answering
<1>8. Paired(L)
  <2> SUFFICES ASSUME NEW k \in 1 .. n, L[k].kind = "literal", k < n
               PROVE  L[k + 1].kind = "body"
    BY <1>5 DEF Paired
  <2>1. k + 1 \in 1 .. n /\ r[k + 1] = "body"
    BY <1>1, <1>6
  <2> QED
    BY <1>6, <2>1
<1>9. L # <<>> /\ Whole(L)
  <2>1. n \in 1 .. n /\ L[n].kind \in Tagged
    BY <1>1, <1>6
  <2>2. L # <<>>
    BY <1>1, <1>5, NoLines
  <2> QED
    BY <1>5, <2>1, <2>2 DEF Whole, Tagged
<1> QED
  BY <1>5, <1>6, <1>7, <1>8, <1>9 DEF L, n

-----------------------------------------------------------------------------
\* The steps, and what they leave alone.

\* The client's steps that leave the link alone.
Inner == \/ ConnectFails \/ NullStream \/ FirstByte \/ TimeOut \/ EndWait
         \/ LoginAnswered \/ ListAnswered \/ ExamineAnswered \/ SearchAnswered
         \/ HeaderAnswered \/ PartAnswered \/ SubAnswered
         \/ StartBodies \/ PickPart \/ BodyAnswered

LEMMA Steps == [Next]_vars => \/ Inner \/ ConnectSucceeds \/ Send \/ ReadLine
                              \/ LogoutAnswered \/ Out
                              \/ Serve \/ Deliver \/ Disconnect \/ UNCHANGED vars
BY DEF Next, Client, Server, Inner

LEMMA InnerLink == Inner => UNCHANGED <<conn, toSrv, owed, inbox>>
BY DEF Inner, link, ConnectFails, NullStream, FirstByte, TimeOut, EndWait, LoginAnswered,
       ListAnswered, ExamineAnswered, SearchAnswered, HeaderAnswered, PartAnswered,
       SubAnswered, StartBodies, PickPart, BodyAnswered

\* The server and the network leave the client alone.
LEMMA ServerData ==
    Serve \/ Deliver \/ Disconnect \/ UNCHANGED vars =>
      UNCHANGED <<ask, stage, cmd, wait, tries, msgs, total, headers, subID, slots,
                  attCount, dataIndex, j, text, file, sdOk, status, result>>
BY DEF Serve, Deliver, Disconnect, vars, data, scan, body, outcome

\* These steps of the client only talk.
LEMMA TalkData ==
    \/ ConnectFails \/ ConnectSucceeds \/ Send \/ NullStream \/ FirstByte \/ TimeOut
    \/ EndWait \/ LoginAnswered \/ ListAnswered \/ LogoutAnswered \/ Out
    => UNCHANGED <<ask, msgs, total, headers, subID, slots,
                   attCount, dataIndex, j, text, file, sdOk>>
BY DEF ConnectFails, ConnectSucceeds, Send, NullStream, FirstByte, TimeOut, EndWait,
       LoginAnswered, ListAnswered, LogoutAnswered, Out, data, scan, body

LEMMA AskSame == [Next]_vars => ask' = ask
<1> SUFFICES ASSUME [Next]_vars PROVE ask' = ask
  OBVIOUS
<1>1. CASE ReadLine \/ ExamineAnswered \/ SearchAnswered \/ HeaderAnswered \/ PartAnswered
           \/ SubAnswered \/ StartBodies \/ PickPart \/ BodyAnswered
  BY <1>1 DEF ReadLine, ExamineAnswered, SearchAnswered, HeaderAnswered, PartAnswered,
              SubAnswered, StartBodies, PickPart, BodyAnswered
<1> QED
  BY <1>1, TalkData, ServerData DEF Next, Client, Server

\* A wait that was given up stays given up, and a refusal is remembered.
LEMMA LateStays == [Next]_vars => (~late' => ~late) /\ (~refused' => ~refused)
<1> SUFFICES ASSUME [Next]_vars PROVE (~late' => ~late) /\ (~refused' => ~refused)
  OBVIOUS
<1>1. CASE TimeOut
  BY <1>1 DEF TimeOut
<1>2. CASE Serve
  <2>1. PICK c, r :
          /\ refused' = (refused \/ (Holds(c) /\ r \in Refusal(c)))
          /\ late' = (late \/ (c.type = "SEARCH" /\ Len(r) > 2))
    BY <1>2 DEF Serve
  <2> QED
    BY <2>1
<1>3. CASE \/ ConnectFails \/ NullStream \/ FirstByte \/ EndWait \/ LoginAnswered
           \/ ListAnswered \/ ExamineAnswered \/ SearchAnswered
  BY <1>3 DEF history, ConnectFails, NullStream, FirstByte, EndWait, LoginAnswered,
              ListAnswered, ExamineAnswered, SearchAnswered
<1>4. CASE PartAnswered
  BY <1>4 DEF history, PartAnswered
<1>5. CASE PickPart
  BY <1>5 DEF history, PickPart
<1>6. CASE HeaderAnswered \/ SubAnswered \/ StartBodies \/ BodyAnswered
  BY <1>6 DEF history, HeaderAnswered, SubAnswered, StartBodies, BodyAnswered
<1>7. CASE \/ ConnectSucceeds \/ Send \/ ReadLine \/ LogoutAnswered \/ Out
           \/ Deliver \/ Disconnect \/ UNCHANGED vars
  BY <1>7 DEF history, vars, ConnectSucceeds, Send, ReadLine, LogoutAnswered, Out,
              Deliver, Disconnect
<1> QED
  BY <1>1, <1>2, <1>3, <1>4, <1>5, <1>6, <1>7, Steps DEF Inner

-----------------------------------------------------------------------------
\* The link.

LEMMA DescribedTail ==
    ASSUME NEW s \in Seq(ReplyLines), s # <<>>, Describes(s), Paired(s)
    PROVE  Describes(Tail(s)) /\ Paired(Tail(s))
           /\ (Whole(s) => Whole(Tail(s)))
           /\ (Head(s).kind = "literal" => Tail(s) = <<>> \/ BodyFirst(Tail(s)))
<1>1. /\ Head(s) = s[1] /\ 1 \in DOMAIN s /\ Len(s) \in Nat /\ Len(s) >= 1
      /\ DOMAIN s = 1 .. Len(s) /\ Len(Tail(s)) = Len(s) - 1
      /\ DOMAIN Tail(s) = 1 .. (Len(s) - 1)
      /\ \A k \in DOMAIN Tail(s) : k + 1 \in DOMAIN s /\ Tail(s)[k] = s[k + 1]
      /\ Len(s) = 1 => Tail(s) = <<>>
  BY OneRead
<1> DEFINE t == Tail(s)
<1> HIDE DEF t
<1>2. /\ Len(t) = Len(s) - 1 /\ DOMAIN t = 1 .. (Len(s) - 1)
      /\ \A k \in DOMAIN t : k + 1 \in DOMAIN s /\ t[k] = s[k + 1]
      /\ Len(s) = 1 => t = <<>>
  BY <1>1 DEF t
<1>3. Describes(t)
  BY <1>2 DEF Describes
<1>4. Paired(t)
  <2> SUFFICES ASSUME NEW k \in DOMAIN t, t[k].kind = "literal", k < Len(t)
               PROVE  t[k + 1].kind = "body"
    BY DEF Paired
  <2>1. /\ k + 1 \in DOMAIN s /\ k + 1 < Len(s) /\ s[k + 1].kind = "literal"
        /\ k + 1 \in DOMAIN t /\ t[k + 1] = s[(k + 1) + 1]
    BY <1>1, <1>2
  <2>2. s[(k + 1) + 1].kind = "body"
    BY <2>1 DEF Paired
  <2> QED
    BY <2>1, <2>2
<1>5. Whole(s) => Whole(t)
  <2> SUFFICES ASSUME Whole(s), t # <<>> PROVE t[Len(t)].kind # "literal"
    BY DEF Whole
  <2>1. Len(s) > 1
    BY <1>1, <1>2
  <2>2. Len(t) \in DOMAIN t /\ Len(t) + 1 = Len(s)
    BY <1>1, <1>2, <2>1
  <2>3. t[Len(t)] = s[Len(s)]
    BY <1>2, <2>2
  <2> QED
    BY <2>3 DEF Whole
<1>6. s[1].kind = "literal" => t = <<>> \/ BodyFirst(t)
  <2> SUFFICES ASSUME s[1].kind = "literal", t # <<>> PROVE t[1].kind = "body"
    BY DEF BodyFirst
  <2>1. 1 < Len(s)
    BY <1>1, <1>2
  <2>2. s[1 + 1].kind = "body" /\ 1 \in DOMAIN t
    BY <1>1, <1>2, <2>1 DEF Paired
  <2> QED
    BY <1>2, <2>2
<1> QED
  BY <1>1, <1>3, <1>4, <1>5, <1>6 DEF t

LEMMA DescribedMore ==
    ASSUME NEW s \in Seq(ReplyLines), NEW e \in ReplyLines, Describes(s), Paired(s),
           e.kind \in {"literal", "body"} /\ e.of.type = "MIME" => Exists(e.of.part),
           Whole(s) \/ e.kind = "body"
    PROVE  /\ Describes(Append(s, e)) /\ Paired(Append(s, e))
           /\ (e.kind # "literal" => Whole(Append(s, e)))
<1>1. /\ Len(Append(s, e)) = Len(s) + 1 /\ Len(s) \in Nat /\ DOMAIN s = 1 .. Len(s)
      /\ DOMAIN Append(s, e) = 1 .. (Len(s) + 1)
      /\ \A k \in DOMAIN s : Append(s, e)[k] = s[k]
      /\ Append(s, e)[Len(s) + 1] = e
  BY OneMore
<1> DEFINE t == Append(s, e)
<1> HIDE DEF t
<1>2. /\ Len(t) = Len(s) + 1 /\ DOMAIN t = 1 .. (Len(s) + 1)
      /\ \A k \in DOMAIN s : t[k] = s[k]
      /\ t[Len(s) + 1] = e
      /\ \A k \in DOMAIN t : k \in DOMAIN s \/ k = Len(s) + 1
  BY <1>1 DEF t
<1>3. Describes(t)
  BY <1>2 DEF Describes
<1>4. Paired(t)
  <2> SUFFICES ASSUME NEW k \in DOMAIN t, t[k].kind = "literal", k < Len(t)
               PROVE  t[k + 1].kind = "body"
    BY DEF Paired
  <2>1. k \in DOMAIN s /\ s[k].kind = "literal"
    BY <1>1, <1>2
  <2>2. CASE k < Len(s)
    <3>1. k + 1 \in DOMAIN s
      BY <1>1, <2>1, <2>2
    <3> QED
      BY <1>2, <2>1, <2>2, <3>1 DEF Paired
  <2>3. CASE k = Len(s)
    <3>1. s # <<>>
      BY <1>1, <2>1, <2>3
    <3>2. e.kind = "body"
      BY <2>1, <2>3, <3>1 DEF Whole
    <3> QED
      BY <1>2, <2>3, <3>2
  <2> QED
    BY <1>1, <2>1, <2>2, <2>3
<1>5. e.kind # "literal" => Whole(t)
  BY <1>2 DEF Whole
<1> QED
  BY <1>3, <1>4, <1>5 DEF t

\* What the server sends of a part it holds.
LEMMA ServedDescribes ==
    ASSUME NEW c \in Commands,
           NEW r \in (IF Holds(c) THEN Given(c) ELSE {}) \cup Refusal(c)
    PROVE  r \in Shapes /\ Describes(Lines(r, c))
<1>1. r \in Shapes
  BY Shaped
<1>2. CASE r[1] = "literal" /\ c.type = "MIME"
  <2>1. Holds(c)
    <3>1. r \notin Refusal(c)
      BY <1>2 DEF Refusal
    <3> QED
      BY <3>1
  <2>2. Exists(c.part)
    BY <1>2, <2>1 DEF Holds
  <2> QED
    BY <1>1, <1>2, <2>2, Replied DEF Describes
<1>3. CASE r[1] # "literal"
  <2>1. \A k \in 1 .. Len(r) : r[k] \notin {"literal", "body"}
    BY <1>1, <1>3, ReplyShape
  <2>2. /\ Lines(r, c) \in Seq(ReplyLines) /\ Len(Lines(r, c)) = Len(r)
        /\ \A k \in DOMAIN Lines(r, c) : Lines(r, c)[k].kind = r[k]
    BY <1>1, Replied
  <2>3. DOMAIN Lines(r, c) = 1 .. Len(r)
    BY <2>2, LenProperties
  <2> QED
    BY <1>1, <2>1, <2>2, <2>3 DEF Describes
<1>4. CASE c.type # "MIME"
  BY <1>1, <1>4, Replied DEF Describes
<1> QED
  BY <1>1, <1>2, <1>3, <1>4

LEMMA ConnectStage == [Next]_vars /\ stage' = "connect" => stage = "connect"
<1> SUFFICES ASSUME [Next]_vars, stage' = "connect" PROVE stage = "connect"
  OBVIOUS
<1>1. CASE PickPart
  BY <1>1 DEF PickPart, Go
<1>2. CASE PartAnswered
  BY <1>2 DEF PartAnswered, Go
<1>3. CASE \/ ConnectFails \/ NullStream \/ FirstByte \/ TimeOut \/ EndWait \/ LoginAnswered
           \/ ListAnswered \/ ExamineAnswered \/ SearchAnswered
  BY <1>3 DEF ConnectFails, NullStream, FirstByte, TimeOut, EndWait, LoginAnswered,
              ListAnswered, ExamineAnswered, SearchAnswered, StartFetch, Go, GiveUp
<1>4. CASE HeaderAnswered \/ SubAnswered \/ StartBodies \/ BodyAnswered
  BY <1>4 DEF HeaderAnswered, SubAnswered, StartBodies, BodyAnswered, NextSub, LeaveMulti,
              Go, GiveUp
<1>5. CASE ConnectSucceeds \/ Send \/ ReadLine \/ LogoutAnswered \/ Out
  BY <1>5 DEF ConnectSucceeds, Send, ReadLine, LogoutAnswered, Out, GiveUp
<1> QED
  BY <1>1, <1>2, <1>3, <1>4, <1>5, Steps, ServerData DEF Inner

\* The lines under way: their types, what they describe and how they follow
\* one another.
Under == LinkTypes /\ Describes(inbox) /\ Describes(owed) /\ Down /\ Literals

LEMMA LinkStep == ASSUME IInv, [Next]_vars PROVE Under'
<1>0. /\ toSrv \in Seq(Commands) /\ owed \in Seq(ReplyLines) /\ inbox \in Seq(ReplyLines)
      /\ conn \in {"up", "down"} /\ cmd \in Commands
      /\ Describes(inbox) /\ Describes(owed) /\ Paired(inbox) /\ Paired(owed) /\ Whole(owed)
      /\ conn = "up" => Whole(inbox) \/ BodyFirst(owed)
      /\ conn = "down" => toSrv = <<>> /\ owed = <<>>
      /\ stage = "connect" => toSrv = <<>> /\ owed = <<>> /\ inbox = <<>>
  BY DEF IInv, LinkTypes, CallTypes, Down, Literals, Quiet
<1>a. ask' = ask
  BY AskSame
<1>b. ASSUME /\ conn' \in {"up", "down"}
             /\ toSrv' \in Seq(Commands) /\ owed' \in Seq(ReplyLines)
             /\ inbox' \in Seq(ReplyLines)
             /\ Describes(inbox') /\ Describes(owed')
             /\ Paired(inbox') /\ Paired(owed') /\ Whole(owed')
             /\ conn' = "up" => Whole(inbox') \/ BodyFirst(owed')
             /\ conn' = "down" => toSrv' = <<>> /\ owed' = <<>>
             /\ UNCHANGED <<toSrv, owed, inbox>> \/ stage # "connect"
      PROVE  Under'
  <2>1. Describes(inbox)' /\ Describes(owed)'
    BY <1>a, <1>b DEF Describes, Exists
  <2>2. stage' = "connect" => Quiet'
    BY <1>0, <1>b, ConnectStage DEF Quiet
  <2> QED
    BY <1>b, <2>1, <2>2 DEF Under, LinkTypes, Down, Literals
<1>1. CASE Inner \/ UNCHANGED vars
  <2>1. UNCHANGED <<conn, toSrv, owed, inbox>>
    BY <1>1, InnerLink DEF vars, link
  <2> QED
    BY <1>0, <1>b, <2>1
<1>2. CASE ConnectSucceeds
  <2>1. conn' = "up" /\ UNCHANGED <<toSrv, owed, inbox>>
    BY <1>2 DEF ConnectSucceeds
  <2>2. stage = "connect"
    BY <1>2 DEF ConnectSucceeds
  <2>3. Whole(inbox)
    BY <2>2, <1>0 DEF Whole
  <2> QED
    BY <1>0, <1>b, <2>1, <2>3
<1>3. CASE Send
  <2>1. /\ toSrv' = (IF conn = "up" THEN Append(toSrv, cmd) ELSE toSrv)
        /\ inbox' = (IF cmd.type = "LOGOUT" THEN <<>> ELSE inbox)
        /\ UNCHANGED <<conn, owed>> /\ stage = "send"
    BY <1>3 DEF Send
  <2>2. toSrv' \in Seq(Commands)
    BY <1>0, <2>1, OneMore
  <2>3. conn = "down" => toSrv' = <<>>
    BY <1>0, <2>1
  <2>4. CASE inbox' = <<>>
    <3>1. inbox' \in Seq(ReplyLines) /\ Describes(inbox') /\ Paired(inbox') /\ Whole(inbox')
      BY <2>4, NoLines
    <3> QED
      BY <1>0, <1>b, <2>1, <2>2, <2>3, <3>1
  <2>5. CASE inbox' = inbox
    BY <1>0, <1>b, <2>1, <2>2, <2>3, <2>5
  <2> QED
    BY <2>1, <2>4, <2>5
<1>4. CASE ReadLine
  <2>1. inbox # <<>> /\ inbox' = Tail(inbox) /\ UNCHANGED <<conn, toSrv, owed>>
        /\ stage = "lines"
    BY <1>4 DEF ReadLine
  <2>2. inbox' \in Seq(ReplyLines) /\ Describes(inbox') /\ Paired(inbox')
        /\ (Whole(inbox) => Whole(inbox'))
    BY <1>0, <2>1, DescribedTail, OneRead
  <2> QED
    BY <1>0, <1>b, <2>1, <2>2
<1>5. CASE LogoutAnswered \/ Out
  <2>1. CASE UNCHANGED <<conn, toSrv, owed, inbox>>
    BY <1>0, <1>b, <2>1
  <2>2. CASE conn' = "down" /\ toSrv' = <<>> /\ owed' = <<>> /\ inbox' = <<>>
    <3>1. stage # "connect"
      BY <1>5 DEF LogoutAnswered, Out, Answered
    <3> QED
      BY <1>b, <2>2, <3>1, NoLines
  <2> QED
    BY <1>5, <2>1, <2>2 DEF LogoutAnswered, Out, Stop, link
<1>6. CASE Serve
  <2>1. /\ toSrv # <<>> /\ toSrv' = Tail(toSrv) /\ owed = <<>> /\ conn = "up"
        /\ UNCHANGED <<conn, inbox>>
    BY <1>6 DEF Serve
  <2>2. PICK r \in (IF Holds(Head(toSrv)) THEN Given(Head(toSrv)) ELSE {})
                   \cup Refusal(Head(toSrv)) :
          owed' = Lines(r, Head(toSrv))
    BY <1>6 DEF Serve
  <2>3. Head(toSrv) \in Commands /\ toSrv' \in Seq(Commands)
    BY <1>0, <2>1, OneRead
  <2>4. r \in Shapes /\ Describes(owed')
    BY <2>2, <2>3, ServedDescribes
  <2>5. owed' \in Seq(ReplyLines) /\ Paired(owed') /\ Whole(owed')
    BY <2>2, <2>3, <2>4, Replied
  <2>6. Whole(inbox)
    BY <1>0, <2>1 DEF BodyFirst
  <2> QED
    BY <1>0, <1>b, <2>1, <2>3, <2>4, <2>5, <2>6
<1>7. CASE Deliver
  <2>1. /\ conn = "up" /\ owed # <<>> /\ owed' = Tail(owed)
        /\ inbox' = Append(inbox, Head(owed)) /\ UNCHANGED <<conn, toSrv>>
    BY <1>7 DEF Deliver
  <2>2. Head(owed) = owed[1] /\ Head(owed) \in ReplyLines /\ owed' \in Seq(ReplyLines)
        /\ 1 \in DOMAIN owed /\ (Len(owed) = 1 => owed' = <<>>)
    BY <1>0, <2>1, OneRead
  <2>3. /\ Describes(owed') /\ Paired(owed') /\ Whole(owed')
        /\ Head(owed).kind = "literal" => owed' = <<>> \/ BodyFirst(owed')
    BY <1>0, <2>1, DescribedTail
  <2>4. Head(owed).kind \in {"literal", "body"} /\ Head(owed).of.type = "MIME"
          => Exists(Head(owed).of.part)
    BY <1>0, <2>2 DEF Describes
  <2>5. Whole(inbox) \/ Head(owed).kind = "body"
    BY <1>0, <2>1, <2>2 DEF BodyFirst
  <2>6. /\ inbox' \in Seq(ReplyLines) /\ Describes(inbox') /\ Paired(inbox')
        /\ Head(owed).kind # "literal" => Whole(inbox')
    BY <1>0, <2>1, <2>2, <2>4, <2>5, DescribedMore, OneMore
  <2>7. Head(owed).kind = "literal" => owed' # <<>>
    <3> SUFFICES ASSUME owed' = <<>>, Head(owed).kind = "literal" PROVE FALSE
      OBVIOUS
    <3>0. Len(owed') = Len(owed) - 1 /\ Len(owed) \in Nat
      BY <1>0, <2>1, OneRead
    <3>1. Len(owed) = 1
      BY <3>0, NoLines
    <3> QED
      BY <1>0, <2>1, <2>2, <3>1 DEF Whole
  <2> QED
    BY <1>0, <1>b, <2>1, <2>2, <2>3, <2>6, <2>7
<1>8. CASE Disconnect
  <2>1. conn' = "down" /\ toSrv' = <<>> /\ owed' = <<>> /\ UNCHANGED inbox
    BY <1>8 DEF Disconnect
  <2> QED
    BY <1>0, <1>b, <2>1, NoLines
<1> QED
  BY <1>1, <1>2, <1>3, <1>4, <1>5, <1>6, <1>7, <1>8, Steps

-----------------------------------------------------------------------------
\* A line read by waitIMAPResponse.

\* What a wait for anything but numbers becomes.
LEMMA Taken ==
    ASSUME NEW w \in Wait, NEW line \in ReplyLines, NEW t \in Types \ {"SEARCH"}
    PROVE  /\ Take(t, w, line) \in Wait
           /\ Take(t, w, line).lf = 1
           /\ Take(t, w, line).payload = IF w.lf = 0 THEN line.size ELSE w.payload
           /\ Take(t, w, line).got = Read(w)
           /\ Take(t, w, line).valid = ValidAfter(t, w, line)
           /\ Take(t, w, line).complete = CompleteAfter(t, w, line)
           /\ Take(t, w, line).complete => w.complete \/ line.kind \in Tagged
           /\ Take(t, w, line).broken = FALSE
<1> DEFINE v == Take(t, w, line)
<1>1. v = [lf |-> 1, payload |-> IF w.lf = 0 THEN line.size ELSE w.payload,
           got |-> Read(w), valid |-> ValidAfter(t, w, line),
           complete |-> CompleteAfter(t, w, line), broken |-> FALSE]
  BY DEF Take
<1>2. Read(w) \in Nat
  BY DEF Read, Wait
<1>3. ValidAfter(t, w, line) \in BOOLEAN
  BY DEF ValidAfter, Wait
<1>4. CompleteAfter(t, w, line) \in BOOLEAN
  BY DEF CompleteAfter
<1>5. (IF w.lf = 0 THEN line.size ELSE w.payload) \in Nat
  BY LineTypes DEF Wait
<1>6. v \in Wait
  BY <1>1, <1>2, <1>3, <1>4, <1>5 DEF Wait
<1>7. /\ v.lf = 1 /\ v.payload = (IF w.lf = 0 THEN line.size ELSE w.payload)
      /\ v.got = Read(w)
      /\ v.valid = ValidAfter(t, w, line)
      /\ v.complete = CompleteAfter(t, w, line)
      /\ v.broken = FALSE
  BY <1>1
<1>8. CompleteAfter(t, w, line) => w.complete \/ line.kind \in Tagged
  BY DEF CompleteAfter
<1> QED
  BY <1>6, <1>7, <1>8

\* A wait for numbers is complete after its second line, and stopped by BAD in
\* the first.
LEMMA TakenSearch ==
    ASSUME NEW w \in Wait, NEW line
    PROVE  /\ Take("SEARCH", w, line) \in Wait
           /\ Take("SEARCH", w, line).lf = 1
           /\ w.lf = 0 => /\ Take("SEARCH", w, line).complete = w.complete
                          /\ Take("SEARCH", w, line).broken = (line.kind = "bad")
           /\ w.lf # 0 => Take("SEARCH", w, line).broken = w.broken
<1> DEFINE v == Take("SEARCH", w, line)
<1>1. v = TakeSearch(w, line)
  BY DEF Take
<1>2. CASE w.lf = 0
  <2>1. v = [w EXCEPT !.lf = 1, !.broken = line.kind = "bad"]
    BY <1>1, <1>2 DEF TakeSearch
  <2>2. (line.kind = "bad") \in BOOLEAN
    OBVIOUS
  <2> HIDE DEF v
  <2> QED
    BY <1>2, <2>1, <2>2 DEF Wait, v
<1>3. CASE w.lf # 0
  <2>1. v = [w EXCEPT !.valid = TRUE, !.complete = TRUE]
    BY <1>1, <1>3 DEF TakeSearch
  <2>2. w.lf = 1
    BY <1>3 DEF Wait
  <2> HIDE DEF v
  <2> QED
    BY <1>3, <2>1, <2>2 DEF Wait, v
<1> QED
  BY <1>2, <1>3

LEMMA TakenWait ==
    ASSUME NEW w \in Wait, NEW line \in ReplyLines, NEW c \in Commands
    PROVE  Take(WaitType(c), w, line) \in Wait /\ Take(WaitType(c), w, line).lf = 1
<1>1. WaitType(c) \in Types
  BY WaitTypes
<1>2. CASE WaitType(c) = "SEARCH"
  BY <1>2, TakenSearch
<1>3. CASE WaitType(c) # "SEARCH"
  BY <1>1, <1>3, Taken
<1> QED
  BY <1>2, <1>3

\* The wait while it is read: nothing is known before the first line.
LEMMA WaitStep ==
    ASSUME IInv, [Next]_vars
    PROVE  /\ wait' \in Wait
           /\ stage' = "first" \/ (stage' = "lines" /\ wait'.lf = 0) => wait' = NewWait
<1>0. /\ wait \in Wait /\ cmd \in Commands /\ inbox \in Seq(ReplyLines) /\ NewWait \in Wait
      /\ stage = "first" \/ (stage = "lines" /\ wait.lf = 0) => wait = NewWait
  BY DEF IInv, CallTypes, LinkTypes, Wait, NewWait
<1>1. CASE Send
  BY <1>0, <1>1 DEF Send
<1>2. CASE ReadLine
  <2>1. /\ inbox # <<>> /\ wait' = Take(WaitType(cmd), wait, Head(inbox))
        /\ stage' \in {"lines", "decide"}
    BY <1>2 DEF ReadLine
  <2>2. Head(inbox) \in ReplyLines
    BY <1>0, <2>1, OneRead
  <2> QED
    BY <1>0, <2>1, <2>2, TakenWait
<1>3. CASE FirstByte
  BY <1>0, <1>3 DEF FirstByte
<1>4. CASE \/ ConnectFails \/ ConnectSucceeds \/ NullStream \/ TimeOut \/ EndWait \/ LoginAnswered
           \/ ListAnswered \/ ExamineAnswered \/ SearchAnswered
  <2>1. wait' = wait /\ stage' \notin {"first", "lines"}
    BY <1>4 DEF ConnectFails, ConnectSucceeds, NullStream, TimeOut, EndWait, LoginAnswered,
                ListAnswered, ExamineAnswered, SearchAnswered, StartFetch, Go, GiveUp, Answered
  <2> QED
    BY <1>0, <2>1
<1>5. CASE HeaderAnswered \/ SubAnswered \/ StartBodies \/ BodyAnswered \/ LogoutAnswered \/ Out
  <2>1. wait' = wait /\ stage' \notin {"first", "lines"}
    BY <1>5 DEF HeaderAnswered, SubAnswered, StartBodies, BodyAnswered, NextSub, LeaveMulti,
                LogoutAnswered, Out, Go, GiveUp
  <2> QED
    BY <1>0, <2>1
<1>6. CASE PartAnswered
  <2>1. wait' = wait /\ stage' \notin {"first", "lines"}
    BY <1>6 DEF PartAnswered, Go
  <2> QED
    BY <1>0, <2>1
<1>7. CASE PickPart
  <2>1. wait' = wait /\ stage' \notin {"first", "lines"}
    BY <1>7 DEF PickPart, Go
  <2> QED
    BY <1>0, <2>1
<1>8. CASE Serve \/ Deliver \/ Disconnect \/ UNCHANGED vars
  BY <1>0, <1>8, ServerData
<1> QED
  BY <1>1, <1>2, <1>3, <1>4, <1>5, <1>6, <1>7, <1>8, Steps DEF Inner

-----------------------------------------------------------------------------
\* The dialogue.

\* The part readMail fetches next is one of the slots, and wanted.
LEMMA Picked ==
    ASSUME IInv, PickPart
    PROVE  \/ Go(Cmd("LOGOUT")) /\ j' = j /\ sdOk' = FALSE
           \/ /\ j' \in j .. Len(slots) - 1 /\ j' + 1 \in DOMAIN slots /\ sdOk' = sdOk
              /\ \E t \in {"TEXT", "ATTACHMENT"} : Go(Fetch(t, slots[j' + 1].part))
<1> DEFINE W == {k \in j .. Len(slots) - 1 :
                   TextWanted(slots[k + 1]) \/ FileWanted(slots[k + 1])}
<1>1. /\ stage = "pick"
      /\ IF W = {}
           THEN Go(Cmd("LOGOUT")) /\ sdOk' = FALSE /\ UNCHANGED j
           ELSE /\ j' = CHOOSE k \in W : \A l \in W : k <= l
                /\ Go(Fetch(IF FileWanted(slots[j' + 1]) THEN "ATTACHMENT" ELSE "TEXT",
                            slots[j' + 1].part))
                /\ UNCHANGED sdOk
  BY DEF PickPart
<1>2. j \in Nat /\ Len(slots) \in Nat /\ DOMAIN slots = 1 .. Len(slots)
  <2>1. slots \in Seq(SlotTypes) /\ j \in 0 .. Len(slots)
    BY DEF IInv, ScanTypes, BodyTypes
  <2> QED
    BY <2>1, LenProperties
<1>3. W \in SUBSET (j .. Len(slots) - 1) /\ W \in SUBSET Nat
  BY <1>2
<1> HIDE DEF W
<1>4. CASE W = {}
  BY <1>1, <1>4
<1>5. CASE W # {}
  <2>1. \E k \in W : \A l \in W : k <= l
    BY <1>3, <1>5, FirstExists
  <2>2. (CHOOSE k \in W : \A l \in W : k <= l) \in W
    BY <2>1
  <2>3. j' \in j .. Len(slots) - 1
    BY <1>1, <1>3, <1>5, <2>2
  <2>4. j' + 1 \in DOMAIN slots
    <3>0. ASSUME NEW k \in j .. Len(slots) - 1 PROVE k + 1 \in 1 .. Len(slots)
      BY <1>2, <3>0
    <3>1. j' + 1 \in 1 .. Len(slots)
      BY <2>3, <3>0
    <3> QED
      BY <1>2, <3>1
  <2> QED
    BY <1>1, <1>5, <2>3, <2>4
<1> QED
  BY <1>4, <1>5

LEMMA PartOfCommand ==
    ASSUME NEW c \in Commands
    PROVE  /\ c.part \in Seq(Nat) /\ Len(c.part) \in Nat
           /\ Len(c.part) \in {1, 2} => c.part[1] \in Nat /\ 1 \in DOMAIN c.part
           /\ c.part = <<>> \/ Len(c.part) \in {1, 2}
           /\ c.type = "MIME" => c.part # <<>>
<1>1. c.part \in Seq(Nat) /\ Len(c.part) <= 2 /\ (c.type = "MIME" => c.part # <<>>)
  BY DEF Commands
<1>2. Len(c.part) \in Nat /\ DOMAIN c.part = 1 .. Len(c.part)
      /\ \A k \in DOMAIN c.part : c.part[k] \in Nat
  BY <1>1, LenProperties, ElementOfSeq
<1>3. c.part # <<>> => Len(c.part) # 0
  BY <1>1, EmptySeq
<1>4. ASSUME Len(c.part) \in {1, 2} PROVE c.part[1] \in Nat /\ 1 \in DOMAIN c.part
  <2>1. 1 \in 1 .. Len(c.part)
    <3>1. CASE Len(c.part) = 1
      BY <3>1
    <3>2. CASE Len(c.part) = 2
      BY <3>2
    <3> QED
      BY <1>4, <3>1, <3>2
  <2> QED
    BY <1>2, <2>1
<1>5. ASSUME c.part # <<>> PROVE Len(c.part) \in {1, 2}
  <2>1. Len(c.part) # 0 /\ Len(c.part) \in Nat /\ Len(c.part) <= 2
    BY <1>1, <1>2, <1>3, <1>5
  <2>2. ASSUME NEW n \in Nat, n # 0, n <= 2 PROVE n \in {1, 2}
    BY <2>2
  <2> QED
    BY <2>1, <2>2
<1> QED
  BY <1>1, <1>2, <1>4, <1>5

\* The next command.
LEMMA CmdStep == ASSUME IInv, [Next]_vars PROVE cmd' \in Commands
<1>0. cmd \in Commands /\ subID \in Nat
  BY DEF IInv, CallTypes, ScanTypes
<1>a. ASSUME NEW p \in Nat
      PROVE  /\ Fetch("HEADER", <<p>>) \in Commands /\ Fetch("MIME", <<p>>) \in Commands
             /\ \A q \in Nat : Fetch("MIME", <<p, q>>) \in Commands
  BY FetchCmds DEF FetchTypes
<1>1. CASE LoginAnswered \/ ListAnswered
  <2>1. cmd' \in {cmd, Cmd("EXAMINE"), Cmd("LIST")}
    BY <1>1 DEF LoginAnswered, ListAnswered, Go, GiveUp
  <2> QED
    BY <1>0, <2>1, CmdTypes
<1>2. CASE ExamineAnswered \/ SearchAnswered
  <2>1. cmd' \in {cmd, Cmd("SEARCH"), Cmd("LOGOUT"), Fetch("HEADER", <<1>>)}
    BY <1>2 DEF ExamineAnswered, SearchAnswered, StartFetch, Go, GiveUp
  <2> QED
    BY <1>0, <2>1, <1>a, CmdTypes
<1>3. CASE HeaderAnswered
  <2>0. cmd.type = "HEADER" /\ stage = "decide"
    BY <1>3 DEF HeaderAnswered, Answered
  <2>1. cmd.part = <<Len(headers)>> /\ Len(headers) \in Nat
    <3>1. headers \in Seq(SUBSET Commands)
      BY DEF IInv, BodyTypes
    <3> QED
      BY <2>0, <3>1, LenProperties DEF IInv, Progress, Busy
  <2>2. cmd' \in {cmd, Cmd("LOGOUT"), Fetch("MIME", <<1>>), Fetch("HEADER", <<cmd.part[1] + 1>>)}
    BY <1>3 DEF HeaderAnswered, Go, GiveUp
  <2>3. cmd.part[1] + 1 \in Nat
    BY <2>1
  <2> QED
    BY <1>0, <2>2, <2>3, <1>a, CmdTypes
<1>4. CASE PartAnswered
  <2>1. Len(cmd.part) = 1
    BY <1>4 DEF PartAnswered
  <2>2. cmd' \in {cmd, Fetch("MIME", <<cmd.part[1], subID>>), Fetch("MIME", <<cmd.part[1] + 1>>)}
    BY <1>4 DEF PartAnswered, Go
  <2>3. cmd.part[1] \in Nat /\ cmd.part[1] + 1 \in Nat
    BY <1>0, <2>1, PartOfCommand
  <2>4. Fetch("MIME", <<cmd.part[1] + 1>>) \in Commands
    BY <2>3, <1>a
  <2>5. Fetch("MIME", <<cmd.part[1], subID>>) \in Commands
    BY <1>0, <2>3, <1>a
  <2> QED
    BY <1>0, <2>2, <2>4, <2>5
<1>5. CASE SubAnswered
  <2>1. Len(cmd.part) = 2
    BY <1>5 DEF SubAnswered
  <2>2. cmd' \in {Fetch("MIME", <<cmd.part[1], subID + 1>>), Fetch("MIME", <<cmd.part[1] + 1>>)}
    BY <1>5 DEF SubAnswered, NextSub, LeaveMulti, Go
  <2>3. cmd.part[1] \in Nat /\ cmd.part[1] + 1 \in Nat /\ subID + 1 \in Nat
    BY <1>0, <2>1, PartOfCommand
  <2>4. Fetch("MIME", <<cmd.part[1] + 1>>) \in Commands
    BY <2>3, <1>a
  <2>5. Fetch("MIME", <<cmd.part[1], subID + 1>>) \in Commands
    BY <2>3, <1>a
  <2> QED
    BY <2>2, <2>4, <2>5
<1>6. CASE PickPart
  <2>1. CASE Go(Cmd("LOGOUT"))
    BY <2>1, CmdTypes DEF Go
  <2>2. CASE \E t \in {"TEXT", "ATTACHMENT"} :
               j' + 1 \in DOMAIN slots /\ Go(Fetch(t, slots[j' + 1].part))
    <3>1. slots[j' + 1].part \in Seq(Nat) /\ Len(slots[j' + 1].part) <= 2
      <4>1. slots[j' + 1] \in SlotTypes
        BY <2>2, ElementOfSeq, LenProperties DEF IInv, ScanTypes
      <4> QED
        BY <2>2, <4>1 DEF SlotTypes, IInv, ScanTypes
    <3> QED
      BY <2>2, <3>1, CmdTypes DEF Go, FetchTypes
  <2> QED
    BY <1>6, <2>1, <2>2, Picked
<1>7. CASE \/ ConnectFails \/ NullStream \/ FirstByte \/ TimeOut \/ EndWait \/ StartBodies
           \/ BodyAnswered \/ ConnectSucceeds \/ Send \/ ReadLine \/ LogoutAnswered \/ Out
  <2>1. cmd' = cmd
    BY <1>7 DEF ConnectFails, NullStream, FirstByte, TimeOut, EndWait, StartBodies,
                BodyAnswered, ConnectSucceeds, Send, ReadLine, LogoutAnswered, Out, GiveUp
  <2> QED
    BY <1>0, <2>1
<1>8. CASE Serve \/ Deliver \/ Disconnect \/ UNCHANGED vars
  BY <1>0, <1>8, ServerData
<1> QED
  BY <1>1, <1>2, <1>3, <1>4, <1>5, <1>6, <1>7, <1>8, Steps DEF Inner

LEMMA CallStep == ASSUME IInv, [Next]_vars PROVE CallTypes'
<1>0. /\ ask \in Asks /\ stage \in Stages
      /\ tries \in 0 .. MaxTries + 1 /\ (stage = "connect" => tries <= MaxTries)
      /\ late \in BOOLEAN /\ refused \in BOOLEAN
      /\ status \in {"none", "connect", "login", "bad", "response"}
      /\ result \in {"none", "true", "false"}
  BY DEF IInv, CallTypes
<1>a. ask' \in Asks
  BY <1>0, AskSame
<1>b. /\ cmd' \in Commands /\ wait' \in Wait
      /\ stage' = "first" \/ (stage' = "lines" /\ wait'.lf = 0) => wait' = NewWait
  BY CmdStep, WaitStep
<1>c. late' \in BOOLEAN /\ refused' \in BOOLEAN
  <2>1. CASE TimeOut
    BY <1>0, <2>1 DEF TimeOut
  <2>2. CASE Serve
    <3>1. PICK c, r :
            /\ refused' = (refused \/ (Holds(c) /\ r \in Refusal(c)))
            /\ late' = (late \/ (c.type = "SEARCH" /\ Len(r) > 2))
      BY <2>2 DEF Serve
    <3> QED
      BY <3>1
  <2>3. CASE ~TimeOut /\ ~Serve
    <3>1. CASE PartAnswered
      BY <1>0, <3>1 DEF PartAnswered, history
    <3>2. CASE PickPart
      BY <1>0, <3>2 DEF PickPart, history
    <3>3. CASE \/ ConnectFails \/ NullStream \/ FirstByte \/ EndWait \/ LoginAnswered
               \/ ListAnswered \/ ExamineAnswered \/ SearchAnswered
      BY <1>0, <3>3 DEF history, ConnectFails, NullStream, FirstByte, EndWait, LoginAnswered,
                  ListAnswered, ExamineAnswered, SearchAnswered
    <3>4. CASE HeaderAnswered \/ SubAnswered \/ StartBodies \/ BodyAnswered
      BY <1>0, <3>4 DEF history, HeaderAnswered, SubAnswered, StartBodies, BodyAnswered
    <3>5. CASE \/ ConnectSucceeds \/ Send \/ ReadLine \/ LogoutAnswered \/ Out
               \/ Deliver \/ Disconnect \/ UNCHANGED vars
      BY <1>0, <3>5 DEF history, vars, ConnectSucceeds, Send, ReadLine, LogoutAnswered, Out,
                  Deliver, Disconnect
    <3> QED
      BY <2>3, <3>1, <3>2, <3>3, <3>4, <3>5, Steps DEF Inner
  <2> QED
    BY <2>1, <2>2, <2>3
<1>d. ASSUME /\ stage' \in Stages
             /\ tries' \in 0 .. MaxTries + 1 /\ (stage' = "connect" => tries' <= MaxTries)
             /\ status' \in {"none", "connect", "login", "bad", "response"}
             /\ result' \in {"none", "true", "false"}
      PROVE  CallTypes'
  BY <1>a, <1>b, <1>c, <1>d DEF CallTypes
<1>1. CASE ConnectFails
  <2>1. /\ tries' = tries + 1 /\ stage = "connect"
        /\ status' \in {status, "connect"}
        /\ \/ tries < MaxTries /\ UNCHANGED <<stage, result>>
           \/ stage' = "done" /\ result' = "false"
    BY <1>1 DEF ConnectFails
  <2>2. /\ tries' \in 0 .. MaxTries + 1
        /\ tries < MaxTries => tries' <= MaxTries
    BY <1>0, <2>1 DEF MaxTries
  <2> QED
    BY <1>0, <1>d, <2>1, <2>2 DEF Stages
<1>2. CASE ConnectSucceeds
  <2>1. stage' = "send" /\ tries' = 0 /\ UNCHANGED <<status, result>>
    BY <1>2 DEF ConnectSucceeds, outcome
  <2> QED
    BY <1>0, <1>d, <2>1 DEF Stages, MaxTries
<1>3. CASE \/ LoginAnswered \/ ListAnswered \/ ExamineAnswered \/ SearchAnswered
           \/ HeaderAnswered \/ BodyAnswered \/ LogoutAnswered \/ Out
  <2>1. stage' \in Stages \ {"connect"} /\ tries' = tries
    BY <1>3 DEF LoginAnswered, ListAnswered, ExamineAnswered, SearchAnswered, HeaderAnswered,
                BodyAnswered, LogoutAnswered, Out, StartFetch, Go, GiveUp, Stages
  <2>2. /\ status' \in {status, "login", "bad", "response"}
        /\ result' \in {result, "true", "false"}
    BY <1>3 DEF LoginAnswered, ListAnswered, ExamineAnswered, SearchAnswered, HeaderAnswered,
                BodyAnswered, LogoutAnswered, Out, GiveUp
  <2> QED
    BY <1>0, <1>d, <2>1, <2>2
<1>4. CASE PartAnswered
  <2>1. stage' \in {"mount", "send"} /\ UNCHANGED <<tries, status, result>>
    BY <1>4 DEF PartAnswered, Go, outcome
  <2> QED
    BY <1>0, <1>d, <2>1 DEF Stages
<1>5. CASE SubAnswered \/ StartBodies
  <2>1. stage' \in {"pick", "send"} /\ UNCHANGED <<tries, status, result>>
    BY <1>5 DEF SubAnswered, StartBodies, NextSub, LeaveMulti, Go, outcome
  <2> QED
    BY <1>0, <1>d, <2>1 DEF Stages
<1>6. CASE PickPart
  <2>1. stage' = "send" /\ UNCHANGED <<tries, status, result>>
    BY <1>6 DEF PickPart, Go, outcome
  <2> QED
    BY <1>0, <1>d, <2>1 DEF Stages
<1>7. CASE NullStream \/ FirstByte \/ TimeOut \/ EndWait \/ Send \/ ReadLine
  <2>1. /\ stage' \in {"crashed", "lines", "decide", "first"}
        /\ UNCHANGED <<tries, status, result>>
    BY <1>7 DEF NullStream, FirstByte, TimeOut, EndWait, Send, ReadLine, outcome
  <2> QED
    BY <1>0, <1>d, <2>1 DEF Stages
<1>8. CASE Serve \/ Deliver \/ Disconnect \/ UNCHANGED vars
  BY <1>0, <1>8, <1>d, ServerData
<1> QED
  BY <1>1, <1>2, <1>3, <1>4, <1>5, <1>6, <1>7, <1>8, Steps DEF Inner

-----------------------------------------------------------------------------
\* What a line read is put into.

\* What readMail gets to know of a part that exists.
LEMMA KindTypes ==
    ASSUME ask \in Asks, NEW c \in Commands, c.part # <<>>, Exists(c.part)
    PROVE  PartAt(c.part).type \in PartTypes /\ PartAt(c.part).disp \in Dispositions
<1>1. c.part[1] \in DOMAIN ask.mail /\ Len(c.part) \in {1, 2}
      /\ (Len(c.part) = 2 => c.part[2] \in DOMAIN ask.mail[c.part[1]].subs)
  BY PartOfCommand DEF Exists
<1>2. ask.mail[c.part[1]] \in Parts
  BY <1>1, AsksAssumption, ElementOfSeq, LenProperties
<1>4. CASE Len(c.part) = 1
  <2>1. PartAt(c.part) = ask.mail[c.part[1]]
    BY <1>4 DEF PartAt
  <2>2. \A p \in Parts : p.type \in PartTypes /\ p.disp \in Dispositions
    BY DEF Parts, PartTypes
  <2> QED
    BY <1>2, <2>1, <2>2
<1>5. CASE Len(c.part) = 2
  <2>1. ask.mail[c.part[1]].subs[c.part[2]] \in Leaves
    BY <1>1, <1>2, <1>5, ElementOfSeq, LenProperties DEF Parts
  <2>2. Len(c.part) # 1
    BY <1>5
  <2> QED
    BY <2>1, <2>2 DEF PartAt, Leaves, PartTypes
<1> QED
  BY <1>1, <1>4, <1>5

\* A slot is written where messageDataIndex says, at the end at most.
LEMMA SlotRead ==
    ASSUME IInv, ReadLine
    PROVE  /\ slots' \in Seq(SlotTypes) /\ attCount' \in Nat
           /\ Len(slots') \in Nat /\ Len(slots') >= Len(slots)
           /\ slots' = slots \/ cmd.type = "MIME"
           /\ cmd.type = "MIME" /\ Stores("MIME", wait, Head(inbox)) =>
                dataIndex < Len(slots')
           /\ \A k \in DOMAIN slots' :
                 \/ k \in DOMAIN slots /\ slots'[k] = slots[k]
                 \/ /\ cmd.type = "MIME" /\ Head(inbox).kind = "body"
                    /\ slots'[k].part = cmd.part
<1> DEFINE line == Head(inbox)
<1>1. StoreSlot(line) /\ inbox # <<>>
  BY DEF ReadLine
<1>2. /\ slots \in Seq(SlotTypes) /\ Len(slots) \in Nat /\ DOMAIN slots = 1 .. Len(slots)
      /\ attCount \in Nat /\ dataIndex \in 0 .. Len(slots)
      /\ ask \in Asks /\ cmd \in Commands
  BY LenProperties DEF IInv, ScanTypes, CallTypes
<1>3. /\ line \in ReplyLines /\ line.of \in Commands
      /\ line.kind = "body" /\ line.of.type = "MIME" => Exists(line.of.part)
  BY <1>1, OneRead, LineTypes DEF IInv, LinkTypes, Describes
<1>4. CASE ~(cmd.type = "MIME" /\ Stores("MIME", wait, line))
  <2>1. UNCHANGED <<slots, attCount>>
    BY <1>1, <1>4 DEF StoreSlot
  <2> QED
    BY <1>2, <1>4, <2>1
<1>5. CASE cmd.type = "MIME" /\ Stores("MIME", wait, line)
  <2> DEFINE s == IF Len(slots) = dataIndex THEN Append(slots, NoSlot) ELSE slots
             old == s[dataIndex + 1]
             e == NewSlot(old, line)
  <2>1. /\ slots' = [s EXCEPT ![dataIndex + 1] = e]
        /\ attCount' \in {attCount, attCount + 1}
    BY <1>1, <1>5 DEF StoreSlot
  <2>2. s \in Seq(SlotTypes) /\ dataIndex + 1 \in DOMAIN s /\ Len(s) \in Nat
        /\ Len(s) >= Len(slots) /\ dataIndex < Len(s)
        /\ \A k \in DOMAIN s : (k \in DOMAIN slots /\ s[k] = slots[k]) \/ k = dataIndex + 1
    <3>1. NoSlot \in SlotTypes
      <4>1. <<>> \in Seq(Nat) /\ Len(<<>>) <= 2
        OBVIOUS
      <4> QED
        BY <4>1 DEF NoSlot, SlotTypes, PartTypes, LeafTypes, Dispositions
    <3>2. CASE Len(slots) = dataIndex
      <4>1. /\ Append(slots, NoSlot) \in Seq(SlotTypes)
            /\ Len(Append(slots, NoSlot)) = Len(slots) + 1
            /\ DOMAIN Append(slots, NoSlot) = 1 .. (Len(slots) + 1)
            /\ \A k \in DOMAIN slots : Append(slots, NoSlot)[k] = slots[k]
        BY <1>2, <3>1, OneMore
      <4> QED
        BY <1>2, <3>2, <4>1
    <3>3. CASE Len(slots) # dataIndex
      <4>1. s = slots
        BY <3>3
      <4>2. ASSUME NEW n \in Nat, NEW d \in 0 .. n, n # d
            PROVE  d + 1 \in 1 .. n /\ d < n
        BY <4>2
      <4>3. dataIndex + 1 \in 1 .. Len(slots) /\ dataIndex < Len(slots)
        BY <1>2, <3>3, <4>2
      <4> HIDE DEF s
      <4>4. Len(slots) >= Len(slots)
        BY <1>2
      <4> QED
        BY <1>2, <4>1, <4>3, <4>4
    <3> QED
      BY <3>2, <3>3
  <2> HIDE DEF s
  <2>3. old \in SlotTypes
    BY <2>2, ElementOfSeq, LenProperties
  <2> HIDE DEF old
  <2>o. /\ old.type \in PartTypes /\ old.disp \in Dispositions
        /\ old = [part |-> old.part, type |-> old.type, disp |-> old.disp]
    BY <2>3 DEF SlotTypes
  <2>4. /\ e.part = cmd.part /\ e.type \in PartTypes /\ e.disp \in Dispositions
        /\ e = [part |-> e.part, type |-> e.type, disp |-> e.disp]
    <3>1. CASE line.of.type # "MIME"
      <4>1. e = [part |-> cmd.part, type |-> old.type, disp |-> old.disp]
        BY <2>o, <3>1 DEF NewSlot
      <4> HIDE DEF e
      <4> QED
        BY <2>o, <4>1
    <3>2. CASE line.of.type = "MIME"
      <4>1. line.kind = "body" /\ line.of.part # <<>>
        BY <1>3, <1>5, <3>2, PartOfCommand DEF Stores
      <4>2. PICK p : p = PartAt(line.of.part)
        OBVIOUS
      <4>3. p.type \in PartTypes /\ p.disp \in Dispositions
        BY <1>2, <1>3, <3>2, <4>1, <4>2, KindTypes
      <4>4. e = [part |-> cmd.part, type |-> Over(old.type, p.type), disp |-> Over(old.disp, p.disp)]
        BY <3>2, <4>2 DEF NewSlot
      <4>5. Over(old.type, p.type) \in PartTypes /\ Over(old.disp, p.disp) \in Dispositions
        BY <2>o, <4>3 DEF Over
      <4> HIDE DEF e
      <4> QED
        BY <4>4, <4>5
    <3> QED
      BY <3>1, <3>2
  <2>5. e \in SlotTypes
    <3> HIDE DEF e
    <3> QED
      BY <1>2, <2>4 DEF Commands, SlotTypes
  <2> HIDE DEF e
  <2>6. /\ slots' \in Seq(SlotTypes) /\ Len(slots') = Len(s) /\ DOMAIN slots' = DOMAIN s
        /\ \A k \in DOMAIN s : slots'[k] = IF k = dataIndex + 1 THEN e ELSE s[k]
    BY <2>1, <2>2, <2>5, OneWritten
  <2>7. e.part = cmd.part /\ line.kind = "body"
    BY <1>5, <2>4 DEF Stores
  <2>8. \A k \in DOMAIN slots' : \/ k \in DOMAIN slots /\ slots'[k] = slots[k]
                                 \/ slots'[k].part = cmd.part
    BY <2>2, <2>6, <2>7
  <2> QED
    BY <1>2, <1>5, <2>1, <2>2, <2>6, <2>7, <2>8
<1> QED
  BY <1>4, <1>5

\* A header is written where its command says.
LEMMA HeaderRead ==
    ASSUME IInv, ReadLine
    PROVE  /\ headers' \in Seq(SUBSET Commands)
           /\ Len(headers') = Len(headers) /\ DOMAIN headers' = DOMAIN headers
           /\ headers = <<>> => headers' = <<>>
           /\ headers # <<>> => headers' # <<>>
           /\ \A i \in DOMAIN headers :
                 \/ headers'[i] = headers[i]
                 \/ /\ cmd.type = "HEADER" /\ cmd.part = <<i>>
                    /\ headers'[i] = headers[i] \cup {Head(inbox).of}
<1> DEFINE line == Head(inbox)
<1>1. StoreHeader(line) /\ inbox # <<>> /\ stage = "lines"
  BY DEF ReadLine
<1>2. headers \in Seq(SUBSET Commands) /\ Len(headers) \in Nat
      /\ DOMAIN headers = 1 .. Len(headers)
  BY LenProperties DEF IInv, BodyTypes
<1>3. line.of \in Commands
  BY <1>1, OneRead, LineTypes DEF IInv, LinkTypes
<1>4. CASE headers' = headers
  BY <1>2, <1>4
<1>5. CASE headers' # headers
  <2>1. /\ cmd.type = "HEADER"
        /\ headers' = [headers EXCEPT ![cmd.part[1]] = @ \cup {line.of}]
    BY <1>1, <1>5 DEF StoreHeader
  <2>2. cmd.part = <<Len(headers)>> /\ headers # <<>>
    BY <1>1, <2>1 DEF IInv, Progress, Busy
  <2>3. Len(headers) \in DOMAIN headers
    BY <1>2, <2>2, EmptySeq
  <2>4. headers[Len(headers)] \cup {line.of} \in SUBSET Commands
    BY <1>2, <1>3, <2>3, ElementOfSeq
  <2>5. headers' = [headers EXCEPT ![Len(headers)] = headers[Len(headers)] \cup {line.of}]
    <3>1. cmd.part[1] = Len(headers)
      BY <2>2
    <3> QED
      BY <2>1, <3>1
  <2> HIDE DEF line
  <2>6. /\ headers' \in Seq(SUBSET Commands)
        /\ Len(headers') = Len(headers) /\ DOMAIN headers' = DOMAIN headers
        /\ \A i \in DOMAIN headers :
             headers'[i] = IF i = Len(headers) THEN headers[Len(headers)] \cup {line.of}
                                               ELSE headers[i]
    BY <1>2, <2>3, <2>4, <2>5, OneWritten
  <2>7. headers' # <<>>
    BY <2>3, <2>6, NoLines
  <2> QED
    BY <2>1, <2>2, <2>6, <2>7 DEF line
<1> QED
  BY <1>4, <1>5

\* What a fetched part is put into has a place for it.
LEMMA OneStored ==
    ASSUME NEW s \in Seq(SUBSET Commands), NEW c \in Commands, NEW i \in DOMAIN s, NEW t,
           t = s \/ t = [s EXCEPT ![i] = @ \cup {c}]
    PROVE  /\ t \in Seq(SUBSET Commands) /\ Len(t) = Len(s) /\ DOMAIN t = DOMAIN s
           /\ \A k \in DOMAIN s : t[k] = s[k] \/ (k = i /\ t[k] = s[k] \cup {c})
<1>1. CASE t = s
  BY <1>1
<1>2. CASE t = [s EXCEPT ![i] = @ \cup {c}]
  <2>1. s[i] \cup {c} \in SUBSET Commands
    BY ElementOfSeq, LenProperties
  <2>2. t = [s EXCEPT ![i] = s[i] \cup {c}]
    BY <1>2
  <2> QED
    BY <2>1, <2>2, OneWritten
<1> QED
  BY <1>1, <1>2

LEMMA BodyRead ==
    ASSUME IInv, ReadLine
    PROVE  /\ text' \in Seq(SUBSET Commands) /\ file' \in Seq(SUBSET Commands)
           /\ Len(text') = Len(text) /\ Len(file') = Len(file)
           /\ text = <<>> => text' = <<>>
           /\ file = <<>> => file' = <<>>
           /\ DOMAIN text' = DOMAIN text /\ DOMAIN file' = DOMAIN file
           /\ \A k \in DOMAIN text :
                 \/ text'[k] = text[k]
                 \/ /\ cmd.type = "TEXT" /\ cmd.part = slots[k].part
                    /\ text'[k] = text[k] \cup {Head(inbox).of}
           /\ cmd.type = "TEXT" =>
                 /\ j + 1 \in DOMAIN text
                 /\ Stores("TEXT", wait, Head(inbox)) => text'[j + 1] # {}
           /\ \A k \in DOMAIN file :
                 \/ file'[k] = file[k]
                 \/ /\ cmd.type \in {"TEXT", "ATTACHMENT"} /\ cmd.part = slots[k].part
                    /\ file'[k] = file[k] \cup {Head(inbox).of}
<1> DEFINE line == Head(inbox)
<1>1. StoreBody(line) /\ inbox # <<>> /\ stage = "lines"
  BY DEF ReadLine
<1>2. text \in Seq(SUBSET Commands) /\ file \in Seq(SUBSET Commands)
  BY DEF IInv, BodyTypes
<1>3. line.of \in Commands
  BY <1>1, OneRead, LineTypes DEF IInv, LinkTypes
<1>3a. ASSUME cmd.type = "TEXT"
       PROVE  /\ j + 1 \in DOMAIN text
              /\ Stores("TEXT", wait, line) => text'[j + 1] # {}
  <2>1. /\ j + 1 \in DOMAIN slots /\ Len(text) = Len(slots) /\ slots \in Seq(SlotTypes)
    BY <1>1, <1>3a DEF IInv, Progress, Busy, Bodies, ScanTypes
  <2>2. j + 1 \in DOMAIN text
    BY <1>2, <2>1, LenProperties
  <2>3. ASSUME Stores("TEXT", wait, line) PROVE text'[j + 1] # {}
    <3>1. text' = [text EXCEPT ![j + 1] = @ \cup {line.of}]
      BY <1>1, <1>3a, <2>3 DEF StoreBody
    <3> HIDE DEF line
    <3>2. text'[j + 1] = text[j + 1] \cup {line.of}
      BY <1>2, <2>2, <3>1, LenProperties
    <3> QED
      BY <3>2
  <2> QED
    BY <2>2, <2>3
<1>4. CASE UNCHANGED <<text, file>>
  BY <1>2, <1>3a, <1>4
<1>5. CASE ~UNCHANGED <<text, file>>
  <2>1. /\ cmd.type \in {"TEXT", "ATTACHMENT"}
        /\ text' = text \/ (cmd.type = "TEXT" /\ text' = [text EXCEPT ![j + 1] = @ \cup {line.of}])
        /\ file' = file \/ file' = [file EXCEPT ![j + 1] = @ \cup {line.of}]
    BY <1>1, <1>5 DEF StoreBody
  <2>2. /\ Len(text) = Len(slots) /\ Len(file) = Len(text)
        /\ j + 1 \in DOMAIN slots /\ cmd.part = slots[j + 1].part
    BY <1>1, <2>1 DEF IInv, Progress, Busy, Bodies
  <2>3. DOMAIN text = DOMAIN slots /\ DOMAIN file = DOMAIN slots
    <3>1. slots \in Seq(SlotTypes)
      BY DEF IInv, ScanTypes
    <3> QED
      BY <1>2, <2>2, <3>1, LenProperties
  <2>4. text # <<>> /\ file # <<>>
    BY <2>2, <2>3, NoLines
  <2> HIDE DEF line
  <2>a. /\ j + 1 \in DOMAIN text /\ j + 1 \in DOMAIN file
        /\ text' = text \/ text' = [text EXCEPT ![j + 1] = @ \cup {line.of}]
    BY <2>1, <2>2, <2>3
  <2>5. /\ text' \in Seq(SUBSET Commands) /\ Len(text') = Len(text)
        /\ DOMAIN text' = DOMAIN text
        /\ \A k \in DOMAIN text :
              text'[k] = text[k] \/ (k = j + 1 /\ text'[k] = text[k] \cup {line.of})
    BY <1>2, <1>3, <2>1, <2>a, OneStored
  <2>6. /\ file' \in Seq(SUBSET Commands) /\ Len(file') = Len(file)
        /\ DOMAIN file' = DOMAIN file
        /\ \A k \in DOMAIN file :
              file'[k] = file[k] \/ (k = j + 1 /\ file'[k] = file[k] \cup {line.of})
    BY <1>2, <1>3, <2>1, <2>a, OneStored
  <2>7. \A k \in DOMAIN text :
           \/ text'[k] = text[k]
           \/ /\ cmd.type = "TEXT" /\ cmd.part = slots[k].part
              /\ text'[k] = text[k] \cup {line.of}
    BY <2>1, <2>2, <2>5
  <2>8. \A k \in DOMAIN file :
           \/ file'[k] = file[k]
           \/ /\ cmd.type \in {"TEXT", "ATTACHMENT"} /\ cmd.part = slots[k].part
              /\ file'[k] = file[k] \cup {line.of}
    BY <2>1, <2>2, <2>6
  <2> QED
    BY <1>3a, <2>4, <2>5, <2>6, <2>7, <2>8 DEF line
<1> QED
  BY <1>4, <1>5

LEMMA NumbersRead ==
    ASSUME IInv, ReadLine
    PROVE  /\ msgs' \in Seq(Nat) /\ total' \in Nat
           /\ msgs' = msgs \/ headers = <<>>
<1> DEFINE line == Head(inbox)
<1>1. StoreNumbers(line) /\ inbox # <<>> /\ stage = "lines"
  BY DEF ReadLine
<1>2. msgs \in Seq(Nat) /\ total \in Nat /\ ask.found \in Nat
  BY AsksAssumption DEF IInv, BodyTypes, CallTypes
<1>3. total' \in Nat
  BY <1>1, <1>2 DEF StoreNumbers
<1>4. [n \in 1 .. ask.found |-> n] \in Seq(Nat)
  <2>1. [n \in 1 .. ask.found |-> n] \in [1 .. ask.found -> Nat]
    BY <1>2
  <2> QED
    BY <1>2, <2>1, Filling
<1>5. <<0>> \in Seq(Nat)
  OBVIOUS
<1>6. msgs' \in {msgs, [n \in 1 .. ask.found |-> n], <<0>>} /\ (msgs' = msgs \/ cmd.type = "SEARCH")
  BY <1>1 DEF StoreNumbers
<1>7. cmd.type = "SEARCH" => headers = <<>>
  BY <1>1 DEF IInv, Progress, Busy, Early
<1> QED
  BY <1>2, <1>3, <1>4, <1>5, <1>6, <1>7

\* The slots, the headers and the bodies, and where readMail is with them.
Kept == ScanTypes /\ BodyTypes /\ Progress

\* Steps that leave what was read alone.
Alone == UNCHANGED <<msgs, total, headers, subID, slots, attCount, dataIndex, j,
                     text, file, sdOk>>

LEMMA KeptAlone == ASSUME IInv, Alone, Progress' PROVE Kept'
<1>1. ScanTypes' /\ BodyTypes'
  BY DEF IInv, ScanTypes, BodyTypes, Alone
<1> QED
  BY <1>1 DEF Kept

LEMMA AloneOut ==
    ASSUME Progress, Alone, stage' \in {"out", "done", "crashed"}
    PROVE  Progress'
<1>1. Len(text') \in {0, Len(slots')} /\ Len(file') = Len(text')
  BY DEF Progress, Alone
<1>2. ~Busy' /\ stage' \notin {"connect", "mount", "pick"}
  BY DEF Busy
<1> QED
  BY <1>1, <1>2 DEF Progress

LEMMA AloneBusy == ASSUME Progress, Alone, cmd' = cmd, Busy, Busy' PROVE Progress'
<1>1. Len(text') \in {0, Len(slots')} /\ Len(file') = Len(text')
  BY DEF Progress, Alone
<1>2. stage' \notin {"connect", "mount", "pick"} /\ stage \notin {"connect", "mount", "pick"}
  BY DEF Busy
<1> QED
  BY <1>1, <1>2 DEF Progress, Alone

LEMMA AloneConnect ==
    ASSUME Progress, Alone, cmd' = cmd, stage = "connect", stage' \in {"connect", "send"}
    PROVE  Progress'
<1>1. Len(text') \in {0, Len(slots')} /\ Len(file') = Len(text')
  BY DEF Progress, Alone
<1>2. headers' = <<>> /\ text' = <<>> /\ file' = <<>> /\ cmd'.type = "LOGIN"
  BY DEF Progress, Alone
<1> QED
  BY <1>1, <1>2 DEF Progress, Bodies

LEMMA AloneEarly ==
    ASSUME Progress, Alone, Busy, cmd.type \in Early, stage' = "send",
           cmd'.type \in {"LIST", "EXAMINE", "SEARCH"}
    PROVE  Progress'
<1>1. Len(text') \in {0, Len(slots')} /\ Len(file') = Len(text')
  BY DEF Progress, Alone
<1>2. headers' = <<>> /\ text' = <<>> /\ file' = <<>>
  BY DEF Progress, Alone, Early, Bodies
<1> QED
  BY <1>1, <1>2 DEF Progress, Bodies

LEMMA TalkKept ==
    ASSUME IInv,
           \/ ConnectFails \/ ConnectSucceeds \/ Send \/ NullStream \/ FirstByte \/ TimeOut
           \/ EndWait \/ LoginAnswered \/ ListAnswered \/ LogoutAnswered \/ Out
    PROVE  Kept'
<1>0. Alone /\ Progress
  BY TalkData DEF Alone, IInv
<1>1. CASE ConnectFails \/ ConnectSucceeds
  <2>1. cmd' = cmd /\ stage = "connect" /\ stage' \in {"connect", "send", "done"}
    BY <1>1 DEF ConnectFails, ConnectSucceeds
  <2> QED
    BY <1>0, <2>1, KeptAlone, AloneConnect, AloneOut
<1>2. CASE Send \/ FirstByte \/ TimeOut \/ EndWait
  <2>1. cmd' = cmd /\ Busy /\ Busy'
    BY <1>2 DEF Send, FirstByte, TimeOut, EndWait, Busy
  <2> QED
    BY <1>0, <2>1, KeptAlone, AloneBusy
<1>3. CASE LoginAnswered \/ ListAnswered
  <2>1. \/ stage' = "out"
        \/ /\ Busy /\ cmd.type \in Early /\ stage' = "send"
           /\ cmd'.type \in {"LIST", "EXAMINE", "SEARCH"}
    BY <1>3 DEF LoginAnswered, ListAnswered, Answered, Busy, Early, Go, GiveUp, Cmd
  <2> QED
    BY <1>0, <2>1, KeptAlone, AloneEarly, AloneOut
<1>4. CASE LogoutAnswered \/ Out \/ NullStream
  <2>1. stage' \in {"out", "done", "crashed"}
    BY <1>4 DEF LogoutAnswered, Out, NullStream, GiveUp
  <2> QED
    BY <1>0, <2>1, KeptAlone, AloneOut
<1> QED
  BY <1>1, <1>2, <1>3, <1>4

LEMMA ReadKept == ASSUME IInv, ReadLine PROVE Kept'
<1>1. /\ stage = "lines" /\ stage' \in {"lines", "decide"} /\ cmd' = cmd
      /\ UNCHANGED <<subID, dataIndex, j, sdOk>>
  BY DEF ReadLine
<1>2. /\ subID \in Nat /\ dataIndex \in 0 .. Len(slots) /\ j \in 0 .. Len(slots)
      /\ slots \in Seq(SlotTypes) /\ Len(slots) \in Nat
      /\ sdOk \in BOOLEAN /\ Len(headers) <= Len(msgs)
      /\ headers \in Seq(SUBSET Commands) /\ msgs \in Seq(Nat)
  BY LenProperties DEF IInv, ScanTypes, BodyTypes
<1>3. ScanTypes'
  <2>1. /\ slots' \in Seq(SlotTypes) /\ attCount' \in Nat
        /\ Len(slots') \in Nat /\ Len(slots') >= Len(slots)
    BY SlotRead
  <2>2. dataIndex \in 0 .. Len(slots')
    BY <1>2, <2>1
  <2> QED
    BY <1>1, <1>2, <2>1, <2>2 DEF ScanTypes
<1>4. BodyTypes'
  <2>1. j \in 0 .. Len(slots')
    <3>1. Len(slots') \in Nat /\ Len(slots') >= Len(slots)
      BY SlotRead
    <3> QED
      BY <1>2, <3>1
  <2>2. Len(headers') <= Len(msgs')
    <3>1. Len(headers') = Len(headers) /\ msgs' \in Seq(Nat)
      BY HeaderRead, NumbersRead
    <3>2. CASE msgs' = msgs
      BY <1>2, <3>1, <3>2
    <3>3. CASE headers = <<>>
      <4>1. Len(msgs') \in Nat /\ Len(headers) = 0
        BY <3>1, <3>3, LenProperties, NoLines
      <4> QED
        BY <3>1, <4>1
    <3> QED
      BY <3>2, <3>3, NumbersRead
  <2> QED
    BY <1>1, <1>2, <2>1, <2>2, HeaderRead, BodyRead, NumbersRead DEF BodyTypes
<1>5. Progress'
  <2>1. Progress
    BY DEF IInv
  <2>2. slots' = slots \/ cmd.type = "MIME"
    BY SlotRead
  <2>3. /\ Len(headers') = Len(headers)
        /\ headers = <<>> => headers' = <<>>
        /\ headers # <<>> => headers' # <<>>
    BY HeaderRead
  <2>4. /\ Len(text') = Len(text) /\ Len(file') = Len(file)
        /\ text = <<>> => text' = <<>>
        /\ file = <<>> => file' = <<>>
    BY BodyRead
  <2>5. cmd.type = "MIME" => Len(text') = 0
    BY <1>1, <2>1, <2>4, NoLines DEF Progress, Busy, Bodies
  <2>6. Len(text') \in {0, Len(slots')} /\ Len(file') = Len(text')
    BY <2>1, <2>2, <2>4, <2>5 DEF Progress
  <2>7. Busy /\ Busy' /\ stage # "pick" /\ stage' \notin {"pick", "connect", "mount"}
    BY <1>1 DEF Busy
  <2>8. cmd.type \in Bodies => slots' = slots
    BY <2>2 DEF Bodies
  <2> QED
    BY <1>1, <2>1, <2>3, <2>4, <2>6, <2>7, <2>8 DEF Progress
<1> QED
  BY <1>3, <1>4, <1>5 DEF Kept

\* The headers fetched so far.
LEMMA HeadersKept ==
    ASSUME IInv, ExamineAnswered \/ SearchAnswered \/ HeaderAnswered
    PROVE  Kept'
<1>0. /\ headers \in Seq(SUBSET Commands) /\ msgs \in Seq(Nat) /\ total \in Nat
      /\ Len(headers) \in Nat /\ Len(msgs) \in Nat /\ Len(headers) <= Len(msgs)
  BY LenProperties DEF IInv, BodyTypes
<1>1. /\ stage = "decide" /\ cmd.type \in {"EXAMINE", "SEARCH", "HEADER"}
      /\ UNCHANGED <<subID, slots, attCount, dataIndex, j, text, file, sdOk, total>>
  BY DEF ExamineAnswered, SearchAnswered, HeaderAnswered, Answered, scan, body
<1>2. /\ text = <<>> /\ file = <<>>
      /\ cmd.type \in Early => headers = <<>>
      /\ cmd.type = "HEADER" => cmd.part = <<Len(headers)>> /\ headers # <<>>
  BY <1>1 DEF IInv, Progress, Busy, Bodies
<1>3. Len(text) \in {0, Len(slots)} /\ Len(file) = Len(text)
  BY DEF IInv, Progress
<1>4. ASSUME /\ msgs' \in Seq(Nat) /\ headers' \in Seq(SUBSET Commands)
             /\ Len(headers') <= Len(msgs')
             /\ \/ stage' = "out"
                \/ stage' = "send" /\ cmd'.type \in {"LOGOUT", "MIME"}
                \/ stage' = "send" /\ cmd'.type = "SEARCH" /\ headers' = <<>>
                \/ /\ stage' = "send" /\ cmd'.type = "HEADER"
                   /\ headers' # <<>> /\ cmd'.part = <<Len(headers')>>
      PROVE  Kept'
  <2>1. ScanTypes' /\ BodyTypes'
    BY <1>1, <1>4 DEF IInv, ScanTypes, BodyTypes
  <2>2. Progress'
    BY <1>1, <1>2, <1>3, <1>4 DEF Progress, Busy, Early, Bodies
  <2> QED
    BY <2>1, <2>2 DEF Kept
<1>5. ASSUME NEW m \in Seq(Nat), msgs' = m, StartFetch(m) PROVE Kept'
  <2>1. CASE m = <<>>
    <3>1. stage' = "send" /\ cmd' = Cmd("LOGOUT") /\ headers' = headers
      BY <1>5, <2>1 DEF StartFetch, Go
    <3>2. CASE cmd.type \in Early
      <4>1. headers' = <<>> /\ Len(headers') = 0 /\ Len(m) \in Nat
        BY <1>2, <3>1, <3>2, NoLines, LenProperties
      <4>2. Len(headers') <= Len(m)
        BY <4>1
      <4> QED
        BY <1>4, <1>5, <3>1, <4>1, <4>2, NoLines, CmdTypes
    <3>3. CASE cmd.type = "HEADER"
      <4>1. msgs' = msgs
        BY <3>3 DEF HeaderAnswered, ExamineAnswered, SearchAnswered, Answered
      <4>2. msgs # <<>>
        BY <1>0, <1>2, <3>3, EmptySeq, NoLines
      <4> QED
        BY <1>5, <2>1, <4>1, <4>2
    <3> QED
      BY <1>1, <3>2, <3>3 DEF Early
  <2>2. CASE m # <<>>
    <3>1. stage' = "send" /\ cmd' = Fetch("HEADER", <<1>>) /\ headers' = <<{}>>
      BY <1>5, <2>2 DEF StartFetch, Go
    <3>2. <<{}>> \in Seq(SUBSET Commands) /\ Len(<<{}>>) = 1 /\ <<{}>> # <<>>
      OBVIOUS
    <3>3. Len(m) \in Nat /\ Len(m) # 0
      BY <2>2, EmptySeq, LenProperties
    <3>4. Len(headers') <= Len(m)
      BY <3>1, <3>2, <3>3
    <3> QED
      BY <1>4, <1>5, <3>1, <3>2, <3>4 DEF Fetch
  <2> QED
    BY <2>1, <2>2
<1>6. CASE ExamineAnswered
  <2>1. CASE stage' = "out" /\ UNCHANGED <<msgs, headers>>
    BY <1>0, <1>4, <2>1
  <2>2. CASE stage' = "send" /\ cmd' = Cmd("SEARCH") /\ UNCHANGED <<msgs, headers>>
    <3>1. headers = <<>>
      BY <1>2, <1>6 DEF ExamineAnswered, Answered, Early
    <3> QED
      BY <1>0, <1>4, <2>2, <3>1, CmdTypes
  <2>3. CASE msgs' = <<IF ask.uid THEN 1 ELSE total>> /\ StartFetch(msgs')
    <3>1. (IF ask.uid THEN 1 ELSE total) \in Nat
      BY <1>0
    <3>2. msgs' \in Seq(Nat)
      BY <2>3, <3>1
    <3> QED
      BY <1>5, <2>3, <3>2
  <2> QED
    BY <1>6, <2>1, <2>2, <2>3 DEF ExamineAnswered, Go, GiveUp
<1>7. CASE SearchAnswered
  <2>1. CASE stage' = "out" /\ UNCHANGED <<msgs, headers>>
    BY <1>0, <1>4, <2>1
  <2>2. CASE msgs' = msgs /\ StartFetch(msgs)
    BY <1>0, <1>5, <2>2
  <2> QED
    BY <1>7, <2>1, <2>2 DEF SearchAnswered, GiveUp
<1>8. CASE HeaderAnswered
  <2>0. msgs' = msgs /\ cmd.part = <<Len(headers)>> /\ cmd.part[1] = Len(headers)
    <3>1. msgs' = msgs /\ cmd.type = "HEADER"
      BY <1>8 DEF HeaderAnswered, Answered
    <3> QED
      BY <1>2, <3>1
  <2>1. CASE UNCHANGED headers /\ (stage' = "out" \/ (stage' = "send" /\ cmd'.type \in {"LOGOUT", "MIME"}))
    BY <1>0, <1>4, <2>0, <2>1
  <2>2. CASE /\ Len(headers) < Len(msgs) /\ headers' = Append(headers, {})
             /\ stage' = "send" /\ cmd' = Fetch("HEADER", <<Len(headers) + 1>>)
    <3>1. /\ headers' \in Seq(SUBSET Commands) /\ Len(headers') = Len(headers) + 1
      BY <1>0, <2>2, OneMore
    <3>2. headers' # <<>>
      BY <1>0, <3>1, NoLines
    <3>3. Len(headers') <= Len(msgs)
      BY <1>0, <2>2, <3>1
    <3> QED
      BY <1>0, <1>4, <2>0, <2>2, <3>1, <3>2, <3>3 DEF Fetch
  <2> QED
    BY <1>8, <2>0, <2>1, <2>2 DEF HeaderAnswered, Go, GiveUp, Cmd, Fetch
<1> QED
  BY <1>6, <1>7, <1>8

\* The scan of the parts.
LEMMA PartKept == ASSUME IInv, PartAnswered PROVE Kept'
<1>0. /\ slots \in Seq(SlotTypes) /\ Len(slots) \in Nat /\ DOMAIN slots = 1 .. Len(slots)
      /\ dataIndex \in 0 .. Len(slots) /\ j \in 0 .. Len(slots)
  BY LenProperties DEF IInv, ScanTypes, BodyTypes
<1>1. /\ UNCHANGED <<msgs, total, headers, subID, attCount, j, text, file, sdOk>>
      /\ stage = "decide" /\ cmd.type = "MIME"
  BY DEF PartAnswered, Answered, body
<1>2. text = <<>> /\ file = <<>> /\ Len(text) = 0 /\ Len(file) = Len(text)
  BY <1>1, NoLines DEF IInv, Progress, Busy, Bodies
<1> DEFINE s == IF Len(slots) = dataIndex THEN Append(slots, NoSlot) ELSE slots
<1>3. /\ slots' \in {slots, s} /\ dataIndex' \in {dataIndex, dataIndex + 1}
      /\ dataIndex' # dataIndex => slots' = s
      /\ \/ stage' = "mount"
         \/ stage' = "send" /\ cmd'.type = "MIME"
  <2>1. cmd' \in {cmd, Fetch("MIME", <<cmd.part[1], subID>>), Fetch("MIME", <<cmd.part[1] + 1>>)}
    BY DEF PartAnswered, Go
  <2>2. cmd'.type = "MIME"
    BY <1>1, <2>1 DEF Fetch
  <2>3. stage' \in {"mount", "send"}
    BY DEF PartAnswered, Go
  <2>4. (slots' = slots /\ dataIndex' = dataIndex) \/ slots' = s
    BY DEF PartAnswered
  <2>5. dataIndex' \in {dataIndex, dataIndex + 1}
    BY DEF PartAnswered
  <2> QED
    BY <2>2, <2>3, <2>4, <2>5
<1>4. s \in Seq(SlotTypes) /\ Len(s) \in Nat /\ Len(slots) <= Len(s) /\ dataIndex + 1 <= Len(s)
  <2>1. NoSlot \in SlotTypes
    <3>1. <<>> \in Seq(Nat) /\ Len(<<>>) <= 2
      OBVIOUS
    <3> QED
      BY <3>1 DEF NoSlot, SlotTypes, PartTypes, LeafTypes, Dispositions
  <2>2. CASE Len(slots) = dataIndex
    <3>1. s = Append(slots, NoSlot)
      BY <2>2
    <3> HIDE DEF s
    <3>2. s \in Seq(SlotTypes) /\ Len(s) = Len(slots) + 1
      BY <1>0, <2>1, <3>1, OneMore
    <3> QED
      BY <1>0, <2>2, <3>2
  <2>3. CASE Len(slots) # dataIndex
    <3>1. s = slots
      BY <2>3
    <3>2. ASSUME NEW n \in Nat, NEW d \in 0 .. n, n # d PROVE d + 1 <= n
      BY <3>2
    <3> HIDE DEF s
    <3>3. dataIndex + 1 <= Len(slots)
      BY <1>0, <2>3, <3>2
    <3>4. Len(slots) <= Len(slots)
      BY <1>0
    <3> QED
      BY <1>0, <3>1, <3>3, <3>4
  <2> QED
    BY <2>2, <2>3
<1> HIDE DEF s
<1>5. /\ slots' \in Seq(SlotTypes) /\ Len(slots') \in Nat /\ Len(slots) <= Len(slots')
      /\ dataIndex' \in Nat /\ dataIndex' <= Len(slots')
  BY <1>0, <1>3, <1>4
<1>6. ScanTypes'
  <2>1. dataIndex' \in 0 .. Len(slots')
    BY <1>5
  <2> QED
    BY <1>1, <1>5, <2>1 DEF IInv, ScanTypes
<1>7. BodyTypes'
  <2>1. j \in 0 .. Len(slots')
    BY <1>0, <1>5
  <2> QED
    BY <1>1, <2>1 DEF IInv, BodyTypes
<1>8. Progress'
  <2>1. Len(text') = 0 /\ Len(file') = 0 /\ text' = <<>> /\ file' = <<>>
    BY <1>1, <1>2
  <2> QED
    BY <1>3, <2>1 DEF Progress, Busy, Early, Bodies
<1> QED
  BY <1>6, <1>7, <1>8 DEF Kept

\* The part of a multipart that was described is in its slot: dataIndex may
\* move past it.
LEMMA DescribedInSlot ==
    ASSUME IInv, stage = "decide", cmd.type = "MIME", wait.valid
    PROVE  dataIndex < Len(slots)
<1>1. wait \in Wait
  BY DEF IInv, CallTypes
<1>2. wait.complete /\ wait.payload # 0
  BY DEF IInv, Filled
<1>3. wait.payload \in Nat /\ wait.got \in Nat
  BY <1>1 DEF Wait
<1>4. Announced
  BY <1>2, <1>3 DEF Announced
<1>5. wait.got # 0
  BY <1>2, <1>4 DEF IInv, Filled
<1>6. wait.got > 0
  BY <1>3, <1>5
<1> QED
  BY <1>4, <1>6 DEF IInv, Filled, Stored

LEMMA SubKept == ASSUME IInv, SubAnswered PROVE Kept'
<1>0. /\ slots \in Seq(SlotTypes) /\ Len(slots) \in Nat
      /\ dataIndex \in 0 .. Len(slots) /\ subID \in Nat
  BY LenProperties DEF IInv, ScanTypes
<1>1. /\ UNCHANGED <<msgs, total, headers, slots, attCount, j, text, file, sdOk>>
      /\ stage = "decide" /\ cmd.type = "MIME" /\ stage' = "send" /\ cmd'.type = "MIME"
  BY DEF SubAnswered, Answered, body, NextSub, LeaveMulti, Go, Fetch
<1>2. text = <<>> /\ file = <<>> /\ Len(text) = 0 /\ Len(file) = Len(text)
  BY <1>1, NoLines DEF IInv, Progress, Busy, Bodies
<1>3. dataIndex' \in 0 .. Len(slots) /\ subID' \in Nat
  <2>1. CASE wait.valid
    <3>1. dataIndex' = dataIndex + 1 /\ subID' = subID + 1
      BY <2>1 DEF SubAnswered, NextSub
    <3>2. dataIndex < Len(slots)
      BY <1>1, <2>1, DescribedInSlot
    <3> QED
      BY <1>0, <3>1, <3>2
  <2>2. CASE ~wait.valid
    BY <1>0, <2>2 DEF SubAnswered, LeaveMulti
  <2> QED
    BY <2>1, <2>2
<1>4. ScanTypes' /\ BodyTypes'
  BY <1>1, <1>3 DEF IInv, ScanTypes, BodyTypes
<1>5. Progress'
  <2>1. Len(text') = 0 /\ Len(file') = 0 /\ text' = <<>> /\ file' = <<>>
    BY <1>1, <1>2
  <2> QED
    BY <1>1, <2>1 DEF Progress, Busy, Early, Bodies
<1> QED
  BY <1>4, <1>5 DEF Kept

\* The texts and the attachments.
LEMMA StartKept == ASSUME IInv, StartBodies PROVE Kept'
<1>0. /\ slots \in Seq(SlotTypes) /\ Len(slots) \in Nat /\ DOMAIN slots = 1 .. Len(slots)
      /\ sdOk \in BOOLEAN
  BY LenProperties DEF IInv, ScanTypes, BodyTypes
<1>1. /\ UNCHANGED <<msgs, total, headers, subID, slots, attCount, dataIndex>>
      /\ stage' = "pick" /\ j' = 0
      /\ text' = [k \in DOMAIN slots |-> {}] /\ file' = [k \in DOMAIN slots |-> {}]
  BY DEF StartBodies, scan
<1>2. sdOk' \in BOOLEAN
  BY <1>0 DEF StartBodies
<1>3. [k \in 1 .. Len(slots) |-> {}] \in [1 .. Len(slots) -> SUBSET Commands]
  OBVIOUS
<1>4. /\ text' \in Seq(SUBSET Commands) /\ Len(text') = Len(slots)
      /\ file' \in Seq(SUBSET Commands) /\ Len(file') = Len(slots)
  BY <1>0, <1>1, <1>3, Filling
<1>5. j' \in 0 .. Len(slots)
  BY <1>0, <1>1
<1>6. ScanTypes' /\ BodyTypes'
  BY <1>1, <1>2, <1>4, <1>5 DEF IInv, ScanTypes, BodyTypes
<1>7. Progress'
  BY <1>1, <1>4 DEF Progress, Busy
<1> QED
  BY <1>6, <1>7 DEF Kept

LEMMA PickKept == ASSUME IInv, PickPart PROVE Kept'
<1>0. /\ j \in 0 .. Len(slots) /\ sdOk \in BOOLEAN /\ Len(slots) \in Nat
      /\ slots \in Seq(SlotTypes)
  BY LenProperties DEF IInv, ScanTypes, BodyTypes
<1>1. /\ UNCHANGED <<msgs, total, headers, subID, slots, attCount, dataIndex, text, file>>
      /\ stage = "pick"
  BY DEF PickPart, scan
<1>2. Len(text) = Len(slots) /\ Len(file) = Len(text)
  BY <1>1 DEF IInv, Progress
<1>3. CASE Go(Cmd("LOGOUT")) /\ j' = j /\ sdOk' = FALSE
  <2>1. ScanTypes' /\ BodyTypes'
    BY <1>1, <1>3 DEF IInv, ScanTypes, BodyTypes
  <2>2. Progress'
    BY <1>1, <1>2, <1>3, CmdTypes DEF Progress, Busy, Go, Early, Bodies
  <2> QED
    BY <2>1, <2>2 DEF Kept
<1>4. CASE /\ j' \in j .. Len(slots) - 1 /\ j' + 1 \in DOMAIN slots /\ sdOk' = sdOk
           /\ \E t \in {"TEXT", "ATTACHMENT"} : Go(Fetch(t, slots[j' + 1].part))
  <2>1. j' \in 0 .. Len(slots)
    BY <1>0, <1>4
  <2>2. ScanTypes' /\ BodyTypes'
    BY <1>1, <1>4, <2>1 DEF IInv, ScanTypes, BodyTypes
  <2>3. stage' = "send" /\ cmd'.type \in {"TEXT", "ATTACHMENT"} /\ cmd'.part = slots[j' + 1].part
    BY <1>4 DEF Go, Fetch
  <2>4. Progress'
    BY <1>1, <1>2, <1>4, <2>3 DEF Progress, Busy, Early, Bodies
  <2> QED
    BY <2>2, <2>4 DEF Kept
<1> QED
  BY <1>3, <1>4, Picked

LEMMA BodyKept == ASSUME IInv, BodyAnswered PROVE Kept'
<1>0. /\ j \in 0 .. Len(slots) /\ Len(slots) \in Nat /\ slots \in Seq(SlotTypes)
      /\ DOMAIN slots = 1 .. Len(slots)
  BY LenProperties DEF IInv, ScanTypes, BodyTypes
<1>1. /\ UNCHANGED <<msgs, total, headers, subID, slots, attCount, dataIndex, text, file, sdOk>>
      /\ stage = "decide" /\ stage' = "pick" /\ j' = j + 1 /\ cmd.type \in Bodies
  BY DEF BodyAnswered, Answered, scan, Bodies
<1>2. Len(text) = Len(slots) /\ Len(file) = Len(text) /\ j + 1 \in DOMAIN slots
  BY <1>1 DEF IInv, Progress, Busy
<1>3. j' \in 0 .. Len(slots)
  BY <1>0, <1>1, <1>2
<1>4. ScanTypes' /\ BodyTypes'
  BY <1>1, <1>3 DEF IInv, ScanTypes, BodyTypes
<1>5. Progress'
  BY <1>1, <1>2 DEF Progress, Busy
<1> QED
  BY <1>4, <1>5 DEF Kept

LEMMA DataStep == ASSUME IInv, [Next]_vars PROVE Kept'
<1>1. CASE Serve \/ Deliver \/ Disconnect \/ UNCHANGED vars
  BY <1>1, ServerData DEF IInv, Kept, ScanTypes, BodyTypes, Progress, Busy
<1> QED
  BY <1>1, Steps, TalkKept, ReadKept, HeadersKept, PartKept, SubKept, StartKept, PickKept,
     BodyKept DEF Inner

-----------------------------------------------------------------------------
\* What a wait for the header of a part knows.

\* These steps end in no wait.
LEMMA NoWait ==
    \/ ConnectFails \/ ConnectSucceeds \/ Send \/ NullStream \/ LoginAnswered \/ ListAnswered
    \/ ExamineAnswered \/ SearchAnswered \/ HeaderAnswered \/ PartAnswered \/ SubAnswered
    \/ StartBodies \/ PickPart \/ BodyAnswered \/ LogoutAnswered \/ Out
    => stage' \notin {"lines", "decide"}
<1>1. ConnectFails \/ ConnectSucceeds \/ Send \/ NullStream \/ LoginAnswered \/ ListAnswered
      => stage' \notin {"lines", "decide"}
  BY DEF ConnectFails, ConnectSucceeds, Send, NullStream, LoginAnswered, ListAnswered, Go, GiveUp
<1>2. ExamineAnswered \/ SearchAnswered => stage' \notin {"lines", "decide"}
  BY DEF ExamineAnswered, SearchAnswered, StartFetch, Go, GiveUp
<1>3. HeaderAnswered \/ SubAnswered => stage' \notin {"lines", "decide"}
  BY DEF HeaderAnswered, SubAnswered, NextSub, LeaveMulti, Go, GiveUp
<1>4. PartAnswered => stage' \notin {"lines", "decide"}
  BY DEF PartAnswered, Go
<1>5. PickPart => stage' \notin {"lines", "decide"}
  BY DEF PickPart, Go
<1>6. StartBodies \/ BodyAnswered \/ LogoutAnswered \/ Out => stage' \notin {"lines", "decide"}
  BY DEF StartBodies, BodyAnswered, LogoutAnswered, Out, GiveUp
<1> QED
  BY <1>1, <1>2, <1>3, <1>4, <1>5, <1>6

\* The literal of a part or of a text is announced by the first line of its
\* reply, and the next line is stored.
LEMMA ReadFilled ==
    ASSUME IInv, ReadLine, cmd.type \in {"MIME", "TEXT"}
    PROVE  Filled'
<1> DEFINE line == Head(inbox)
<1>1. /\ stage = "lines" /\ inbox # <<>> /\ inbox' = Tail(inbox) /\ cmd' = cmd
      /\ wait' = Take(WaitType(cmd), wait, line)
      /\ stage' = (IF wait'.broken THEN "decide" ELSE "lines")
      /\ UNCHANGED <<conn, toSrv, owed, dataIndex, j>>
  BY DEF ReadLine
<1>2. /\ wait \in Wait /\ inbox \in Seq(ReplyLines) /\ owed \in Seq(ReplyLines)
      /\ wait.lf = 0 => wait = NewWait
      /\ Describes(inbox) /\ Paired(inbox)
      /\ conn = "up" => Whole(inbox) \/ BodyFirst(owed)
      /\ dataIndex \in 0 .. Len(slots) /\ Len(slots) \in Nat
  BY <1>1, LenProperties DEF IInv, CallTypes, LinkTypes, Literals, ScanTypes
<1>3. /\ line \in ReplyLines /\ line = inbox[1]
      /\ line.size = IF line.kind = "literal" THEN 1 ELSE 0
  BY <1>1, <1>2, OneRead, LineTypes
<1> DEFINE t == cmd.type
<1>4. WaitType(cmd) = t /\ t \in Types \ {"SEARCH"} /\ t \in FetchTypes
  BY DEF WaitType, Types, FetchTypes
<1>5. /\ wait'.lf = 1
      /\ wait'.payload = IF wait.lf = 0 THEN line.size ELSE wait.payload
      /\ wait'.got = Read(wait)
      /\ wait'.valid = ValidAfter(t, wait, line)
      /\ wait'.complete = CompleteAfter(t, wait, line)
      /\ wait'.broken = FALSE
  <2>1. wait' = Take(t, wait, line)
    BY <1>1, <1>4
  <2> HIDE DEF line, t
  <2> QED
    BY <1>2, <1>3, <1>4, <2>1, Taken
<1>a. ASSUME line.kind \in Tagged, wait.payload = 0, t = "MIME" PROVE ~wait'.valid
  <2>1. ~ValidAfter("MIME", wait, line)
    BY <1>a DEF ValidAfter, Tagged
  <2> QED
    BY <1>5, <1>a, <2>1
<1>b. ASSUME wait.payload = 0, t = "TEXT", ~wait.complete PROVE ~wait'.complete
  <2>1. ~CompleteAfter("TEXT", wait, line)
    BY <1>b DEF CompleteAfter, EndsAtTag
  <2> QED
    BY <1>5, <1>b, <2>1
<1>6. stage' = "lines"
  BY <1>1, <1>5
<1>7. wait.payload \in Nat /\ wait.got \in Nat /\ wait.lf \in {0, 1}
  BY <1>2 DEF Wait
<1>8. CASE wait.lf = 0
  <2>1. wait.payload = 0 /\ wait.got = 0 /\ wait.valid = FALSE /\ wait.complete = FALSE
    BY <1>2, <1>8 DEF NewWait
  <2>2. wait'.got = 0
    BY <1>5, <2>1 DEF Read
  <2>3. wait'.payload > 0 => line.kind = "literal"
    BY <1>3, <1>5, <1>8
  <2>4. line.kind = "literal" => wait'.valid /\ ~wait'.complete
    BY <1>4, <1>5, <1>8, <2>1 DEF ValidAfter, CompleteAfter, Tagged
  <2>5. t = "MIME" /\ wait'.valid /\ wait'.payload = 0 => ~wait'.complete
    <3>1. t = "MIME" /\ line.kind \in Tagged => ~wait'.valid
      BY <2>1, <1>a
    <3>2. line.kind \notin Tagged => ~wait'.complete
      BY <1>5, <2>1 DEF CompleteAfter
    <3> QED
      BY <3>1, <3>2
  <2>6. line.kind = "literal" =>
           IF inbox' # <<>> THEN BodyFirst(inbox') ELSE conn = "up" => BodyFirst(owed)
    <3> SUFFICES ASSUME line.kind = "literal", Tail(inbox) = <<>>, conn = "up"
                 PROVE  BodyFirst(owed)
      BY <1>1, <1>2, DescribedTail
    <3>0. Len(inbox) = 1
      <4>1. Len(Tail(inbox)) = Len(inbox) - 1 /\ Len(inbox) \in Nat
        BY <1>1, <1>2, OneRead
      <4>2. Len(Tail(inbox)) = 0
        BY NoLines
      <4> QED
        BY <4>1, <4>2
    <3>1. ~Whole(inbox)
      BY <1>1, <1>3, <3>0 DEF Whole
    <3> QED
      BY <1>2, <3>1
  <2>7. BodyFirst(inbox)' = BodyFirst(inbox') /\ BodyFirst(owed)' = BodyFirst(owed')
    BY DEF BodyFirst
  <2>8. t = "TEXT" => ~wait'.complete \/ wait'.payload # 0
    BY <2>1, <1>b
  <2> QED
    BY <1>1, <1>5, <1>6, <2>2, <2>3, <2>4, <2>5, <2>6, <2>7, <2>8 DEF Filled, Announced
<1>9. CASE wait.lf = 1
  <2>1. wait'.payload = wait.payload
    BY <1>5, <1>9
  <2>2. ASSUME wait.payload > 0
        PROVE  wait'.got # 0 /\ Stored'
    <3>1. CASE wait.got > 0
      <4>1. Stored
        BY <1>1, <2>2, <3>1 DEF IInv, Filled, Announced
      <4>3. Read(wait) # 0
        BY <1>7, <3>1 DEF Read
      <4>2. CASE t = "MIME"
        <5>1. Len(slots') \in Nat /\ Len(slots') >= Len(slots)
          BY SlotRead
        <5>2. dataIndex < Len(slots)
          BY <4>1, <4>2 DEF Stored
        <5>3. dataIndex' < Len(slots')
          BY <1>1, <1>2, <5>1, <5>2
        <5>4. Stored'
          BY <1>1, <4>2, <5>3 DEF Stored
        <5> QED
          BY <4>3, <5>4, <1>5
      <4>2a. CASE t = "TEXT"
        <5>1. text[j + 1] # {}
          BY <4>1, <4>2a DEF Stored
        <5>2. text'[j + 1] # {}
          BY <4>2a, <5>1, BodyRead
        <5>3. Stored'
          BY <1>1, <4>2a, <5>2 DEF Stored
        <5> QED
          BY <4>3, <5>3, <1>5
      <4> QED
        BY <4>2, <4>2a
    <3>2. CASE wait.got = 0
      <4>1. wait.valid /\ ~wait.complete /\ BodyFirst(inbox)
        BY <1>1, <2>2, <3>2 DEF IInv, Filled, Announced
      <4>2. line.kind = "body"
        BY <1>3, <4>1 DEF BodyFirst
      <4>3. Stores(t, wait, line)
        BY <1>9, <2>2, <3>2, <4>1, <4>2 DEF Stores, ValidAfter, Tagged
      <4>4. Read(wait) = 1
        BY <2>2, <3>2, <4>1 DEF Read
      <4>5. CASE t = "MIME"
        <5>1. dataIndex' < Len(slots')
          BY <1>1, <4>3, <4>5, SlotRead
        <5> QED
          BY <1>1, <1>5, <4>4, <4>5, <5>1 DEF Stored
      <4>6. CASE t = "TEXT"
        <5>1. text'[j' + 1] # {}
          BY <1>1, <4>3, <4>6, BodyRead
        <5> QED
          BY <1>1, <1>5, <4>4, <4>6, <5>1 DEF Stored
      <4> QED
        BY <4>5, <4>6
    <3> QED
      BY <1>7, <3>1, <3>2
  <2>3. ASSUME t = "MIME", wait.payload = 0, wait'.valid PROVE ~wait'.complete
    <3>1. line.kind \notin Tagged
      BY <2>3, <1>a
    <3>2. wait.valid
      BY <1>5, <1>9, <2>3, <3>1 DEF ValidAfter
    <3>3. ~wait.complete
      BY <1>1, <2>3, <3>2 DEF IInv, Filled
    <3> QED
      BY <1>5, <2>3, <3>1, <3>3 DEF CompleteAfter
  <2>5. wait'.payload > 0 => wait.payload > 0
    BY <2>1
  <2>6. wait'.payload = 0 => wait.payload = 0
    BY <2>1
  <2>7. t = "TEXT" /\ wait.payload = 0 => ~wait'.complete
    <3> SUFFICES ASSUME t = "TEXT", wait.payload = 0 PROVE ~wait'.complete
      OBVIOUS
    <3>1. ~wait.complete
      BY <1>1 DEF IInv, Filled
    <3> QED
      BY <3>1, <1>b
  <2> QED
    BY <1>1, <1>6, <2>2, <2>3, <2>5, <2>6, <2>7 DEF Filled, Announced
<1> QED
  BY <1>7, <1>8, <1>9

LEMMA FilledStep == ASSUME IInv, [Next]_vars PROVE Filled'
<1>0. Filled
  BY DEF IInv
<1>1. CASE stage' \notin {"lines", "decide"}
  BY <1>1 DEF Filled
<1>2. CASE FirstByte \/ TimeOut
  <2>1. stage = "first" /\ wait' = wait
    BY <1>2 DEF FirstByte, TimeOut
  <2>2. wait' = NewWait
    BY <2>1 DEF IInv, CallTypes
  <2>3. wait'.payload = 0 /\ wait'.valid = FALSE /\ wait'.complete = FALSE
    BY <2>2 DEF NewWait
  <2> QED
    BY <2>3 DEF Filled, Announced
<1>3. CASE EndWait
  <2>1. /\ stage = "lines" /\ stage' = "decide" /\ wait.complete /\ wait' = wait
        /\ cmd' = cmd /\ UNCHANGED <<slots, dataIndex, text, j>>
    BY <1>3, TalkData DEF EndWait
  <2>2. ~(Announced /\ wait.got = 0)
    BY <1>0, <2>1 DEF Filled
  <2> QED
    BY <1>0, <2>1, <2>2 DEF Filled, Announced, Stored
<1>4. CASE ReadLine
  <2>1. CASE cmd.type \in {"MIME", "TEXT"}
    BY <1>4, <2>1, ReadFilled
  <2>2. CASE cmd.type \notin {"MIME", "TEXT"}
    BY <1>4, <2>2 DEF ReadLine, Filled, Announced
  <2> QED
    BY <2>1, <2>2
<1>5. CASE Serve \/ Deliver \/ Disconnect \/ UNCHANGED vars
  <2>1. UNCHANGED <<stage, cmd, wait, slots, dataIndex, text, j>>
    BY <1>5, ServerData
  <2>a. inbox \in Seq(ReplyLines) /\ owed \in Seq(ReplyLines)
    BY DEF IInv, LinkTypes
  <2>2. ASSUME IF inbox # <<>> THEN BodyFirst(inbox) ELSE conn = "up" => BodyFirst(owed)
        PROVE  (IF inbox # <<>> THEN BodyFirst(inbox) ELSE conn = "up" => BodyFirst(owed))'
    <3>1. CASE Serve
      <4>1. conn = "up" /\ owed = <<>> /\ inbox' = inbox
        BY <3>1 DEF Serve
      <4> QED
        BY <2>2, <4>1 DEF BodyFirst
    <3>2. CASE Deliver
      <4>1. conn = "up" /\ owed # <<>> /\ inbox' = Append(inbox, Head(owed))
        BY <3>2 DEF Deliver
      <4>2. Head(owed) \in ReplyLines /\ Head(owed) = owed[1]
        BY <2>a, <4>1, OneRead
      <4>3. /\ Len(inbox) \in Nat /\ DOMAIN inbox = 1 .. Len(inbox)
            /\ DOMAIN inbox' = 1 .. (Len(inbox) + 1)
            /\ \A k \in DOMAIN inbox : inbox'[k] = inbox[k]
            /\ inbox'[Len(inbox) + 1] = Head(owed)
        BY <2>a, <4>1, <4>2, OneMore
      <4>4. inbox' # <<>>
        BY <4>3, NoLines
      <4>5. CASE inbox = <<>>
        <5>1. Len(inbox) + 1 = 1
          BY <4>5, NoLines
        <5> QED
          BY <2>2, <4>1, <4>2, <4>3, <4>4, <4>5, <5>1 DEF BodyFirst
      <4>6. CASE inbox # <<>>
        <5>1. 1 \in DOMAIN inbox
          BY <2>a, <4>6, OneRead
        <5> QED
          BY <2>2, <4>3, <4>4, <4>6, <5>1 DEF BodyFirst
      <4> QED
        BY <4>5, <4>6
    <3>3. CASE Disconnect
      BY <2>2, <3>3 DEF Disconnect, BodyFirst
    <3>4. CASE UNCHANGED vars
      BY <2>2, <3>4 DEF vars, link, BodyFirst
    <3> QED
      BY <1>5, <3>1, <3>2, <3>3, <3>4
  <2> QED
    BY <1>0, <2>1, <2>2 DEF Filled, Announced, Stored
<1> QED
  BY <1>1, <1>2, <1>3, <1>4, <1>5, NoWait, Steps DEF Inner

-----------------------------------------------------------------------------
\* What is under way, while nothing was late.

\* When nothing is under way, Current holds at any stage.
LEMMA QuietIsCurrent == Quiet => Current
<1> SUFFICES ASSUME Quiet PROVE Current
  OBVIOUS
<1>1. toSrv = <<>> /\ owed = <<>> /\ inbox = <<>>
  BY DEF Quiet
<1>2. DOMAIN toSrv = {} /\ DOMAIN inbox = {}
      /\ Len(toSrv) = 0 /\ Len(inbox) = 0 /\ Len(owed) = 0
  BY <1>1
<1>3. Answering(inbox, cmd) /\ Answering(owed, cmd)
  BY <1>1, NoLines
<1>4. Len(toSrv) <= 1 /\ Len(inbox) + Len(owed) <= IF wait.lf = 0 THEN 2 ELSE 1
  BY <1>2
<1> QED
  BY <1>1, <1>2, <1>3, <1>4 DEF Current, Quiet

\* A command is sent when nothing is under way.
LEMMA SendCurrent == ASSUME IInv, ~late, Send PROVE Current'
<1>1. /\ toSrv' = (IF conn = "up" THEN Append(toSrv, cmd) ELSE toSrv)
      /\ inbox' = (IF cmd.type = "LOGOUT" THEN <<>> ELSE inbox)
      /\ stage' = "first" /\ UNCHANGED <<cmd, owed>>
  BY DEF Send
<1>2. toSrv = <<>> /\ owed = <<>> /\ inbox = <<>>
  BY DEF Send, IInv, Current, Quiet
<1>3. owed' = <<>> /\ inbox' = <<>>
  BY <1>1, <1>2
<1>4. Answering(inbox', cmd') /\ Answering(owed', cmd')
  BY <1>3, NoLines
<1>5. Len(toSrv') <= 1 /\ \A k \in DOMAIN toSrv' : toSrv'[k] = cmd'
  <2>1. toSrv' = <<cmd>> \/ toSrv' = <<>>
    BY <1>1, <1>2
  <2> QED
    BY <1>1, <2>1
<1>6. Len(inbox') + Len(owed') <= IF wait'.lf = 0 THEN 2 ELSE 1
  <2>1. Len(inbox') = 0 /\ Len(owed') = 0
    BY <1>3, NoLines
  <2> QED
    BY <2>1
<1>7. Answering(inbox, cmd)' = Answering(inbox', cmd') /\ Answering(owed, cmd)' = Answering(owed', cmd')
  BY DEF Answering
<1> QED
  BY <1>1, <1>3, <1>4, <1>5, <1>6, <1>7 DEF Current

\* The server answers: the reply is for the one command that is waited for.
LEMMA ServeCurrent == ASSUME IInv, ~late', Serve PROVE Current'
<1>1. /\ toSrv # <<>> /\ toSrv' = Tail(toSrv) /\ owed = <<>>
      /\ UNCHANGED <<stage, cmd, wait, inbox>>
  BY DEF Serve
<1>2. PICK r \in (IF Holds(Head(toSrv)) THEN Given(Head(toSrv)) ELSE {})
                 \cup Refusal(Head(toSrv)) :
        /\ owed' = Lines(r, Head(toSrv))
        /\ late' = (late \/ (Head(toSrv).type = "SEARCH" /\ Len(r) > 2))
  BY DEF Serve
<1>3. /\ toSrv \in Seq(Commands) /\ cmd \in Commands /\ Current
      /\ wait \in Wait /\ (stage = "first" => wait = NewWait)
  BY <1>2 DEF IInv, LinkTypes, CallTypes
<1>4. CASE stage \in {"first", "lines"}
  <2>0. /\ Head(toSrv) = toSrv[1] /\ 1 \in DOMAIN toSrv
        /\ Len(toSrv) = 1 => toSrv' = <<>>
        /\ Len(toSrv) \in Nat /\ Len(toSrv) >= 1
    BY <1>1, <1>3, OneRead
  <2>1. Len(toSrv) <= 1 /\ inbox = <<>> /\ Head(toSrv) = cmd /\ stage = "first"
    BY <1>1, <1>3, <1>4, <2>0 DEF Current
  <2>2. toSrv' = <<>>
    <3>1. Len(toSrv) = 1
      BY <2>0, <2>1
    <3> QED
      BY <2>0, <3>1
  <2>3. r \in Shapes /\ Len(r) \in Nat
    <3>1. r \in Shapes
      BY <1>2, Shaped
    <3> QED
      BY <3>1, ReplyShape
  <2>4. Answering(owed', cmd') /\ Len(owed') = Len(r)
    BY <1>1, <1>2, <1>3, <2>1, <2>3, Replied
  <2>5. Answering(inbox', cmd') /\ inbox' = <<>> /\ Len(inbox') = 0
    BY <1>1, <2>1, NoLines
  <2>6. cmd.type = "SEARCH" => Len(r) <= 2
    <3>1. ~(cmd.type = "SEARCH" /\ Len(r) > 2)
      BY <1>2, <2>1
    <3> QED
      BY <2>3, <3>1
  <2>7. wait.lf = 0
    BY <1>3, <2>1 DEF NewWait
  <2>8. cmd.type = "SEARCH" => Len(inbox') + Len(owed') <= 2
    BY <2>3, <2>4, <2>5, <2>6
  <2>9. DOMAIN toSrv' = {} /\ Len(toSrv') <= 1 /\ DOMAIN inbox' = {}
    BY <2>2, <2>5, NoLines
  <2>10. Answering(inbox, cmd)' = Answering(inbox', cmd')
         /\ Answering(owed, cmd)' = Answering(owed', cmd')
    BY DEF Answering
  <2> QED
    BY <1>1, <2>1, <2>2, <2>4, <2>5, <2>7, <2>8, <2>9, <2>10 DEF Current
<1>5. CASE stage \in {"connect", "send", "decide", "mount", "pick"}
  BY <1>1, <1>3, <1>5 DEF Current, Quiet
<1>6. CASE stage \notin {"connect", "send", "decide", "mount", "pick", "first", "lines"}
  BY <1>1, <1>6 DEF Current
<1> QED
  BY <1>4, <1>5, <1>6

\* A line comes: the tagged one is the last of what was owed.
LEMMA DeliverCurrent == ASSUME IInv, ~late, Deliver PROVE Current'
<1>1. /\ owed # <<>> /\ inbox' = Append(inbox, Head(owed)) /\ owed' = Tail(owed)
      /\ UNCHANGED <<stage, cmd, wait, toSrv>>
  BY DEF Deliver
<1>2. owed \in Seq(ReplyLines) /\ inbox \in Seq(ReplyLines) /\ Current
  BY DEF IInv, LinkTypes
<1>3. /\ Head(owed) = owed[1] /\ Head(owed) \in ReplyLines
      /\ 1 \in DOMAIN owed /\ Len(owed) \in Nat /\ Len(owed') = Len(owed) - 1
      /\ \A k \in DOMAIN owed' : k + 1 \in DOMAIN owed /\ owed'[k] = owed[k + 1]
      /\ DOMAIN owed = 1 .. Len(owed)
      /\ Len(owed) = 1 => owed' = <<>>
  BY <1>1, <1>2, OneRead
<1>4. /\ Len(inbox') = Len(inbox) + 1 /\ DOMAIN inbox' = 1 .. (Len(inbox) + 1)
      /\ Len(inbox) \in Nat /\ DOMAIN inbox = 1 .. Len(inbox)
      /\ \A k \in DOMAIN inbox : inbox'[k] = inbox[k]
      /\ inbox'[Len(inbox) + 1] = owed[1]
  BY <1>1, <1>2, <1>3, OneMore
<1>5. CASE stage \in {"first", "lines"}
  <2>1. /\ Answering(inbox, cmd) /\ Answering(owed, cmd) /\ toSrv = <<>>
        /\ \A k \in DOMAIN inbox : inbox[k].kind \notin Tagged
        /\ ~(stage = "lines" /\ wait.complete)
        /\ cmd.type = "SEARCH" =>
              Len(inbox) + Len(owed) <= IF wait.lf = 0 THEN 2 ELSE 1
    BY <1>1, <1>2, <1>5 DEF Current, Quiet
  <2>2. Answering(owed', cmd')
    <3> SUFFICES ASSUME NEW k \in DOMAIN owed'
                 PROVE  owed'[k].of = cmd /\ (owed'[k].kind \in Tagged => k = Len(owed'))
      BY <1>1 DEF Answering
    <3>1. k + 1 \in DOMAIN owed /\ owed'[k] = owed[k + 1]
      BY <1>3
    <3>2. owed[k + 1].of = cmd /\ (owed[k + 1].kind \in Tagged => k + 1 = Len(owed))
      BY <2>1, <3>1 DEF Answering
    <3>3. k \in Int
      <4>1. owed' \in Seq(ReplyLines)
        BY <1>1, <1>2, OneRead
      <4> QED
        BY <4>1, LenProperties
    <3> QED
      BY <1>3, <3>1, <3>2, <3>3
  <2>3. /\ owed[1].of = cmd
        /\ owed[1].kind \in Tagged => owed' = <<>>
    BY <1>3, <2>1 DEF Answering
  <2>4. \A k \in DOMAIN inbox' : k \in DOMAIN inbox \/ k = Len(inbox')
    BY <1>4
  <2>5. Answering(inbox', cmd')
    BY <1>1, <1>4, <2>1, <2>3, <2>4 DEF Answering
  <2>6. \A k \in DOMAIN inbox' : inbox'[k].kind \in Tagged => owed' = <<>>
    BY <1>4, <2>1, <2>3, <2>4
  <2>7. Len(inbox') + Len(owed') = Len(inbox) + Len(owed)
    BY <1>3, <1>4
  <2>8. toSrv' = <<>> /\ DOMAIN toSrv' = {} /\ Len(toSrv') <= 1
    BY <1>1, <2>1, NoLines
  <2>9. Answering(inbox, cmd)' = Answering(inbox', cmd')
        /\ Answering(owed, cmd)' = Answering(owed', cmd')
    BY DEF Answering
  <2> QED
    BY <1>1, <1>5, <2>1, <2>2, <2>5, <2>6, <2>7, <2>8, <2>9 DEF Current
<1>6. CASE stage \in {"connect", "send", "decide", "mount", "pick"}
  BY <1>1, <1>2, <1>6 DEF Current, Quiet
<1>7. CASE stage \notin {"connect", "send", "decide", "mount", "pick", "first", "lines"}
  BY <1>1, <1>7 DEF Current
<1> QED
  BY <1>5, <1>6, <1>7

\* waitIMAPResponse reads a line: if that ends the wait, it was the last.
LEMMA ReadLineCurrent == ASSUME IInv, ~late, ReadLine PROVE Current'
<1>1. /\ stage = "lines" /\ inbox # <<>> /\ inbox' = Tail(inbox)
      /\ wait' = Take(WaitType(cmd), wait, Head(inbox))
      /\ stage' = (IF wait'.broken THEN "decide" ELSE "lines")
      /\ UNCHANGED <<cmd, toSrv, owed>>
  BY DEF ReadLine
<1>2. /\ inbox \in Seq(ReplyLines) /\ owed \in Seq(ReplyLines) /\ Current /\ wait \in Wait
      /\ cmd \in Commands /\ (wait.lf = 0 => wait = NewWait)
  BY <1>1 DEF IInv, LinkTypes, CallTypes
<1>3. /\ Head(inbox) = inbox[1] /\ Head(inbox) \in ReplyLines /\ 1 \in DOMAIN inbox
      /\ Len(inbox) \in Nat /\ Len(inbox') = Len(inbox) - 1 /\ Len(inbox) >= 1
      /\ \A k \in DOMAIN inbox' : k + 1 \in DOMAIN inbox /\ inbox'[k] = inbox[k + 1]
      /\ Len(inbox) = 1 => inbox' = <<>>
      /\ inbox' \in Seq(ReplyLines)
  BY <1>1, <1>2, OneRead
<1>4. /\ Answering(inbox, cmd) /\ Answering(owed, cmd) /\ toSrv = <<>>
      /\ \A k \in DOMAIN inbox : inbox[k].kind \in Tagged => owed = <<>>
      /\ ~wait.complete
      /\ cmd.type = "SEARCH" =>
            Len(inbox) + Len(owed) <= IF wait.lf = 0 THEN 2 ELSE 1
  BY <1>1, <1>2 DEF Current, Quiet
<1>5. Answering(inbox', cmd')
  <2> SUFFICES ASSUME NEW k \in DOMAIN inbox'
               PROVE  inbox'[k].of = cmd /\ (inbox'[k].kind \in Tagged => k = Len(inbox'))
    BY <1>1 DEF Answering
  <2>1. k + 1 \in DOMAIN inbox /\ inbox'[k] = inbox[k + 1] /\ k \in Int
    BY <1>3, LenProperties
  <2>2. inbox[k + 1].of = cmd /\ (inbox[k + 1].kind \in Tagged => k + 1 = Len(inbox))
    BY <1>4, <2>1 DEF Answering
  <2> QED
    BY <1>3, <2>1, <2>2
<1>6. \A k \in DOMAIN inbox' : inbox'[k].kind \in Tagged => owed' = <<>>
  BY <1>1, <1>3, <1>4
<1>7. Head(inbox).kind \in Tagged => Quiet'
  <2> SUFFICES ASSUME Head(inbox).kind \in Tagged PROVE Quiet'
    OBVIOUS
  <2>1. Len(inbox) = 1 /\ owed = <<>>
    BY <1>3, <1>4 DEF Answering
  <2> QED
    BY <1>1, <1>3, <1>4, <2>1 DEF Quiet
<1>8. Len(owed) \in Nat /\ (Len(owed) = 0 => owed = <<>>)
  BY <1>2, LenProperties, EmptySeq
<1>9. wait'.lf = 1 /\ (cmd.type = "SEARCH" => Len(inbox') + Len(owed') <= 1)
  <2>1. wait'.lf = 1
    BY <1>1, <1>2, <1>3, TakenWait
  <2>2. ASSUME cmd.type = "SEARCH" PROVE Len(inbox') + Len(owed') <= 1
    <3>1. Len(inbox) + Len(owed) <= 2
      BY <1>3, <1>4, <1>8, <2>2
    <3> QED
      BY <1>1, <1>3, <1>8, <3>1
  <2> QED
    BY <2>1, <2>2
<1>10. wait'.complete \/ wait'.broken => Quiet'
  <2> SUFFICES ASSUME wait'.complete \/ wait'.broken PROVE Quiet'
    OBVIOUS
  <2>1. WaitType(cmd) \in Types
    BY <1>2, WaitTypes
  <2>2. CASE WaitType(cmd) # "SEARCH"
    <3>1. Head(inbox).kind \in Tagged
      BY <1>1, <1>2, <1>3, <1>4, <2>1, <2>2, Taken
    <3> QED
      BY <1>7, <3>1
  <2>3. CASE WaitType(cmd) = "SEARCH"
    <3>0. cmd.type = "SEARCH"
      BY <2>3 DEF WaitType
    <3>a. wait' = Take("SEARCH", wait, Head(inbox))
      BY <1>1, <2>3
    <3>1. CASE wait.lf = 0
      <4>1. wait'.complete = wait.complete /\ wait'.broken = (Head(inbox).kind = "bad")
        BY <1>2, <3>a, <3>1, TakenSearch
      <4>2. Head(inbox).kind = "bad"
        BY <1>4, <4>1
      <4>3. Head(inbox).kind \in Tagged
        BY <4>2 DEF Tagged
      <4> QED
        BY <1>7, <4>3
    <3>2. CASE wait.lf # 0
      <4>1. Len(inbox) + Len(owed) <= 1
        BY <1>4, <3>0, <3>2
      <4>2. Len(inbox) = 1 /\ Len(owed) = 0
        BY <1>3, <1>8, <4>1
      <4> QED
        BY <1>1, <1>3, <1>4, <1>8, <4>2 DEF Quiet
    <3> QED
      BY <3>1, <3>2
  <2> QED
    BY <2>2, <2>3
<1>11. Answering(inbox, cmd)' = Answering(inbox', cmd')
       /\ Answering(owed, cmd)' = Answering(owed', cmd')
  BY DEF Answering
<1>12. CASE wait'.complete \/ wait'.broken
  BY <1>10, <1>12, QuietIsCurrent, PTL
<1>13. CASE ~(wait'.complete \/ wait'.broken)
  <2>1. stage' = "lines" /\ toSrv' = <<>> /\ DOMAIN toSrv' = {} /\ Len(toSrv') <= 1
    BY <1>1, <1>4, <1>13, NoLines
  <2>2. Answering(owed', cmd')
    BY <1>1, <1>4
  <2> QED
    BY <1>1, <1>5, <1>6, <1>9, <1>11, <1>13, <2>1, <2>2 DEF Current
<1> QED
  BY <1>12, <1>13

LEMMA CurrentStep == ASSUME IInv, [Next]_vars, ~late' PROVE Current'
<1>0. ~late /\ Current /\ Down
  BY LateStays DEF IInv
<1>1. CASE Send
  BY <1>0, <1>1, SendCurrent
<1>2. CASE Serve
  BY <1>2, ServeCurrent
<1>3. CASE Deliver
  BY <1>0, <1>3, DeliverCurrent
<1>4. CASE ReadLine
  BY <1>0, <1>4, ReadLineCurrent
<1>5. CASE Inner /\ stage \in {"connect", "decide", "mount", "pick"}
  <2>1. Quiet'
    BY <1>0, <1>5, InnerLink DEF Current, Quiet
  <2> QED
    BY <2>1, QuietIsCurrent, PTL
<1>6. CASE ConnectSucceeds
  <2>1. Quiet'
    BY <1>0, <1>6 DEF Current, Quiet, ConnectSucceeds
  <2> QED
    BY <2>1, QuietIsCurrent, PTL
<1>7. CASE NullStream
  BY <1>7 DEF NullStream, Current
<1>8. CASE TimeOut
  <2>1. inbox = <<>> /\ conn # "up" /\ UNCHANGED <<toSrv, owed, inbox>>
    BY <1>8 DEF TimeOut, link
  <2>2. conn = "down"
    BY <2>1 DEF IInv, LinkTypes
  <2>3. Quiet'
    BY <1>0, <2>1, <2>2 DEF Down, Quiet
  <2> QED
    BY <2>3, QuietIsCurrent, PTL
<1>9. CASE FirstByte
  <2>1. /\ stage = "first" /\ stage' = "lines" /\ UNCHANGED <<cmd, wait, toSrv, owed, inbox>>
        /\ inbox # <<>>
    BY <1>9 DEF FirstByte, link
  <2>2. ~wait.complete
    BY <2>1 DEF IInv, CallTypes, NewWait
  <2> QED
    BY <1>0, <2>1, <2>2 DEF Current, Answering
<1>10. CASE EndWait
  <2>1. stage = "lines" /\ wait.complete /\ UNCHANGED <<toSrv, owed, inbox>>
    BY <1>10 DEF EndWait, link
  <2>2. Quiet'
    BY <1>0, <2>1 DEF Current, Quiet
  <2> QED
    BY <2>2, QuietIsCurrent, PTL
<1>11. CASE LogoutAnswered \/ Out
  <2>1. stage' \in {"done", "out"}
    BY <1>11 DEF LogoutAnswered, Out, GiveUp
  <2> QED
    BY <2>1 DEF Current
<1>12. CASE Disconnect
  <2>1. /\ toSrv' = <<>> /\ owed' = <<>> /\ UNCHANGED <<stage, cmd, wait, inbox>>
    BY <1>12 DEF Disconnect
  <2>2. /\ DOMAIN toSrv' = {} /\ Len(toSrv') <= 1 /\ Len(owed') = 0
        /\ Answering(owed', cmd')
    BY <2>1, NoLines
  <2>3. Answering(inbox, cmd)' = Answering(inbox, cmd)
        /\ Answering(owed, cmd)' = Answering(owed', cmd')
    BY <2>1 DEF Answering
  <2>4. /\ Len(inbox) \in Nat /\ Len(owed) \in Nat
    BY LenProperties DEF IInv, LinkTypes
  <2>5. ASSUME Len(inbox) + Len(owed) <= IF wait.lf = 0 THEN 2 ELSE 1
        PROVE  Len(inbox') + Len(owed') <= IF wait'.lf = 0 THEN 2 ELSE 1
    BY <2>1, <2>2, <2>4, <2>5
  <2>6. CASE stage \in {"first", "lines"}
    <3>1. ~(stage = "lines" /\ wait.complete) \/ Quiet
      BY <1>0 DEF Current
    <3>2. ~(stage = "lines" /\ wait.complete) \/ Quiet'
      BY <2>1, <3>1 DEF Quiet
    <3> QED
      BY <1>0, <2>1, <2>2, <2>3, <2>5, <2>6, <3>2 DEF Current
  <2>7. CASE stage \in {"connect", "send", "decide", "mount", "pick"}
    BY <1>0, <2>1, <2>7 DEF Current, Quiet
  <2>8. CASE stage \notin {"connect", "send", "decide", "mount", "pick", "first", "lines"}
    BY <2>1, <2>8 DEF Current
  <2> QED
    BY <2>6, <2>7, <2>8
<1>13. CASE UNCHANGED vars
  BY <1>0, <1>13 DEF vars, link, Current, Quiet, Answering
<1>14. CASE \/ LoginAnswered \/ ListAnswered \/ ExamineAnswered \/ SearchAnswered
            \/ HeaderAnswered \/ PartAnswered \/ SubAnswered
            \/ StartBodies \/ PickPart \/ BodyAnswered \/ ConnectFails
  <2>1. stage \in {"connect", "decide", "mount", "pick"}
    BY <1>14 DEF LoginAnswered, ListAnswered, ExamineAnswered, SearchAnswered, HeaderAnswered,
                 PartAnswered, SubAnswered, StartBodies, PickPart, BodyAnswered, ConnectFails,
                 Answered
  <2> QED
    BY <1>5, <1>14, <2>1 DEF Inner
<1> QED
  BY <1>1, <1>2, <1>3, <1>4, <1>6, <1>7, <1>8, <1>9, <1>10, <1>11, <1>12, <1>13, <1>14,
     Steps DEF Inner

-----------------------------------------------------------------------------
\* Every header, text and file is made of the reply to its own command.

LEMMA OwnStep == ASSUME IInv, [Next]_vars PROVE OwnReplies'
<1> SUFFICES ASSUME ~late' PROVE OwnReplies'
  BY DEF OwnReplies
<1>0. /\ ~late /\ Current
      /\ \A i \in DOMAIN headers : headers[i] \subseteq {Fetch("HEADER", <<i>>)}
      /\ \A k \in DOMAIN text : text[k] \subseteq {Fetch("TEXT", slots[k].part)}
      /\ \A k \in DOMAIN file : file[k] \subseteq {Fetch("TEXT", slots[k].part),
                                                Fetch("ATTACHMENT", slots[k].part)}
  BY LateStays DEF IInv, OwnReplies
<1>a. ASSUME \A i \in DOMAIN headers' : headers'[i] \subseteq {Fetch("HEADER", <<i>>)},
             UNCHANGED <<slots, text, file>> \/ (text' = <<>> /\ file' = <<>>)
      PROVE  OwnReplies'
  <2>1. \A k \in DOMAIN text' : text'[k] \subseteq {Fetch("TEXT", slots'[k].part)}
    BY <1>0, <1>a, NoLines
  <2>2. \A k \in DOMAIN file' : file'[k] \subseteq {Fetch("TEXT", slots'[k].part),
                                                    Fetch("ATTACHMENT", slots'[k].part)}
    BY <1>0, <1>a, NoLines
  <2> QED
    BY <1>a, <2>1, <2>2 DEF OwnReplies
<1>b. <<{}>>[1] = {} /\ DOMAIN <<{}>> = {1}
  OBVIOUS
<1>c. ASSUME headers' = <<{}>>
      PROVE  \A i \in DOMAIN headers' : headers'[i] \subseteq {Fetch("HEADER", <<i>>)}
  BY <1>b, <1>c
<1>1. CASE ReadLine
  <2>1. stage = "lines" /\ inbox # <<>> /\ cmd' = cmd
    BY <1>1 DEF ReadLine
  <2>2. Head(inbox).of = cmd /\ cmd \in Commands
    <3>1. inbox \in Seq(ReplyLines) /\ cmd \in Commands
      BY DEF IInv, LinkTypes, CallTypes
    <3>2. Head(inbox) = inbox[1] /\ 1 \in DOMAIN inbox
      BY <2>1, <3>1, OneRead
    <3> QED
      BY <1>0, <2>1, <3>1, <3>2 DEF Current, Answering
  <2>3. cmd = Fetch(cmd.type, cmd.part)
    BY <2>2 DEF Commands, Fetch
  <2>4. \A i \in DOMAIN headers' : headers'[i] \subseteq {Fetch("HEADER", <<i>>)}
    <3> SUFFICES ASSUME NEW i \in DOMAIN headers'
                 PROVE  headers'[i] \subseteq {Fetch("HEADER", <<i>>)}
      OBVIOUS
    <3>1. i \in DOMAIN headers
      BY <1>1, HeaderRead
    <3>2. CASE headers'[i] = headers[i]
      BY <1>0, <3>1, <3>2
    <3>3. CASE /\ cmd.type = "HEADER" /\ cmd.part = <<i>>
               /\ headers'[i] = headers[i] \cup {Head(inbox).of}
      BY <1>0, <2>2, <2>3, <3>1, <3>3
    <3> QED
      BY <1>1, <3>1, <3>2, <3>3, HeaderRead
  <2>5. CASE cmd.type = "MIME"
    <3>1. text = <<>> /\ file = <<>>
      BY <2>1, <2>5 DEF IInv, Progress, Busy, Bodies
    <3> QED
      BY <1>1, <1>a, <2>4, <3>1, BodyRead
  <2>6. CASE cmd.type # "MIME"
    <3>0. slots' = slots
      BY <1>1, <2>6, SlotRead
    <3>1. \A k \in DOMAIN text' : text'[k] \subseteq {Fetch("TEXT", slots[k].part)}
      <4> SUFFICES ASSUME NEW k \in DOMAIN text'
                   PROVE  text'[k] \subseteq {Fetch("TEXT", slots[k].part)}
        OBVIOUS
      <4>1. k \in DOMAIN text
        BY <1>1, BodyRead
      <4>2. CASE text'[k] = text[k]
        BY <1>0, <4>1, <4>2
      <4>3. CASE /\ cmd.type = "TEXT" /\ cmd.part = slots[k].part
                 /\ text'[k] = text[k] \cup {Head(inbox).of}
        BY <1>0, <2>2, <2>3, <4>1, <4>3
      <4> QED
        BY <1>1, <4>1, <4>2, <4>3, BodyRead
    <3>2. \A k \in DOMAIN file' : file'[k] \subseteq {Fetch("TEXT", slots[k].part),
                                                      Fetch("ATTACHMENT", slots[k].part)}
      <4> SUFFICES ASSUME NEW k \in DOMAIN file'
                   PROVE  file'[k] \subseteq {Fetch("TEXT", slots[k].part),
                                              Fetch("ATTACHMENT", slots[k].part)}
        OBVIOUS
      <4>1. k \in DOMAIN file
        BY <1>1, BodyRead
      <4>2. CASE file'[k] = file[k]
        BY <1>0, <4>1, <4>2
      <4>3. CASE /\ cmd.type \in {"TEXT", "ATTACHMENT"} /\ cmd.part = slots[k].part
                 /\ file'[k] = file[k] \cup {Head(inbox).of}
        BY <1>0, <2>2, <2>3, <4>1, <4>3
      <4> QED
        BY <1>1, <4>1, <4>2, <4>3, BodyRead
    <3> QED
      BY <2>4, <3>0, <3>1, <3>2 DEF OwnReplies
  <2> QED
    BY <2>5, <2>6
<1>2. CASE ExamineAnswered \/ SearchAnswered
  <2>1. headers' \in {headers, <<{}>>} /\ UNCHANGED <<slots, text, file>>
    BY <1>2 DEF ExamineAnswered, SearchAnswered, StartFetch, scan, body
  <2> QED
    BY <1>0, <1>a, <1>c, <2>1
<1>3. CASE HeaderAnswered
  <2>1. headers' \in {headers, Append(headers, {})} /\ UNCHANGED <<slots, text, file>>
    BY <1>3 DEF HeaderAnswered, scan, body
  <2>2. headers \in Seq(SUBSET Commands) /\ {} \in SUBSET Commands
    BY DEF IInv, BodyTypes
  <2>3. CASE headers' = Append(headers, {})
    <3>1. /\ DOMAIN headers' = 1 .. (Len(headers) + 1) /\ DOMAIN headers = 1 .. Len(headers)
          /\ \A k \in DOMAIN headers : headers'[k] = headers[k]
          /\ headers'[Len(headers) + 1] = {} /\ Len(headers) \in Nat
      BY <2>2, <2>3, OneMore
    <3>2. \A k \in DOMAIN headers' : k \in DOMAIN headers \/ k = Len(headers) + 1
      BY <3>1
    <3> QED
      BY <1>0, <1>a, <2>1, <3>1, <3>2
  <2> QED
    BY <1>0, <1>a, <2>1, <2>3
<1>4. CASE PartAnswered
  <2>1. UNCHANGED <<headers, text, file>> /\ stage = "decide" /\ cmd.type = "MIME"
    BY <1>4 DEF PartAnswered, Answered, body
  <2>2. text = <<>> /\ file = <<>>
    BY <2>1 DEF IInv, Progress, Busy, Bodies
  <2> QED
    BY <1>0, <1>a, <2>1, <2>2
<1>5. CASE StartBodies
  <2>1. /\ UNCHANGED <<headers, slots>>
        /\ text' = [k \in DOMAIN slots |-> {}] /\ file' = [k \in DOMAIN slots |-> {}]
    BY <1>5 DEF StartBodies, scan
  <2> QED
    BY <1>0, <2>1 DEF OwnReplies
<1>6. CASE PickPart
  <2>1. UNCHANGED <<headers, slots, text, file>>
    BY <1>6 DEF PickPart, scan
  <2> QED
    BY <1>0, <1>a, <2>1
<1>7. CASE SubAnswered \/ BodyAnswered
  <2>1. UNCHANGED <<headers, slots, text, file>>
    BY <1>7 DEF SubAnswered, BodyAnswered, scan, body
  <2> QED
    BY <1>0, <1>a, <2>1
<1>8. CASE \/ ConnectFails \/ ConnectSucceeds \/ Send \/ NullStream \/ FirstByte \/ TimeOut
           \/ EndWait \/ LoginAnswered \/ ListAnswered \/ LogoutAnswered \/ Out
  BY <1>0, <1>a, <1>8, TalkData
<1>9. CASE Serve \/ Deliver \/ Disconnect \/ UNCHANGED vars
  BY <1>0, <1>a, <1>9, ServerData
<1> QED
  BY <1>1, <1>2, <1>3, <1>4, <1>5, <1>6, <1>7, <1>8, <1>9, Steps DEF Inner

-----------------------------------------------------------------------------
\* The invariant.

LEMMA InitIInv == Init => IInv
<1> SUFFICES ASSUME Init PROVE IInv
  OBVIOUS
<1>1. /\ stage = "connect" /\ cmd = Cmd("LOGIN") /\ wait = NewWait /\ tries = 0
      /\ msgs = <<>> /\ total = 0 /\ headers = <<>>
      /\ subID = 1 /\ slots = <<>> /\ attCount = 0 /\ dataIndex = 0
      /\ j = 0 /\ text = <<>> /\ file = <<>> /\ sdOk \in BOOLEAN
      /\ status = "none" /\ result = "none" /\ ask \in Asks
      /\ conn = "down" /\ toSrv = <<>> /\ owed = <<>> /\ inbox = <<>>
      /\ late = FALSE /\ refused = FALSE
  BY DEF Init
<1>2. <<>> \in Seq(Commands) /\ <<>> \in Seq(ReplyLines) /\ <<>> \in Seq(SlotTypes)
      /\ <<>> \in Seq(Nat) /\ <<>> \in Seq(SUBSET Commands) /\ Len(<<>>) = 0
  BY NoLines
<1>3. LinkTypes
  BY <1>1, <1>2 DEF LinkTypes
<1>4. CallTypes
  <2>1. NewWait \in Wait
    BY DEF NewWait, Wait
  <2>2. cmd \in Commands
    BY <1>1, CmdTypes
  <2>3. 0 \in 0 .. MaxTries + 1 /\ 0 <= MaxTries
    BY DEF MaxTries
  <2> QED
    BY <1>1, <2>1, <2>2, <2>3 DEF CallTypes, Stages
<1>5. ScanTypes /\ BodyTypes
  <2>1. 0 \in 0 .. 0 /\ 0 <= 0
    OBVIOUS
  <2> QED
    BY <1>1, <1>2, <2>1 DEF ScanTypes, BodyTypes
<1>6. Progress
  BY <1>1, <1>2, CmdTypes DEF Progress, Busy
<1>7. Quiet
  BY <1>1 DEF Quiet
<1>8. Describes(inbox) /\ Describes(owed) /\ Literals /\ Down
  BY <1>1, <1>7, NoLines DEF Literals, Down
<1>9. Filled
  BY <1>1 DEF Filled
<1>10. OwnReplies
  BY <1>1, NoLines DEF OwnReplies
<1> QED
  BY <1>3, <1>4, <1>5, <1>6, <1>7, <1>8, <1>9, <1>10, QuietIsCurrent DEF IInv

LEMMA NextIInv == IInv /\ [Next]_vars => IInv'
<1> SUFFICES ASSUME IInv, [Next]_vars PROVE IInv'
  OBVIOUS
<1>1. (~late => Current)'
  BY CurrentStep
<1> QED
  BY <1>1, LinkStep, CallStep, DataStep, FilledStep, OwnStep DEF IInv, Under, Kept

LEMMA IInvTypes == IInv => TypeOK
<1> SUFFICES ASSUME IInv PROVE TypeOK
  OBVIOUS
<1>1. cmd.type \in Types \cup {"LOGOUT"} /\ Path(cmd.part)
  BY DEF IInv, CallTypes, Commands, Path
<1>2. \A k \in DOMAIN slots : IsSlot(slots[k])
  <2> SUFFICES ASSUME NEW k \in DOMAIN slots PROVE IsSlot(slots[k])
    OBVIOUS
  <2>1. slots[k] \in SlotTypes
    BY ElementOfSeq, LenProperties DEF IInv, ScanTypes
  <2> QED
    BY <2>1 DEF SlotTypes, PartTypes, IsSlot, Path
<1>3. stage \in {"first", "lines"} /\ cmd.type \in {"TEXT", "ATTACHMENT"} => j < Len(slots)
  <2> SUFFICES ASSUME stage \in {"first", "lines"}, cmd.type \in {"TEXT", "ATTACHMENT"}
               PROVE  j < Len(slots)
    OBVIOUS
  <2>1. j + 1 \in DOMAIN slots
    BY DEF IInv, Progress, Busy, Bodies
  <2>2. slots \in Seq(SlotTypes) /\ j \in 0 .. Len(slots)
    BY DEF IInv, ScanTypes, BodyTypes
  <2>3. DOMAIN slots = 1 .. Len(slots) /\ Len(slots) \in Nat
    BY <2>2, LenProperties
  <2> QED
    BY <2>1, <2>2, <2>3
<1> QED
  BY <1>1, <1>2, <1>3 DEF IInv, LinkTypes, CallTypes, ScanTypes, BodyTypes, TypeOK

-----------------------------------------------------------------------------
\* What true means: of the headers when nothing was late or refused, of the
\* texts whatever was.

\* The reply to a fetch of a header the server holds.
Course == <<"literal", "body", "ok">>
Awaited == {"HEADER", "MIME"}
Due == cmd.type \in Awaited /\ Holds(cmd)
TakenLines == wait.lf + wait.got
Arrived == CASE cmd.type = "HEADER" -> headers[cmd.part[1]] # {}
             [] OTHER -> wait.payload > 0 /\ wait.got > 0

\* n lines of the reply were read, the others are to come unless the
\* connection breaks, and its content was stored.
ToCome(r, n) ==
    /\ n + Len(inbox) + Len(owed) <= Len(r)
    /\ \A k \in DOMAIN inbox : inbox[k].kind = r[n + k]
    /\ \A k \in DOMAIN owed : owed[k].kind = r[n + Len(inbox) + k]
Came(r, n) ==
    /\ n > 0 => wait.lf = 1 /\ wait.payload = 1 /\ wait.valid
    /\ n > 1 => Arrived
    /\ wait.complete => n = Len(r)
    /\ n = Len(r) => wait.complete
Coming ==
    Due => /\ stage \in {"first", "lines"} =>
                 ToCome(Course, TakenLines) /\ Came(Course, TakenLines)
           /\ stage = "decide" =>
                 /\ wait.valid => Arrived
                 /\ cmd.type # "HEADER" => wait.valid \/ conn = "down"

\* Every message has its header, but for the one that is fetched.
Fetched(i) == Busy /\ cmd.type = "HEADER" /\ i = Len(headers)
AllHeaders == \/ stage \in {"mount", "pick"} \/ result = "true"
              \/ Busy /\ cmd.type \in {"MIME", "TEXT", "ATTACHMENT", "LOGOUT"}
Headed ==
    /\ result = "none" \/ stage = "done"
    /\ stage \notin {"out", "crashed"} /\ result # "false" =>
         \A i \in DOMAIN headers : msgs[i] # 0 => headers[i] # {} \/ Fetched(i)
    /\ Busy /\ cmd.type = "SEARCH" => ~ask.uid
    /\ Busy /\ cmd.type = "HEADER" /\ ask.uid => Len(msgs) = 1
    /\ AllHeaders => Len(headers) = Len(msgs)

Undisturbing == ~late /\ ~refused => Coming /\ Headed

\* Every text that was asked for is there, up to the one that is fetched, or
\* the status says that one is not.
Text(s) == s.disp = "" /\ Asked(s)
Fetching == stage = "pick" \/ (Busy /\ cmd.type \in Bodies)
Leaving == result = "true" \/ (Busy /\ cmd.type = "LOGOUT")
TextThere(k) == Text(slots[k]) => text[k] # {} \/ status = "response"
Texts ==
    /\ result = "none" \/ stage = "done"
    /\ Fetching \/ Leaving =>
          \A k \in DOMAIN text : (Fetching => k <= j) => TextThere(k)
    /\ Busy /\ cmd.type \in Bodies /\ Text(slots[j + 1]) => cmd.type = "TEXT"

LEMMA CourseShape ==
    /\ Course \in Shapes /\ Len(Course) = 3
    /\ \A c : c.type \in Awaited => Given(c) = {Course}
    /\ Course[1] = "literal" /\ Course[2] = "body"
    /\ \A k \in 2 .. Len(Course) : Course[k] = "body" \/ k = Len(Course)
    /\ Course[Len(Course)] = "ok"
<1>1. \A c : c.type \in Awaited => Given(c) = {Course}
  BY DEF Course, Given, Awaited
<1>2. Course \in Shapes
  BY DEF Course, Shapes
<1>3. Len(Course) = 3 /\ Course[1] = "literal" /\ Course[2] = "body" /\ Course[3] = "ok"
  BY DEF Course
<1> QED
  BY <1>1, <1>2, <1>3

LEMMA DueSame == UNCHANGED <<ask, cmd, msgs>> => (Due' <=> Due)
BY DEF Due, Holds, Exists

\* Nothing is due at these stages.
LEMMA NotComing == stage \notin {"first", "lines", "decide"} => Coming
BY DEF Coming

\* Before the first line.
LEMMA NotStarted ==
    ASSUME wait' = NewWait, cmd'.type \in Awaited
    PROVE  TakenLines' = 0 /\ Came(Course, TakenLines)'
<1>1. wait'.lf = 0 /\ wait'.got = 0 /\ ~wait'.complete
  BY DEF NewWait
<1>2. TakenLines' = 0
  BY <1>1 DEF TakenLines
<1>3. Len(Course) # 0
  BY CourseShape
<1> QED
  BY <1>1, <1>2, <1>3 DEF Came

LEMMA SendComing == ASSUME IInv, ~late, Send PROVE Coming'
<1>1. /\ inbox' = (IF cmd.type = "LOGOUT" THEN <<>> ELSE inbox)
      /\ stage' = "first" /\ wait' = NewWait /\ owed' = owed
  BY DEF Send
<1>2. owed = <<>> /\ inbox = <<>>
  BY DEF Send, IInv, Current, Quiet
<1>3. owed' = <<>> /\ inbox' = <<>>
  BY <1>1, <1>2
<1>4. ASSUME Due' PROVE (ToCome(Course, TakenLines) /\ Came(Course, TakenLines))'
  <2>1. cmd'.type \in Awaited
    BY <1>4 DEF Due
  <2>2. TakenLines' = 0 /\ Came(Course, TakenLines)'
    BY <1>1, <2>1, NotStarted
  <2>3. Len(Course) = 3
    BY <2>1, CourseShape
  <2>4. Len(inbox') = 0 /\ Len(owed') = 0 /\ DOMAIN inbox' = {} /\ DOMAIN owed' = {}
    BY <1>3, NoLines
  <2> QED
    BY <2>2, <2>3, <2>4 DEF ToCome
<1> QED
  BY <1>1, <1>4 DEF Coming

LEMMA ServeComing == ASSUME IInv, ~late', ~refused', Coming, Serve PROVE Coming'
<1> DEFINE c == Head(toSrv)
<1>0. /\ toSrv # <<>> /\ toSrv' = Tail(toSrv) /\ owed = <<>>
      /\ UNCHANGED <<ask, stage, cmd, wait, inbox, conn, msgs>>
  BY ServerData DEF Serve
<1>1. PICK r \in (IF Holds(c) THEN Given(c) ELSE {}) \cup Refusal(c) :
        owed' = Lines(r, c) /\ refused' = (refused \/ (Holds(c) /\ r \in Refusal(c)))
  BY DEF Serve
<1>2. toSrv \in Seq(Commands) /\ cmd \in Commands /\ Current
      /\ (stage = "first" => wait = NewWait)
  BY LateStays DEF IInv, LinkTypes, CallTypes, Next, Server
<1>3. CASE stage \in {"first", "lines"}
  <2>1. c = toSrv[1] /\ 1 \in DOMAIN toSrv
    BY <1>0, <1>2, OneRead
  <2>2. c = cmd /\ inbox = <<>> /\ stage = "first" /\ wait = NewWait
    BY <1>0, <1>2, <1>3, <2>1 DEF Current
  <2>3. ASSUME Due
        PROVE  (ToCome(Course, TakenLines) /\ Came(Course, TakenLines))'
    <3>1. cmd.type \in Awaited /\ Holds(c)
      BY <2>2, <2>3 DEF Due
    <3>2. r = Course /\ r \in Shapes
      <4>1. r \in Given(c)
        BY <1>1, <3>1
      <4> QED
        BY <2>2, <3>1, <4>1, CourseShape
    <3>3. /\ Lines(r, cmd) \in Seq(ReplyLines) /\ Len(Lines(r, cmd)) = Len(r)
          /\ \A k \in DOMAIN Lines(r, cmd) : Lines(r, cmd)[k].kind = r[k]
      BY <1>2, <3>2, Replied
    <3>4. /\ owed' \in Seq(ReplyLines) /\ Len(owed') = Len(r)
          /\ \A k \in DOMAIN owed' : owed'[k].kind = r[k]
      BY <1>1, <2>2, <3>3
    <3>5. Len(inbox') = 0 /\ DOMAIN inbox' = {}
      BY <1>0, <2>2, NoLines
    <3>6. TakenLines' = 0 /\ Came(Course, TakenLines)'
      <4>1. wait' = NewWait /\ cmd'.type \in Awaited
        BY <1>0, <2>2, <3>1
      <4> QED
        BY <4>1, NotStarted
    <3>7. Len(r) \in Nat /\ \A k \in DOMAIN owed' : k \in Nat /\ 0 + 0 + k = k
      BY <3>4, LenProperties, CourseShape, <3>2, <3>1
    <3>8. Course = r
      BY <1>0, <3>2 DEF Course
    <3>9. \A k \in DOMAIN owed' : owed'[k].kind = r[0 + Len(inbox') + k]
      BY <3>4, <3>5, <3>7
    <3>10. 0 + Len(inbox') + Len(owed') <= Len(r)
      BY <3>4, <3>5, <3>7
    <3> QED
      BY <3>5, <3>6, <3>8, <3>9, <3>10 DEF ToCome
  <2> QED
    BY <1>0, <2>2, <2>3, DueSame DEF Coming
<1>4. CASE stage \notin {"first", "lines"}
  <2>1. stage # "decide"
    BY <1>0, <1>2 DEF Current, Quiet
  <2>2. stage' \notin {"first", "lines", "decide"}
    BY <1>0, <1>4, <2>1
  <2> QED
    BY <2>2 DEF Coming
<1> QED
  BY <1>3, <1>4

LEMMA DeliverComing == ASSUME IInv, ~late, Coming, Deliver PROVE Coming'
<1>1. /\ owed # <<>> /\ inbox' = Append(inbox, Head(owed)) /\ owed' = Tail(owed)
      /\ UNCHANGED <<ask, stage, cmd, wait, conn, msgs, j, headers, text>>
  BY ServerData DEF Deliver
<1>2. owed \in Seq(ReplyLines) /\ inbox \in Seq(ReplyLines) /\ Current /\ wait \in Wait
  BY DEF IInv, LinkTypes, CallTypes
<1>3. /\ Head(owed) = owed[1] /\ Head(owed) \in ReplyLines
      /\ 1 \in DOMAIN owed /\ Len(owed) \in Nat /\ Len(owed') = Len(owed) - 1
      /\ \A k \in DOMAIN owed' : k + 1 \in DOMAIN owed /\ owed'[k] = owed[k + 1]
      /\ owed' \in Seq(ReplyLines)
  BY <1>1, <1>2, OneRead
<1>4. /\ Len(inbox') = Len(inbox) + 1 /\ DOMAIN inbox' = 1 .. (Len(inbox) + 1)
      /\ Len(inbox) \in Nat /\ DOMAIN inbox = 1 .. Len(inbox)
      /\ \A k \in DOMAIN inbox : inbox'[k] = inbox[k]
      /\ inbox'[Len(inbox) + 1] = owed[1]
  BY <1>1, <1>2, <1>3, OneMore
<1>5. stage # "decide"
  BY <1>1, <1>2 DEF Current, Quiet
<1>6. ASSUME NEW r, NEW n \in Nat, Len(r) \in Nat, ToCome(r, n)
      PROVE  /\ n + Len(inbox') + Len(owed') <= Len(r)
             /\ \A k \in DOMAIN inbox' : inbox'[k].kind = r[n + k]
             /\ \A k \in DOMAIN owed' : owed'[k].kind = r[n + Len(inbox') + k]
  <2>1. n + Len(inbox') + Len(owed') <= Len(r)
    BY <1>3, <1>4, <1>6 DEF ToCome
  <2>2. ASSUME NEW k \in DOMAIN inbox' PROVE inbox'[k].kind = r[n + k]
    <3>1. CASE k \in DOMAIN inbox
      BY <1>4, <1>6, <3>1 DEF ToCome
    <3>2. CASE k = Len(inbox) + 1
      <4>1. owed[1].kind = r[n + Len(inbox) + 1]
        BY <1>3, <1>6 DEF ToCome
      <4>2. n + Len(inbox) + 1 = n + k
        BY <1>4, <3>2
      <4> QED
        BY <1>4, <3>2, <4>1, <4>2
    <3> QED
      BY <1>4, <3>1, <3>2
  <2>3. ASSUME NEW k \in DOMAIN owed' PROVE owed'[k].kind = r[n + Len(inbox') + k]
    <3>1. k + 1 \in DOMAIN owed /\ owed'[k] = owed[k + 1]
      BY <1>3
    <3>2. owed[k + 1].kind = r[n + Len(inbox) + (k + 1)]
      BY <1>6, <3>1 DEF ToCome
    <3>3. k \in Nat
      BY <1>3, LenProperties
    <3>4. n + Len(inbox) + (k + 1) = n + Len(inbox') + k
      BY <1>4, <3>3
    <3> QED
      BY <3>1, <3>2, <3>4
  <2> QED
    BY <2>1, <2>2, <2>3
<1>7. TakenLines \in Nat /\ TakenLines' = TakenLines
  BY <1>1, <1>2 DEF TakenLines, Wait
<1>8. ASSUME Due, ToCome(Course, TakenLines), Came(Course, TakenLines)
      PROVE  (ToCome(Course, TakenLines) /\ Came(Course, TakenLines))'
  <2> DEFINE r == Course
             n == TakenLines
  <2>1. Len(r) \in Nat
    BY <1>8, CourseShape DEF Due
  <2>2. ToCome(r, n) /\ n \in Nat
    BY <1>7, <1>8
  <2>3. Course = r
    BY <1>1 DEF Course
  <2> HIDE DEF r, n
  <2>4. /\ n + Len(inbox') + Len(owed') <= Len(r)
        /\ \A k \in DOMAIN inbox' : inbox'[k].kind = r[n + k]
        /\ \A k \in DOMAIN owed' : owed'[k].kind = r[n + Len(inbox') + k]
    BY <2>1, <2>2, <1>6
  <2>5. ToCome(Course, TakenLines)'
    BY <1>7, <2>3, <2>4 DEF ToCome, n
  <2>6. Came(Course, TakenLines)'
    BY <1>1, <1>7, <1>8, <2>3 DEF Came, Arrived, r
  <2> QED
    BY <2>5, <2>6
<1> QED
  BY <1>1, <1>5, <1>8, DueSame DEF Coming

\* A line of the reply that is due is read, and its content is stored.
LEMMA ReadComing == ASSUME IInv, ~late, Coming, ReadLine, Due' PROVE Coming'
<1> DEFINE line == Head(inbox)
           r == Course
           n == TakenLines
<1>1. /\ stage = "lines" /\ inbox # <<>> /\ inbox' = Tail(inbox) /\ cmd' = cmd
      /\ wait' = Take(WaitType(cmd), wait, line) /\ ask' = ask
      /\ StoreHeader(line) /\ StoreBody(line) /\ StoreNumbers(line)
      /\ stage' = (IF wait'.broken THEN "decide" ELSE "lines")
      /\ UNCHANGED <<conn, owed, j>>
  BY DEF ReadLine
<1>2. /\ wait \in Wait /\ inbox \in Seq(ReplyLines) /\ owed \in Seq(ReplyLines)
      /\ cmd \in Commands /\ cmd.type \in Awaited
      /\ wait.lf = 0 => wait = NewWait
  BY <1>1 DEF IInv, CallTypes, LinkTypes, Due
<1>3. msgs' = msgs
  BY <1>1, <1>2 DEF StoreNumbers, Awaited
<1>4. Due
  BY <1>1, <1>3, DueSame
<1>5. /\ Len(r) = 3 /\ r[1] = "literal" /\ r[2] = "body" /\ r[Len(r)] = "ok"
      /\ \A k \in 2 .. Len(r) : r[k] = "body" \/ k = Len(r)
  BY <1>2, CourseShape
<1>6. ToCome(r, n) /\ Came(r, n)
  BY <1>1, <1>4 DEF Coming
<1>7. /\ line = inbox[1] /\ line \in ReplyLines /\ Len(inbox) \in Nat /\ Len(inbox) >= 1
      /\ 1 \in DOMAIN inbox /\ Len(inbox') = Len(inbox) - 1 /\ inbox' \in Seq(ReplyLines)
      /\ \A k \in DOMAIN inbox' : k + 1 \in DOMAIN inbox /\ inbox'[k] = inbox[k + 1]
  BY <1>1, <1>2, OneRead
<1>8. line.of = cmd
  BY <1>1, <1>7 DEF IInv, Current, Answering
<1>9. /\ wait.lf \in {0, 1} /\ wait.got \in Nat /\ wait.payload \in Nat /\ n \in Nat
      /\ n = wait.lf + wait.got /\ Len(owed) \in Nat
  BY <1>2, LenProperties DEF Wait, TakenLines
<1>10. line.kind = r[n + 1] /\ n < Len(r)
  <2>1. n + Len(inbox) + Len(owed) <= Len(r)
    BY <1>6 DEF ToCome
  <2>2. n + 1 <= Len(r)
    BY <1>5, <1>7, <1>9, <2>1
  <2>3. inbox[1].kind = r[n + 1]
    BY <1>6, <1>7 DEF ToCome
  <2> QED
    BY <1>5, <1>7, <1>9, <2>2, <2>3
<1>11. ~wait.complete
  BY <1>5, <1>6, <1>9, <1>10 DEF Came
<1>12. /\ wait'.lf = 1
       /\ wait'.payload = IF wait.lf = 0 THEN line.size ELSE wait.payload
       /\ wait'.got = Read(wait)
       /\ wait'.valid = ValidAfter(cmd.type, wait, line)
       /\ wait'.complete = CompleteAfter(cmd.type, wait, line)
       /\ wait'.broken = FALSE
  <2>1. WaitType(cmd) = cmd.type /\ cmd.type \in Types \ {"SEARCH"}
    BY <1>2 DEF WaitType, Types, FetchTypes, Awaited
  <2>2. wait' = Take(cmd.type, wait, line)
    BY <1>1, <2>1
  <2> HIDE DEF line
  <2> QED
    BY <1>2, <1>7, <2>1, <2>2, Taken
<1>13. stage' = "lines"
  BY <1>1, <1>12
<1> HIDE DEF line, r, n
<1>14. n > 0 => wait.lf = 1 /\ wait.payload = 1 /\ wait.valid
  BY <1>6 DEF Came
\* The count of the lines.
<1>15. TakenLines' = n + 1
  <2>1. CASE n = 0
    <3>1. wait.lf = 0 /\ wait.got = 0
      BY <1>9, <2>1
    <3>2. wait.payload = 0
      BY <1>2, <3>1 DEF NewWait
    <3>3. Read(wait) = 0
      BY <3>1, <3>2 DEF Read
    <3> QED
      BY <1>12, <2>1, <3>3 DEF TakenLines
  <2>2. CASE n > 0
    <3>1. Read(wait) = wait.got + 1 /\ wait.lf = 1
      BY <1>11, <1>14, <2>2 DEF Read
    <3> QED
      BY <1>9, <1>12, <3>1 DEF TakenLines
  <2> QED
    BY <1>9, <2>1, <2>2
\* What the wait knows.
<1>16. wait'.lf = 1 /\ wait'.payload = 1 /\ wait'.valid
  <2>1. CASE n = 0
    <3>1. wait.lf = 0 /\ line.kind = "literal"
      BY <1>5, <1>9, <1>10, <2>1
    <3>2. line.size = 1
      BY <1>7, <3>1, LineTypes
    <3>3. ValidAfter(cmd.type, wait, line)
      BY <1>2, <3>1 DEF ValidAfter, FetchTypes, Tagged, Awaited
    <3> QED
      BY <1>12, <3>1, <3>2, <3>3
  <2>2. CASE n > 0
    <3>1. line.kind \in {"body", "ok"}
      BY <1>5, <1>9, <1>10, <2>2
    <3>2. ValidAfter(cmd.type, wait, line)
      BY <1>2, <1>14, <2>2, <3>1 DEF ValidAfter, FetchTypes, Tagged
    <3> QED
      BY <1>12, <1>14, <2>2, <3>2
  <2> QED
    BY <1>9, <2>1, <2>2
<1>17. wait'.complete <=> n + 1 = Len(r)
  <2>1. line.kind \in Tagged <=> n + 1 = Len(r)
    BY <1>5, <1>9, <1>10 DEF Tagged
  <2>2. ASSUME n + 1 = Len(r) PROVE CompleteAfter(cmd.type, wait, line)
    <3>1. n > 1 /\ wait.payload = 1 /\ wait.lf = 1
      BY <1>5, <1>9, <1>14, <2>2
    <3>2. Read(wait) >= wait.payload
      BY <1>9, <1>11, <3>1 DEF Read
    <3> QED
      BY <2>1, <2>2, <3>1, <3>2 DEF CompleteAfter
  <2>3. ASSUME n + 1 # Len(r) PROVE ~CompleteAfter(cmd.type, wait, line)
    BY <1>11, <2>1, <2>3 DEF CompleteAfter
  <2> QED
    BY <1>12, <2>2, <2>3
\* The content.
<1>18. n > 0 => Arrived'
  <2> SUFFICES ASSUME n > 0 PROVE Arrived'
    OBVIOUS
  <2>1. CASE cmd.type = "HEADER"
    <3>1. cmd.part = <<Len(headers)>> /\ headers # <<>> /\ headers \in Seq(SUBSET Commands)
      BY <1>1, <2>1 DEF IInv, Progress, Busy, BodyTypes
    <3>2. cmd.part[1] = Len(headers) /\ Len(headers) \in DOMAIN headers
      BY <3>1, LenProperties, EmptySeq
    <3>3. CASE n = 1
      <4>1. line.kind = "body"
        BY <1>5, <1>10, <3>3
      <4>2. headers' = [headers EXCEPT ![cmd.part[1]] = @ \cup {line.of}]
        BY <1>1, <1>8, <2>1, <4>1 DEF StoreHeader, line
      <4>3. headers'[cmd.part[1]] = headers[cmd.part[1]] \cup {line.of}
        BY <3>1, <3>2, <4>2, LenProperties
      <4> QED
        BY <1>1, <2>1, <4>3 DEF Arrived
    <3>4. CASE n > 1
      <4>1. headers[cmd.part[1]] # {}
        BY <1>6, <2>1, <3>4 DEF Came, Arrived
      <4>2. headers'[cmd.part[1]] # {}
        BY <3>2, <4>1, HeaderRead
      <4> QED
        BY <1>1, <2>1, <4>2 DEF Arrived
    <3> QED
      BY <1>9, <3>3, <3>4
  <2>3. CASE cmd.type = "MIME"
    <3>1. wait'.got = wait.got + 1
      BY <1>11, <1>12, <1>14 DEF Read
    <3>2. wait'.payload > 0 /\ wait'.got > 0
      BY <1>9, <1>16, <3>1
    <3>3. cmd' = cmd
      BY <1>1
    <3> QED
      BY <2>3, <3>2, <3>3 DEF Arrived
  <2> QED
    BY <1>2, <2>1, <2>3 DEF Awaited
<1>19. Course = r
  BY <1>1 DEF Course, r
<1>20. ToCome(Course, TakenLines)'
  <2>1. (n + 1) + Len(inbox') + Len(owed') <= Len(r)
    BY <1>1, <1>5, <1>6, <1>7, <1>9 DEF ToCome
  <2>2. ASSUME NEW k \in DOMAIN inbox' PROVE inbox'[k].kind = r[(n + 1) + k]
    <3>1. k \in Nat
      BY <1>7, LenProperties
    <3>2. n + (k + 1) = (n + 1) + k
      BY <1>9, <3>1
    <3> QED
      BY <1>6, <1>7, <3>2 DEF ToCome
  <2>3. ASSUME NEW k \in DOMAIN owed' PROVE owed'[k].kind = r[(n + 1) + Len(inbox') + k]
    <3>1. k \in Nat /\ k \in DOMAIN owed
      BY <1>1, <1>2, LenProperties
    <3>2. n + Len(inbox) + k = (n + 1) + Len(inbox') + k
      BY <1>7, <1>9, <3>1
    <3> QED
      BY <1>1, <1>6, <3>1, <3>2 DEF ToCome
  <2> QED
    BY <1>15, <1>19, <2>1, <2>2, <2>3 DEF ToCome
<1>21. Came(Course, TakenLines)'
  <2>1. n + 1 > 1 => n > 0
    BY <1>9
  <2>2. n + 1 > 1 => Arrived'
    BY <1>18, <2>1
  <2> QED
    BY <1>15, <1>16, <1>17, <1>19, <2>2 DEF Came
<1> QED
  BY <1>13, <1>20, <1>21 DEF Coming

LEMMA ComingStep ==
    ASSUME IInv, Coming, [Next]_vars, ~late', ~refused'
    PROVE  Coming'
<1>0. ~late
  BY LateStays
<1>1. CASE Send
  BY <1>0, <1>1, SendComing
<1>2. CASE Serve
  BY <1>2, ServeComing
<1>3. CASE Deliver
  BY <1>0, <1>3, DeliverComing
<1>4. CASE ReadLine
  <2>1. CASE Due'
    BY <1>0, <1>4, <2>1, ReadComing
  <2>2. CASE ~Due'
    BY <2>2 DEF Coming
  <2> QED
    BY <2>1, <2>2
<1>5. CASE FirstByte
  <2>1. /\ stage = "first" /\ stage' = "lines"
        /\ UNCHANGED <<ask, cmd, msgs, wait, owed, inbox, headers, text, j>>
    BY <1>5, TalkData DEF FirstByte, link
  <2>2. Due' => Due
    BY <2>1, DueSame
  <2> QED
    BY <2>1, <2>2 DEF Coming, ToCome, Came, TakenLines, Arrived
<1>6. CASE TimeOut
  <2>1. /\ stage = "first" /\ stage' = "decide" /\ wait' = wait /\ conn' = conn
        /\ late' = (late \/ conn = "up")
    BY <1>6 DEF TimeOut, link
  <2>2. conn = "down" /\ wait = NewWait
    BY <2>1 DEF IInv, LinkTypes, CallTypes
  <2>3. ~wait'.valid /\ conn' = "down"
    BY <2>1, <2>2 DEF NewWait
  <2> QED
    BY <2>1, <2>3 DEF Coming
<1>7. CASE EndWait
  <2>1. /\ stage = "lines" /\ stage' = "decide" /\ wait.complete
        /\ UNCHANGED <<ask, cmd, msgs, wait, headers, text, j>>
    BY <1>7, TalkData DEF EndWait
  <2>2. ASSUME Due' PROVE wait'.valid /\ Arrived'
    <3>1. Due
      BY <2>1, <2>2, DueSame
    <3>2. Came(Course, TakenLines)
      BY <2>1, <3>1 DEF Coming
    <3>3. TakenLines = 3
      BY <2>1, <3>1, <3>2, CourseShape DEF Came, Due
    <3>4. wait.valid /\ Arrived
      BY <3>2, <3>3 DEF Came
    <3> QED
      BY <2>1, <3>4 DEF Arrived
  <2> QED
    BY <2>1, <2>2 DEF Coming
<1>8. CASE Disconnect
  <2>1. /\ UNCHANGED <<ask, stage, cmd, msgs, wait, inbox, headers, text, j>>
        /\ owed' = <<>> /\ conn' = "down"
    BY <1>8, ServerData DEF Disconnect
  <2>2. Len(owed') = 0 /\ DOMAIN owed' = {}
    BY <2>1, NoLines
  <2>3. Due' => Due
    BY <2>1, DueSame
  <2>4. ASSUME Due, stage \in {"first", "lines"}
        PROVE  (ToCome(Course, TakenLines) /\ Came(Course, TakenLines))'
    <3>1. ToCome(Course, TakenLines) /\ Came(Course, TakenLines)
      BY <2>4 DEF Coming
    <3>2. TakenLines \in Nat /\ Len(inbox) \in Nat /\ Len(owed) \in Nat
      BY LenProperties DEF IInv, LinkTypes, CallTypes, TakenLines, Wait
    <3>3. Len(Course) \in Nat
      BY <2>4, CourseShape DEF Due
    <3>4. TakenLines + Len(inbox) + 0 <= Len(Course)
      BY <3>1, <3>2, <3>3 DEF ToCome
    <3>5. ToCome(Course, TakenLines)'
      BY <2>1, <2>2, <3>1, <3>4 DEF ToCome, TakenLines, Course
    <3> QED
      BY <2>1, <3>1, <3>5 DEF Came, TakenLines, Course, Arrived
  <2> QED
    BY <2>1, <2>3, <2>4 DEF Coming, Arrived
<1>9. CASE UNCHANGED vars
  <2>1. UNCHANGED <<ask, stage, cmd, msgs, wait, inbox, owed, conn, headers, text, j>>
    BY <1>9 DEF vars, link, data, body
  <2>2. Due' => Due
    BY <2>1, DueSame
  <2> QED
    BY <2>1, <2>2 DEF Coming, ToCome, Came, TakenLines, Course, Arrived
<1>10. CASE \/ ConnectFails \/ ConnectSucceeds \/ NullStream \/ LoginAnswered \/ ListAnswered
            \/ ExamineAnswered \/ SearchAnswered \/ HeaderAnswered \/ PartAnswered \/ SubAnswered
            \/ StartBodies \/ PickPart \/ BodyAnswered \/ LogoutAnswered \/ Out
  <2>1. stage' \notin {"lines", "decide"}
    BY <1>10, NoWait
  <2>2. stage' # "first"
    <3>1. ConnectFails \/ ConnectSucceeds \/ NullStream \/ LoginAnswered \/ ListAnswered
          => stage' # "first"
      BY DEF ConnectFails, ConnectSucceeds, NullStream, LoginAnswered, ListAnswered, Go, GiveUp
    <3>2. ExamineAnswered \/ SearchAnswered => stage' # "first"
      BY DEF ExamineAnswered, SearchAnswered, StartFetch, Go, GiveUp
    <3>3. HeaderAnswered \/ SubAnswered => stage' # "first"
      BY DEF HeaderAnswered, SubAnswered, NextSub, LeaveMulti, Go, GiveUp
    <3>4. PartAnswered => stage' # "first"
      BY DEF PartAnswered, Go
    <3>5. PickPart => stage' # "first"
      BY DEF PickPart, Go
    <3>6. StartBodies \/ BodyAnswered \/ LogoutAnswered \/ Out => stage' # "first"
      BY DEF StartBodies, BodyAnswered, LogoutAnswered, Out, GiveUp
    <3> QED
      BY <1>10, <3>1, <3>2, <3>3, <3>4, <3>5, <3>6
  <2> QED
    BY <2>1, <2>2 DEF Coming
<1> QED
  BY <1>1, <1>2, <1>3, <1>4, <1>5, <1>6, <1>7, <1>8, <1>9, <1>10, Steps DEF Inner

\* A client that does something has not returned.
LEMMA NotReturned == Client => stage # "done"
<1>1. PickPart => stage # "done"
  BY DEF PickPart
<1>2. PartAnswered => stage # "done"
  BY DEF PartAnswered, Answered
<1>3. ConnectFails \/ ConnectSucceeds \/ Send \/ NullStream \/ FirstByte \/ TimeOut \/ ReadLine
      \/ EndWait => stage # "done"
  BY DEF ConnectFails, ConnectSucceeds, Send, NullStream, FirstByte, TimeOut, ReadLine, EndWait
<1>4. LoginAnswered \/ ListAnswered \/ ExamineAnswered \/ SearchAnswered \/ HeaderAnswered
      \/ SubAnswered \/ BodyAnswered \/ LogoutAnswered => stage # "done"
  BY DEF LoginAnswered, ListAnswered, ExamineAnswered, SearchAnswered, HeaderAnswered,
         SubAnswered, BodyAnswered, LogoutAnswered, Answered
<1>5. StartBodies \/ Out => stage # "done"
  BY DEF StartBodies, Out
<1> QED
  BY <1>1, <1>2, <1>3, <1>4, <1>5 DEF Client

\* readMail that gives up or crashes promises nothing.
LEMMA HeadedOut == stage \in {"out", "crashed"} /\ result = "none" => Headed
BY DEF Headed, AllHeaders, Busy

\* Steps within one command, and from one command to the next.
LEMMA HeadedSame ==
    ASSUME Headed, result = "none", UNCHANGED <<ask, cmd, msgs, headers, result>>, Busy, Busy'
    PROVE  Headed'
<1>1. stage \notin {"out", "crashed", "mount", "pick"} /\ stage' \notin {"out", "crashed", "mount", "pick"}
  BY DEF Busy
<1>2. AllHeaders' => AllHeaders
  BY <1>1 DEF AllHeaders
<1>3. \A i \in DOMAIN headers : msgs[i] # 0 => headers[i] # {} \/ Fetched(i)
  BY <1>1 DEF Headed
<1>4. \A i \in DOMAIN headers' : msgs'[i] # 0 => headers'[i] # {} \/ Fetched(i)'
  BY <1>3 DEF Fetched
<1> QED
  BY <1>1, <1>2, <1>4 DEF Headed

LEMMA HeadedOn ==
    ASSUME Headed, result = "none", UNCHANGED <<ask, msgs, headers, result>>,
           AllHeaders, cmd.type # "HEADER" \/ ~Busy,
           stage \notin {"out", "crashed"}, stage' \notin {"out", "crashed"},
           Busy' => cmd'.type \notin {"SEARCH", "HEADER"}
    PROVE  Headed'
<1>1. \A i \in DOMAIN headers : msgs[i] # 0 => headers[i] # {}
  BY DEF Headed, Fetched
<1>2. Len(headers) = Len(msgs)
  BY DEF Headed
<1>3. \A i \in DOMAIN headers' : msgs'[i] # 0 => headers'[i] # {} \/ Fetched(i)'
  BY <1>1
<1> QED
  BY <1>2, <1>3 DEF Headed

\* Before the first header is fetched.
LEMMA HeadedEarly ==
    ASSUME headers' = <<>>, result' = "none",
           stage' = "connect" \/ (Busy' /\ cmd'.type \in Early),
           Busy' /\ cmd'.type = "SEARCH" => ~ask'.uid
    PROVE  Headed'
<1>1. ~AllHeaders'
  BY DEF AllHeaders, Busy, Early
<1>2. DOMAIN headers' = {}
  BY NoLines
<1>3. ~(Busy' /\ cmd'.type = "HEADER")
  BY DEF Busy, Early
<1> QED
  BY <1>1, <1>2, <1>3 DEF Headed

\* The first header is fetched, or there is none to fetch.
LEMMA HeadedFirst ==
    ASSUME NEW m, m \in Seq(Nat), msgs' = m, StartFetch(m), headers = <<>>, result' = "none",
           ask'.uid => Len(m) = 1
    PROVE  Headed'
<1>1. CASE m = <<>>
  <2>1. stage' = "send" /\ cmd' = Cmd("LOGOUT") /\ headers' = <<>>
    BY <1>1 DEF StartFetch, Go
  <2>2. cmd'.type = "LOGOUT"
    BY <2>1 DEF Cmd
  <2>3. Len(headers') = Len(msgs') /\ DOMAIN headers' = {}
    BY <1>1, <2>1
  <2> QED
    BY <2>1, <2>2, <2>3 DEF Headed, Busy
<1>2. CASE m # <<>>
  <2>1. stage' = "send" /\ cmd' = Fetch("HEADER", <<1>>) /\ headers' = <<{}>>
    BY <1>2 DEF StartFetch, Go
  <2>2. cmd'.type = "HEADER"
    BY <2>1 DEF Fetch
  <2>3. DOMAIN headers' = {1} /\ Len(headers') = 1
    BY <2>1
  <2>4. ~AllHeaders'
    BY <2>1, <2>2 DEF AllHeaders
  <2>5. \A i \in DOMAIN headers' : Fetched(i)'
    BY <2>1, <2>2, <2>3 DEF Fetched, Busy
  <2> QED
    BY <2>1, <2>2, <2>4, <2>5 DEF Headed
<1> QED
  BY <1>1, <1>2

LEMMA HeaderHeaded == ASSUME IInv, Coming, Headed, HeaderAnswered PROVE Headed'
<1>1. /\ stage = "decide" /\ cmd.type = "HEADER" /\ UNCHANGED <<ask, msgs, result>>
  BY DEF HeaderAnswered, Answered
<1>2. /\ cmd.part = <<Len(headers)>> /\ headers # <<>> /\ Busy
      /\ headers \in Seq(SUBSET Commands) /\ Len(headers) <= Len(msgs) /\ msgs \in Seq(Nat)
  BY <1>1 DEF IInv, Progress, BodyTypes, Busy
<1>3. /\ cmd.part[1] = Len(headers) /\ Len(headers) \in Nat /\ Len(headers) # 0
      /\ Len(msgs) \in Nat /\ DOMAIN headers = 1 .. Len(headers)
  BY <1>2, LenProperties, EmptySeq
<1>4. result = "none"
  BY <1>1 DEF Headed
<1>5. ask.uid => Len(headers) = Len(msgs)
  <2>1. ask.uid => Len(msgs) = 1
    BY <1>1, <1>2 DEF Headed
  <2>2. ASSUME NEW n \in Nat, n # 0, n <= 1 PROVE n = 1
    BY <2>2
  <2>3. Len(msgs) = 1 => Len(headers) = 1
    BY <1>2, <1>3, <2>2
  <2> QED
    BY <2>1, <2>3
<1>6. ASSUME wait.valid
      PROVE  \A i \in DOMAIN headers : msgs[i] # 0 => headers[i] # {}
  <2> SUFFICES ASSUME NEW i \in DOMAIN headers, msgs[i] # 0 PROVE headers[i] # {}
    OBVIOUS
  <2>1. CASE i = Len(headers)
    <3>1. Due
      BY <1>1, <1>3, <2>1 DEF Due, Holds, Awaited
    <3> QED
      BY <1>1, <1>3, <1>6, <2>1, <3>1 DEF Coming, Arrived
  <2>2. CASE i # Len(headers)
    BY <1>1, <1>4, <2>2 DEF Headed, Fetched
  <2> QED
    BY <2>1, <2>2
<1>7. CASE ~wait.valid
  <2>1. stage' = "out"
    BY <1>3, <1>7 DEF HeaderAnswered, GiveUp
  <2> QED
    BY <1>1, <1>4, <2>1 DEF Headed, AllHeaders, Busy
<1>8. CASE wait.valid /\ ~ask.uid /\ cmd.part[1] < Len(msgs)
  <2>1. /\ stage' = "send" /\ cmd' = Fetch("HEADER", <<cmd.part[1] + 1>>)
        /\ headers' = Append(headers, {})
    BY <1>8 DEF HeaderAnswered, Go
  <2>2. cmd'.type = "HEADER"
    BY <2>1 DEF Fetch
  <2>3. /\ Len(headers') = Len(headers) + 1 /\ DOMAIN headers' = 1 .. (Len(headers) + 1)
        /\ \A k \in DOMAIN headers : headers'[k] = headers[k]
    BY <1>2, <2>1, OneMore
  <2>4. \A i \in DOMAIN headers' : msgs'[i] # 0 => headers'[i] # {} \/ Fetched(i)'
    <3> SUFFICES ASSUME NEW i \in DOMAIN headers', msgs[i] # 0
                 PROVE  headers'[i] # {} \/ Fetched(i)'
      BY <1>1
    <3>1. CASE i \in DOMAIN headers
      BY <1>6, <1>8, <2>3, <3>1
    <3>2. CASE i = Len(headers')
      BY <2>1, <2>2, <3>2 DEF Fetched, Busy
    <3> QED
      BY <1>3, <2>3, <3>1, <3>2
  <2>5. ~AllHeaders'
    BY <1>1, <1>4, <2>1, <2>2 DEF AllHeaders
  <2> QED
    BY <1>1, <1>4, <1>8, <2>2, <2>4, <2>5 DEF Headed
<1>9. CASE wait.valid /\ (ask.uid \/ ~(cmd.part[1] < Len(msgs)))
  <2>1. /\ stage' = "send" /\ headers' = headers
        /\ cmd' \in {Fetch("MIME", <<1>>), Cmd("LOGOUT")}
    BY <1>9 DEF HeaderAnswered, Go
  <2>2. cmd'.type \in {"MIME", "LOGOUT"}
    BY <2>1 DEF Fetch, Cmd
  <2>3. Len(headers) = Len(msgs)
    BY <1>2, <1>3, <1>5, <1>9
  <2>4. \A i \in DOMAIN headers' : msgs'[i] # 0 => headers'[i] # {} \/ Fetched(i)'
    BY <1>1, <1>6, <1>9, <2>1
  <2> QED
    BY <1>1, <1>4, <2>1, <2>2, <2>3, <2>4 DEF Headed
<1> QED
  BY <1>7, <1>8, <1>9

LEMMA HeadedStep == ASSUME IInv, IInv', Coming, Headed, [Next]_vars PROVE Headed'
<1>0. ASSUME Client PROVE stage # "done" /\ result = "none"
  BY <1>0, NotReturned DEF Headed
<1>1. CASE Send \/ FirstByte \/ TimeOut \/ EndWait
  <2>1. /\ Client /\ UNCHANGED <<ask, msgs, headers>> /\ UNCHANGED <<cmd, result>>
        /\ Busy /\ Busy'
    BY <1>1, TalkData DEF Client, Send, FirstByte, TimeOut, EndWait, outcome, Busy
  <2> QED
    BY <1>0, <2>1, HeadedSame
<1>2. CASE NullStream \/ LoginAnswered \/ ListAnswered \/ ConnectSucceeds
  <2>1. Client /\ UNCHANGED <<ask, msgs, headers>> /\ result' = result
    BY <1>2, TalkData DEF Client, NullStream, LoginAnswered, ListAnswered, ConnectSucceeds, outcome
  <2>2. CASE stage' \in {"out", "crashed"}
    BY <1>0, <2>1, <2>2 DEF Headed, AllHeaders, Busy
  <2>3. CASE stage' \notin {"out", "crashed"}
    <3>1. stage' = "send" /\ cmd'.type \in {"LOGIN", "LIST", "EXAMINE"}
          /\ (stage = "connect" \/ (stage = "decide" /\ cmd.type \in Early))
      BY <1>2, <2>3 DEF NullStream, LoginAnswered, ListAnswered, ConnectSucceeds, Go, GiveUp,
                        Cmd, Answered, Early, IInv, Progress
    <3>2. headers' = <<>>
      BY <2>1, <3>1 DEF IInv, Progress, Busy
    <3> QED
      BY <1>0, <2>1, <3>1, <3>2, HeadedEarly DEF Busy, Early
  <2> QED
    BY <2>2, <2>3
<1>3. CASE ConnectFails
  <2>1. /\ Client /\ stage = "connect" /\ UNCHANGED <<ask, msgs, headers, cmd>>
        /\ \/ stage' = "connect" /\ result' = result
           \/ stage' = "done" /\ result' = "false"
    BY <1>3, TalkData DEF Client, ConnectFails
  <2>2. headers' = <<>>
    BY <2>1 DEF IInv, Progress
  <2>3. CASE stage' = "connect" /\ result' = result
    BY <1>0, <2>1, <2>2, <2>3, HeadedEarly DEF Busy
  <2>4. CASE stage' = "done" /\ result' = "false"
    BY <2>4 DEF Headed, AllHeaders, Busy
  <2> QED
    BY <2>1, <2>3, <2>4
<1>4. CASE ReadLine
  <2>1. /\ Client /\ stage = "lines" /\ UNCHANGED <<ask, cmd, result>>
        /\ stage' \in {"lines", "decide"} /\ StoreNumbers(Head(inbox))
    BY <1>4 DEF Client, ReadLine, outcome
  <2>2. Busy /\ Busy' /\ result = "none"
    BY <1>0, <2>1 DEF Busy
  <2>3. CASE cmd.type \in Early
    <3>1. headers' = <<>>
      BY <1>4, <2>2, <2>3, HeaderRead DEF IInv, Progress
    <3>2. cmd.type = "SEARCH" => ~ask.uid
      BY <2>2 DEF Headed
    <3> QED
      BY <2>1, <2>2, <2>3, <3>1, <3>2, HeadedEarly
  <2>4. CASE cmd.type \notin Early
    <3>1. msgs' = msgs
      BY <2>1, <2>4 DEF StoreNumbers, Early
    <3>2. Len(headers') = Len(headers) /\ DOMAIN headers' = DOMAIN headers
      BY <1>4, HeaderRead
    <3>3. \A i \in DOMAIN headers : headers[i] # {} => headers'[i] # {}
      BY <1>4, HeaderRead
    <3>4. stage' \notin {"out", "crashed", "mount", "pick"}
          /\ stage \notin {"out", "crashed", "mount", "pick"}
      BY <2>1
    <3>5. \A i \in DOMAIN headers : msgs[i] # 0 => headers[i] # {} \/ Fetched(i)
      BY <2>2, <3>4 DEF Headed
    <3>6. \A i \in DOMAIN headers' : msgs'[i] # 0 => headers'[i] # {} \/ Fetched(i)'
      BY <2>1, <2>2, <3>1, <3>2, <3>3, <3>5 DEF Fetched
    <3>7. AllHeaders' => AllHeaders
      BY <2>1, <2>2, <3>4 DEF AllHeaders
    <3> QED
      BY <2>1, <2>2, <2>4, <3>1, <3>2, <3>6, <3>7 DEF Headed
  <2> QED
    BY <2>3, <2>4
<1>5. CASE ExamineAnswered
  <2>1. /\ Client /\ stage = "decide" /\ cmd.type = "EXAMINE" /\ UNCHANGED <<ask, result>>
    BY <1>5 DEF Client, ExamineAnswered, Answered
  <2>2. result = "none" /\ headers = <<>>
    BY <1>0, <2>1 DEF IInv, Progress, Busy, Early
  <2>3. CASE ~wait.valid
    <3>1. stage' = "out"
      BY <1>5, <2>3 DEF ExamineAnswered, GiveUp
    <3> QED
      BY <2>1, <2>2, <3>1 DEF Headed, AllHeaders, Busy
  <2>4. CASE wait.valid /\ ~ask.uid /\ ask.criteria
    <3>1. cmd' = Cmd("SEARCH") /\ stage' = "send" /\ headers' = headers
      BY <1>5, <2>4 DEF ExamineAnswered, Go
    <3>2. cmd'.type = "SEARCH"
      BY <3>1 DEF Cmd
    <3> QED
      BY <2>1, <2>2, <2>4, <3>1, <3>2, HeadedEarly DEF Busy, Early
  <2>5. CASE wait.valid /\ ~(~ask.uid /\ ask.criteria)
    <3>1. msgs' = <<IF ask.uid THEN 1 ELSE total>> /\ StartFetch(msgs')
      BY <1>5, <2>5 DEF ExamineAnswered
    <3>2. Len(msgs') = 1
      BY <3>1
    <3>3. msgs' \in Seq(Nat)
      BY DEF IInv, BodyTypes
    <3> QED
      BY <2>1, <2>2, <3>1, <3>2, <3>3, HeadedFirst
  <2> QED
    BY <2>3, <2>4, <2>5
<1>6. CASE SearchAnswered
  <2>1. /\ Client /\ stage = "decide" /\ cmd.type = "SEARCH" /\ UNCHANGED <<ask, result, msgs>>
        /\ IF wait.valid THEN StartFetch(msgs) ELSE stage' = "out"
    BY <1>6 DEF Client, SearchAnswered, Answered, GiveUp
  <2>2. result = "none" /\ headers = <<>> /\ ~ask.uid /\ msgs \in Seq(Nat)
    BY <1>0, <2>1 DEF IInv, Progress, Busy, Early, BodyTypes, Headed
  <2>3. CASE stage' = "out"
    BY <2>1, <2>2, <2>3 DEF Headed, AllHeaders, Busy
  <2>4. CASE StartFetch(msgs)
    BY <2>1, <2>2, <2>4, HeadedFirst
  <2> QED
    BY <2>1, <2>3, <2>4
<1>7. CASE HeaderAnswered
  BY <1>7, HeaderHeaded
<1>8. CASE PartAnswered \/ SubAnswered
  <2>1. /\ Client /\ stage = "decide" /\ cmd.type = "MIME"
        /\ UNCHANGED <<ask, msgs, headers, result>>
    BY <1>8 DEF Client, PartAnswered, SubAnswered, Answered, outcome
  <2>2. stage' = "mount" \/ (stage' = "send" /\ cmd'.type = "MIME")
    <3>1. CASE PartAnswered
      <4>1. stage' = "mount" \/ Go(cmd) \/ \E part : Go(Fetch("MIME", part))
        BY <3>1 DEF PartAnswered
      <4> QED
        BY <2>1, <4>1 DEF Go, Fetch
    <3>2. CASE SubAnswered
      BY <3>2 DEF SubAnswered, NextSub, LeaveMulti, Go, Fetch
    <3> QED
      BY <1>8, <3>1, <3>2
  <2> QED
    BY <1>0, <2>1, <2>2, HeadedOn DEF AllHeaders, Busy
<1>9. CASE StartBodies
  <2>1. /\ Client /\ stage = "mount" /\ stage' = "pick"
        /\ UNCHANGED <<ask, msgs, headers, result>>
    BY <1>9 DEF Client, StartBodies, outcome
  <2> QED
    BY <1>0, <2>1, HeadedOn DEF AllHeaders, Busy
<1>10. CASE PickPart
  <2>1. /\ Client /\ stage = "pick" /\ UNCHANGED <<ask, msgs, headers, result>>
    BY <1>10 DEF Client, PickPart, outcome
  <2>2. stage' = "send" /\ cmd'.type \in {"TEXT", "ATTACHMENT", "LOGOUT"}
    <3>1. Go(Cmd("LOGOUT")) \/ \E t \in {"TEXT", "ATTACHMENT"} : \E part : Go(Fetch(t, part))
      BY <1>10, Picked
    <3> QED
      BY <3>1 DEF Go, Cmd, Fetch
  <2> QED
    BY <1>0, <2>1, <2>2, HeadedOn DEF AllHeaders, Busy
<1>11. CASE BodyAnswered
  <2>1. /\ Client /\ stage = "decide" /\ cmd.type \in {"TEXT", "ATTACHMENT"}
        /\ stage' = "pick" /\ UNCHANGED <<ask, msgs, headers, result>>
    BY <1>11 DEF Client, BodyAnswered, Answered
  <2> QED
    BY <1>0, <2>1, HeadedOn DEF AllHeaders, Busy
<1>12. CASE LogoutAnswered
  <2>1. /\ Client /\ stage = "decide" /\ cmd.type = "LOGOUT" /\ UNCHANGED <<ask, msgs, headers>>
        /\ \/ stage' = "done" /\ result' = "true"
           \/ stage' = "out" /\ result' = result
    BY <1>12, TalkData DEF Client, LogoutAnswered, Answered, GiveUp
  <2>2. CASE stage' = "out" /\ result' = result
    BY <1>0, <2>1, <2>2 DEF Headed, AllHeaders, Busy
  <2>3. CASE stage' = "done" /\ result' = "true"
    <3>1. Len(headers) = Len(msgs)
      BY <2>1 DEF Headed, AllHeaders, Busy
    <3>2. \A i \in DOMAIN headers : msgs[i] # 0 => headers[i] # {}
      BY <1>0, <2>1 DEF Headed, Fetched
    <3> QED
      BY <2>1, <2>3, <3>1, <3>2 DEF Headed, Busy
  <2> QED
    BY <2>1, <2>2, <2>3
<1>13. CASE Out
  <2>1. stage' = "done" /\ result' = "false"
    BY <1>13 DEF Out
  <2> QED
    BY <2>1 DEF Headed, AllHeaders, Busy
<1>14. CASE Serve \/ Deliver \/ Disconnect \/ UNCHANGED vars
  BY <1>14, ServerData DEF Headed, AllHeaders, Busy, Fetched
<1> QED
  BY <1>1, <1>2, <1>3, <1>4, <1>5, <1>6, <1>7, <1>8, <1>9, <1>10, <1>11, <1>12, <1>13, <1>14,
     Steps DEF Inner

\* What readMail returns it returns at its end.
LEMMA Returned ==
    ASSUME result = "none" \/ stage = "done", [Next]_vars
    PROVE  result' = "none" \/ stage' = "done"
<1>1. ASSUME Client PROVE result = "none"
  BY <1>1, NotReturned
<1>2. CASE Serve \/ Deliver \/ Disconnect \/ UNCHANGED vars
  BY <1>2, ServerData
<1>3. CASE ConnectFails \/ LogoutAnswered \/ Out
  BY <1>1, <1>3 DEF Client, ConnectFails, LogoutAnswered, Out, GiveUp
<1>4. CASE \/ ConnectSucceeds \/ Send \/ NullStream \/ FirstByte \/ TimeOut \/ ReadLine
           \/ EndWait \/ LoginAnswered \/ ListAnswered
  <2>1. result' = result
    BY <1>4 DEF ConnectSucceeds, Send, NullStream, FirstByte, TimeOut, ReadLine, EndWait,
                LoginAnswered, ListAnswered, outcome
  <2> QED
    BY <1>1, <1>4, <2>1 DEF Client
<1>5. CASE \/ ExamineAnswered \/ SearchAnswered \/ HeaderAnswered \/ PartAnswered
           \/ SubAnswered \/ StartBodies \/ PickPart \/ BodyAnswered
  <2>1. result' = result
    BY <1>5 DEF ExamineAnswered, SearchAnswered, HeaderAnswered, PartAnswered, SubAnswered,
                StartBodies, PickPart, BodyAnswered, outcome
  <2> QED
    BY <1>1, <1>5, <2>1 DEF Client
<1> QED
  BY <1>2, <1>3, <1>4, <1>5, Steps DEF Inner

\* A slot that is not fetched was not asked for as a text.
LEMMA PickedAll ==
    ASSUME IInv, PickPart
    PROVE  /\ stage = "pick" /\ stage' = "send" /\ UNCHANGED <<ask, slots, text, status>>
           /\ \/ /\ cmd'.type = "LOGOUT"
                 /\ \A k \in DOMAIN slots : k > j => ~Text(slots[k])
              \/ /\ cmd'.type \in Bodies /\ j' \in Nat
                 /\ \A k \in DOMAIN slots : k > j /\ k <= j' => ~Text(slots[k])
                 /\ Text(slots[j' + 1]) => cmd'.type = "TEXT"
<1> DEFINE W == {k \in j .. Len(slots) - 1 :
                   TextWanted(slots[k + 1]) \/ FileWanted(slots[k + 1])}
<1>1. /\ stage = "pick"
      /\ IF W = {}
           THEN Go(Cmd("LOGOUT")) /\ sdOk' = FALSE /\ UNCHANGED j
           ELSE /\ j' = CHOOSE k \in W : \A l \in W : k <= l
                /\ Go(Fetch(IF FileWanted(slots[j' + 1]) THEN "ATTACHMENT" ELSE "TEXT",
                            slots[j' + 1].part))
                /\ UNCHANGED sdOk
      /\ UNCHANGED <<ask, slots, text, status>>
  BY DEF PickPart, scan, outcome
<1>2. j \in Nat /\ Len(slots) \in Nat /\ DOMAIN slots = 1 .. Len(slots)
  <2>1. slots \in Seq(SlotTypes) /\ j \in 0 .. Len(slots)
    BY DEF IInv, ScanTypes, BodyTypes
  <2> QED
    BY <2>1, LenProperties
<1>3. W \in SUBSET Nat
  BY <1>2
<1>4. ASSUME NEW k \in DOMAIN slots, k > j, Text(slots[k]) PROVE k - 1 \in W
  <2>1. TextWanted(slots[k])
    BY <1>4 DEF Text, Asked, TextWanted
  <2>2. k - 1 \in j .. Len(slots) - 1 /\ (k - 1) + 1 = k
    BY <1>2, <1>4
  <2> QED
    BY <2>1, <2>2
<1> HIDE DEF W
<1>5. CASE W = {}
  <2>1. Go(Cmd("LOGOUT"))
    BY <1>1, <1>5
  <2>2. stage' = "send" /\ cmd'.type = "LOGOUT"
    BY <2>1 DEF Go, Cmd
  <2>3. \A k \in DOMAIN slots : k > j => ~Text(slots[k])
    BY <1>4, <1>5
  <2> QED
    BY <1>1, <2>2, <2>3
<1>6. CASE W # {}
  <2>0. \E k \in W : \A l \in W : k <= l
    BY <1>3, <1>6, FirstExists
  <2>1. j' \in W /\ \A l \in W : j' <= l
    BY <1>1, <1>6, <2>0
  <2>2. Go(Fetch(IF FileWanted(slots[j' + 1]) THEN "ATTACHMENT" ELSE "TEXT", slots[j' + 1].part))
    BY <1>1, <1>6
  <2>3. stage' = "send" /\ cmd'.type \in Bodies
        /\ (cmd'.type # "TEXT" => FileWanted(slots[j' + 1]))
    BY <2>2 DEF Go, Fetch, Bodies
  <2>4. Text(slots[j' + 1]) => cmd'.type = "TEXT"
    BY <2>3 DEF Text, FileWanted
  <2>5. ASSUME NEW k \in DOMAIN slots, k > j, k <= j' PROVE ~Text(slots[k])
    <3> SUFFICES ASSUME Text(slots[k]) PROVE FALSE
      OBVIOUS
    <3>1. k - 1 \in W
      BY <1>4, <2>5
    <3>2. j' <= k - 1 /\ j' \in Nat
      BY <1>3, <2>1, <3>1
    <3> QED
      BY <1>2, <2>5, <3>2
  <2>6. j' \in Nat
    BY <1>3, <2>1
  <2> QED
    BY <1>1, <2>3, <2>4, <2>5, <2>6
<1> QED
  BY <1>5, <1>6

LEMMA TextsStep ==
    ASSUME IInv, Texts, [Next]_vars
    PROVE  Texts'
<1>0. ask' = ask /\ (result' = "none" \/ stage' = "done")
  BY AskSame, Returned DEF Texts
<1>a. ASSUME ~Fetching', ~Leaving', ~(Busy' /\ cmd'.type \in Bodies) PROVE Texts'
  BY <1>0, <1>a DEF Texts
<1>b. ASSUME ~Fetching', text' = <<>> PROVE Texts'
  <2>1. DOMAIN text' = {}
    BY <1>b, NoLines
  <2> QED
    BY <1>0, <1>b, <2>1 DEF Texts, Fetching
<1>c. ASSUME Client PROVE stage # "done" /\ result = "none"
  BY <1>c, NotReturned DEF Texts
\* Within a command.
<1>d. ASSUME UNCHANGED <<cmd, slots, j, result, status>>, Busy, Busy',
             DOMAIN text' = DOMAIN text,
             \A k \in DOMAIN text : text[k] # {} => text'[k] # {}
      PROVE  Texts'
  <2>1. stage \notin {"pick"} /\ stage' \notin {"pick"}
    BY <1>d DEF Busy
  <2>2. (Fetching' <=> Fetching) /\ (Leaving' <=> Leaving)
    BY <1>d, <2>1 DEF Fetching, Leaving
  <2>3. \A k : Text(slots[k])' <=> Text(slots[k])
    BY <1>0, <1>d DEF Text, Asked
  <2>4. \A k \in DOMAIN text : TextThere(k) => TextThere(k)'
    BY <1>d, <2>3 DEF TextThere
  <2>5. Text(slots[j + 1])' <=> Text(slots[j + 1])
    BY <1>0, <1>d DEF Text, Asked
  <2> QED
    BY <1>0, <1>d, <2>2, <2>4, <2>5 DEF Texts
<1>1. CASE Send
  <2>1. /\ stage = "send" /\ stage' = "first" /\ UNCHANGED <<cmd, slots, j, result, status, text>>
    BY <1>1, TalkData DEF Send, outcome
  <2> QED
    BY <1>d, <2>1 DEF Busy
<1>2. CASE FirstByte \/ TimeOut \/ EndWait
  <2>1. Busy /\ Busy' /\ UNCHANGED <<cmd, slots, j, result, status, text>>
    BY <1>2, TalkData DEF FirstByte, TimeOut, EndWait, outcome, Busy
  <2> QED
    BY <1>d, <2>1
<1>3. CASE ReadLine
  <2>1. /\ Client /\ stage = "lines" /\ stage' \in {"lines", "decide"}
        /\ UNCHANGED <<cmd, j, result, status>>
    BY <1>3 DEF Client, ReadLine, outcome
  <2>2. CASE cmd.type = "MIME"
    BY <1>a, <1>c, <2>1, <2>2 DEF Fetching, Leaving, Busy, Bodies
  <2>3. CASE cmd.type # "MIME"
    <3>1. slots' = slots
      BY <1>3, <2>3, SlotRead
    <3>2. DOMAIN text' = DOMAIN text /\ \A k \in DOMAIN text : text[k] # {} => text'[k] # {}
      BY <1>3, BodyRead
    <3> QED
      BY <1>d, <2>1, <3>1, <3>2 DEF Busy
  <2> QED
    BY <2>2, <2>3
<1>4. CASE NullStream \/ LoginAnswered \/ ListAnswered \/ ConnectSucceeds \/ ConnectFails
  <2>1. Client
    BY <1>4 DEF Client
  <2>2. \/ stage' \in {"out", "crashed", "connect", "done"} /\ result' # "true"
        \/ stage' = "send" /\ result' # "true" /\ cmd'.type \in {"LOGIN", "LIST", "EXAMINE"}
    <3>1. CASE NullStream \/ ConnectFails
      BY <1>c, <2>1, <3>1 DEF NullStream, ConnectFails, outcome
    <3>2. CASE LoginAnswered \/ ListAnswered
      BY <1>c, <2>1, <3>2 DEF LoginAnswered, ListAnswered, Go, GiveUp, Cmd
    <3>3. CASE ConnectSucceeds
      BY <1>c, <2>1, <3>3 DEF ConnectSucceeds, outcome, IInv, Progress
    <3> QED
      BY <1>4, <3>1, <3>2, <3>3
  <2> QED
    BY <1>a, <2>2 DEF Fetching, Leaving, Busy, Bodies
<1>5. CASE ExamineAnswered \/ SearchAnswered
  <2>1. /\ Client /\ stage = "decide" /\ cmd.type \in Early /\ UNCHANGED <<text, result>>
        /\ stage' \in {"out", "send"}
        /\ stage' = "send" => cmd'.type \in {"SEARCH", "HEADER", "LOGOUT"}
    BY <1>5 DEF Client, ExamineAnswered, SearchAnswered, Answered, Early, body, StartFetch, Go,
                GiveUp, Cmd, Fetch
  <2>2. text = <<>>
    BY <2>1 DEF IInv, Progress, Busy, Early, Bodies
  <2> QED
    BY <1>b, <2>1, <2>2 DEF Fetching, Busy, Bodies
<1>6. CASE HeaderAnswered
  <2>1. /\ Client /\ stage = "decide" /\ cmd.type = "HEADER" /\ UNCHANGED <<text, result>>
        /\ stage' \in {"out", "send"}
        /\ stage' = "send" => cmd'.type \in {"MIME", "HEADER", "LOGOUT"}
    BY <1>6 DEF Client, HeaderAnswered, Answered, body, Go, GiveUp, Cmd, Fetch
  <2>2. text = <<>>
    BY <2>1 DEF IInv, Progress, Busy, Bodies
  <2> QED
    BY <1>b, <2>1, <2>2 DEF Fetching, Busy, Bodies
<1>7. CASE PartAnswered \/ SubAnswered
  <2>1. Client /\ stage = "decide" /\ cmd.type = "MIME" /\ UNCHANGED result
    BY <1>7 DEF Client, PartAnswered, SubAnswered, Answered, outcome
  <2>2. stage' = "mount" \/ (stage' = "send" /\ cmd'.type = "MIME")
    <3>1. CASE PartAnswered
      <4>1. stage' = "mount" \/ Go(cmd) \/ \E part : Go(Fetch("MIME", part))
        BY <3>1 DEF PartAnswered
      <4> QED
        BY <2>1, <4>1 DEF Go, Fetch
    <3>2. CASE SubAnswered
      BY <3>2 DEF SubAnswered, NextSub, LeaveMulti, Go, Fetch
    <3> QED
      BY <1>7, <3>1, <3>2
  <2> QED
    BY <1>a, <1>c, <2>1, <2>2 DEF Fetching, Leaving, Busy, Bodies
<1>8. CASE StartBodies
  <2>1. /\ Client /\ stage' = "pick" /\ j' = 0 /\ text' = [k \in DOMAIN slots |-> {}]
        /\ UNCHANGED result
    BY <1>8 DEF Client, StartBodies, outcome
  <2>2. Fetching' /\ ~Busy'
    BY <2>1 DEF Fetching, Busy
  <2>3. slots \in Seq(SlotTypes)
    BY DEF IInv, ScanTypes
  <2>4. \A k \in DOMAIN text' : ~(k <= j')
    <3>1. DOMAIN text' = 1 .. Len(slots) /\ Len(slots) \in Nat
      BY <2>1, <2>3, LenProperties
    <3> QED
      BY <2>1, <3>1
  <2> QED
    BY <1>0, <2>2, <2>4 DEF Texts
<1>9. CASE PickPart
  <2>1. /\ stage = "pick" /\ stage' = "send" /\ UNCHANGED <<ask, slots, text, status>>
    BY <1>9, PickedAll
  <2>3. DOMAIN text = DOMAIN slots /\ j \in Nat /\ \A k \in DOMAIN slots : k \in Nat
    <3>1. Len(text) = Len(slots) /\ text \in Seq(SUBSET Commands) /\ slots \in Seq(SlotTypes)
          /\ j \in 0 .. Len(slots)
      BY <2>1 DEF IInv, Progress, BodyTypes, ScanTypes
    <3> QED
      BY <3>1, LenProperties
  <2>4. \A k : (Text(slots[k])' <=> Text(slots[k])) /\ (TextThere(k)' <=> TextThere(k))
    BY <2>1 DEF Text, Asked, TextThere
  <2>5. \A k \in DOMAIN text : k <= j => TextThere(k)
    BY <2>1 DEF Texts, Fetching
  <2>6. CASE /\ cmd'.type = "LOGOUT"
             /\ \A k \in DOMAIN slots : k > j => ~Text(slots[k])
    <3>1. \A k \in DOMAIN text : k > j => TextThere(k)
      BY <2>3, <2>6 DEF TextThere
    <3>2. \A k \in DOMAIN text : TextThere(k)
      BY <2>3, <2>5, <3>1
    <3>3. \A k \in DOMAIN text' : TextThere(k)'
      BY <2>1, <2>4, <3>2
    <3> QED
      BY <1>0, <2>6, <3>3 DEF Texts, Bodies
  <2>7. CASE /\ cmd'.type \in Bodies /\ j' \in Nat
             /\ \A k \in DOMAIN slots : k > j /\ k <= j' => ~Text(slots[k])
             /\ Text(slots[j' + 1]) => cmd'.type = "TEXT"
    <3>1. \A k \in DOMAIN text : k > j /\ k <= j' => TextThere(k)
      BY <2>3, <2>7 DEF TextThere
    <3>2. \A k \in DOMAIN text : k <= j' => TextThere(k)
      BY <2>3, <2>5, <2>7, <3>1
    <3>3. \A k \in DOMAIN text' : k <= j' => TextThere(k)'
      BY <2>1, <2>4, <3>2
    <3>4. Fetching'
      BY <2>1, <2>7 DEF Fetching, Busy
    <3>5. Text(slots[j + 1])' => cmd'.type = "TEXT"
      BY <2>1, <2>7 DEF Text, Asked
    <3> QED
      BY <1>0, <3>3, <3>4, <3>5 DEF Texts
  <2> QED
    BY <1>9, <2>6, <2>7, PickedAll
<1>10. CASE BodyAnswered
  <2>1. /\ stage = "decide" /\ cmd.type \in Bodies /\ stage' = "pick" /\ j' = j + 1
        /\ UNCHANGED <<slots, text>>
        /\ status' = IF wait.valid THEN status ELSE "response"
    BY <1>10 DEF BodyAnswered, Answered, Bodies, scan
  <2>2. Fetching /\ Busy /\ Fetching' /\ ~Busy'
    BY <2>1 DEF Fetching, Busy
  <2>3. \A k \in DOMAIN text : k <= j => TextThere(k)
    BY <2>1, <2>2 DEF Texts
  <2>4. j \in Nat /\ \A k \in DOMAIN text : k \in Nat
    <3>1. text \in Seq(SUBSET Commands) /\ j \in 0 .. Len(slots)
      BY DEF IInv, BodyTypes
    <3> QED
      BY <3>1, LenProperties
  <2>5. ASSUME wait.valid, Text(slots[j + 1]) PROVE text[j + 1] # {}
    <3>1. cmd.type = "TEXT"
      BY <2>1, <2>2, <2>5 DEF Texts
    <3>2. wait.complete /\ wait.payload # 0
      BY <2>1, <2>5, <3>1 DEF IInv, Filled
    <3>3. wait.payload \in Nat /\ wait.got \in Nat
      BY DEF IInv, CallTypes, Wait
    <3>4. Announced /\ wait.got # 0
      BY <2>1, <3>1, <3>2, <3>3 DEF IInv, Filled, Announced
    <3>5. wait.got > 0
      BY <3>3, <3>4
    <3> QED
      BY <2>1, <3>1, <3>4, <3>5 DEF IInv, Filled, Stored
  <2>6. \A k : Text(slots[k])' <=> Text(slots[k])
    BY <1>0, <2>1 DEF Text, Asked
  <2>7. \A k \in DOMAIN text : TextThere(k) => TextThere(k)'
    BY <2>1, <2>6 DEF TextThere
  <2>9. \A k \in DOMAIN text' : k <= j' => TextThere(k)'
    <3>1. \A k \in DOMAIN text : k <= j + 1 => k <= j \/ k = j + 1
      BY <2>4
    <3>2. ASSUME NEW k \in DOMAIN text, k <= j + 1 PROVE TextThere(k)'
      <4>1. CASE k <= j
        BY <2>3, <2>7, <4>1
      <4>2. CASE k = j + 1
        <5>1. TextThere(k)' <=> (Text(slots[k]) => text[k] # {} \/ status' = "response")
          BY <1>0, <2>1 DEF TextThere, Text, Asked
        <5> QED
          BY <2>1, <2>5, <4>2, <5>1
      <4> QED
        BY <3>1, <3>2, <4>1, <4>2
    <3> QED
      BY <2>1, <3>2
  <2> QED
    BY <1>0, <2>2, <2>9 DEF Texts
<1>11. CASE LogoutAnswered
  <2>1. /\ Client /\ stage = "decide" /\ cmd.type = "LOGOUT" /\ UNCHANGED <<slots, text>>
        /\ stage' \in {"done", "out"} /\ (stage' = "out" => result' = result)
        /\ (stage' = "done" => status' = status)
    BY <1>11, TalkData DEF Client, LogoutAnswered, Answered, GiveUp
  <2>2. CASE stage' = "out"
    BY <1>a, <1>c, <2>1, <2>2 DEF Fetching, Leaving, Busy
  <2>3. CASE stage' = "done"
    <3>1. Leaving /\ ~Fetching /\ ~Fetching' /\ ~Busy'
      BY <2>1, <2>3 DEF Leaving, Fetching, Busy, Bodies
    <3>2. \A k \in DOMAIN text : TextThere(k)
      BY <2>1, <3>1 DEF Texts
    <3>3. \A k \in DOMAIN text' : TextThere(k)'
      BY <1>0, <2>1, <2>3, <3>2 DEF TextThere, Text, Asked
    <3> QED
      BY <1>0, <3>1, <3>3 DEF Texts
  <2> QED
    BY <2>1, <2>2, <2>3
<1>12. CASE Out
  BY <1>12, <1>a DEF Out, Fetching, Leaving, Busy
<1>13. CASE Serve \/ Deliver \/ Disconnect \/ UNCHANGED vars
  <2>1. UNCHANGED <<ask, stage, cmd, slots, j, text, result, status>>
    BY <1>13, ServerData
  <2>3. (Fetching' <=> Fetching) /\ (Leaving' <=> Leaving) /\ (Busy' <=> Busy)
    BY <2>1 DEF Fetching, Leaving, Busy
  <2>4. \A k : (Text(slots[k])' <=> Text(slots[k])) /\ (TextThere(k)' <=> TextThere(k))
    BY <2>1 DEF Text, Asked, TextThere
  <2>5. Text(slots[j + 1])' <=> Text(slots[j + 1])
    BY <2>1 DEF Text, Asked
  <2> QED
    BY <1>0, <2>1, <2>3, <2>4, <2>5 DEF Texts
<1> QED
  BY <1>1, <1>2, <1>3, <1>4, <1>5, <1>6, <1>7, <1>8, <1>9, <1>10, <1>11, <1>12, <1>13,
     Steps DEF Inner

LEMMA InitTexts == Init => Texts
<1> SUFFICES ASSUME Init PROVE Texts
  OBVIOUS
<1>1. stage = "connect" /\ result = "none"
  BY DEF Init
<1>2. ~Busy /\ ~Fetching /\ ~Leaving
  BY <1>1 DEF Busy, Fetching, Leaving
<1> QED
  BY <1>1, <1>2 DEF Texts

LEMMA UndisturbingStep == IInv /\ IInv' /\ Undisturbing /\ [Next]_vars => Undisturbing'
<1> SUFFICES ASSUME IInv, IInv', Undisturbing, [Next]_vars, ~late', ~refused'
             PROVE  (Coming /\ Headed)'
  BY DEF Undisturbing
<1>1. ~late /\ Coming /\ Headed
  BY LateStays DEF Undisturbing
<1> QED
  BY <1>1, ComingStep, HeadedStep

LEMMA InitUndisturbing == Init => Undisturbing
<1> SUFFICES ASSUME Init PROVE Coming /\ Headed
  BY DEF Undisturbing
<1>1. stage = "connect" /\ headers = <<>> /\ result = "none"
  BY DEF Init
<1>2. DOMAIN headers = {}
  BY <1>1, NoLines
<1>3. ~Busy /\ ~AllHeaders
  BY <1>1 DEF Busy, AllHeaders
<1> QED
  BY <1>1, <1>2, <1>3 DEF Coming, Headed

LEMMA UndisturbedIsWhole == IInv /\ Undisturbing /\ Texts => NothingMissing
<1> SUFFICES ASSUME IInv, Undisturbing, Texts, result = "true"
             PROVE  /\ ~late /\ ~refused =>
                          /\ Len(headers) = Len(msgs)
                          /\ \A i \in DOMAIN msgs : msgs[i] # 0 => headers[i] # {}
                    /\ \A k \in DOMAIN text : TextThere(k)
  BY DEF NothingMissing, TextThere, Text
<1>1. stage = "done"
  BY DEF Texts
<1>2. ~Busy /\ AllHeaders /\ Leaving /\ ~Fetching
  BY <1>1 DEF Busy, AllHeaders, Leaving, Fetching
<1>3. ASSUME ~late, ~refused
      PROVE  /\ Len(headers) = Len(msgs)
             /\ \A i \in DOMAIN msgs : msgs[i] # 0 => headers[i] # {}
  <2>1. Len(headers) = Len(msgs)
    BY <1>2, <1>3 DEF Undisturbing, Headed
  <2>2. DOMAIN headers = DOMAIN msgs
    BY <2>1, LenProperties DEF IInv, BodyTypes
  <2>3. \A i \in DOMAIN msgs : msgs[i] # 0 => headers[i] # {}
    BY <1>1, <1>2, <1>3, <2>2 DEF Undisturbing, Headed, Fetched
  <2> QED
    BY <2>1, <2>3
<1>4. \A k \in DOMAIN text : TextThere(k)
  BY <1>2 DEF Texts
<1> QED
  BY <1>3, <1>4

-----------------------------------------------------------------------------
\* What the scan of the parts has found, when nothing was late or refused.

\* The leaves of the first p parts, and those that come before a part asked for.
Before(p) == FlattenSeq([q \in 1 .. p |-> LeavesOf(q)])
Passed(part) ==
    IF Len(part) = 1 THEN Before(part[1] - 1)
    ELSE Before(part[1] - 1) \o [s \in 1 .. part[2] - 1 |-> <<part[1], s>>]

\* A part that is asked for exists, or is the first that does not.
Within(part) ==
    /\ part[1] \in 1 .. Len(ask.mail) + 1
    /\ Len(part) = 2 => /\ part[1] \in Multis
                        /\ part[2] \in 1 .. Len(ask.mail[part[1]].subs) + 1

\* A part and what its slot says once its header was read.  The first part of
\* a multipart takes over its slot, and its type when its own header has none.
First(part) == Len(part) = 2 /\ part[2] = 1
Described(part) == [part |-> part,
                    type |-> IF First(part) THEN Over("multi", PartAt(part).type)
                                            ELSE PartAt(part).type,
                    disp |-> PartAt(part).disp]
Listed(leaves) ==
    /\ dataIndex = Len(leaves)
    /\ \A k \in 1 .. dataIndex : slots[k] = Described(leaves[k])
Attached == {k \in DOMAIN slots : slots[k].disp \in Attachment}

\* The slot behind the leaves that are listed: it describes the part that is
\* asked for, once that was read, and before that only the multipart it is the
\* first part of.
InSlot == stage \in {"lines", "decide"} /\ wait.payload > 0 /\ wait.got > 0
Open ==
    /\ First(cmd.part) => Len(slots) > dataIndex
    /\ Len(slots) > dataIndex =>
         /\ Len(slots) = dataIndex + 1 /\ Exists(cmd.part)
         /\ IF InSlot THEN slots[dataIndex + 1] = Described(cmd.part)
                      ELSE /\ First(cmd.part)
                           /\ slots[dataIndex + 1] = Described(<<cmd.part[1]>>)

\* A part without a type that is not in a multipart is asked for again and
\* again.
Stuck ==
    /\ Len(cmd.part) = 1 /\ Exists(cmd.part) /\ PartAt(cmd.part).type = ""
    /\ Len(slots) > dataIndex /\ slots[dataIndex + 1].type = ""

NotScanned == slots = <<>> /\ dataIndex = 0 /\ attCount = 0 /\ subID = 1
Scanning ==
    /\ Within(cmd.part)
    /\ Listed(Passed(cmd.part)) /\ Open
    /\ attCount = Cardinality(Attached)
    /\ IF Len(cmd.part) = 2 THEN subID = cmd.part[2]
       ELSE (\A q \in Multis : cmd.part[1] <= q) => subID = 1
    /\ stage \in {"lines", "decide"} /\ wait.payload > 0 => Exists(cmd.part)
Complete ==
    /\ Listed(AllLeaves) /\ Len(slots) = dataIndex
    /\ attCount = Cardinality(Attached)

\* Before the scan, during it and after it.  A session whose connection is
\* lost sends no other command.
BeforeScan == stage = "connect" \/ (Busy /\ cmd.type \in Early \cup {"HEADER"})
InScan == Busy /\ cmd.type = "MIME"
AfterScan == \/ stage \in {"mount", "pick"} \/ result = "true"
             \/ Busy /\ cmd.type \in Bodies \cup {"LOGOUT"}
Lost == conn = "down" /\ stage \in {"mount", "pick", "send"}

OneMulti == ask.uid /\ Cardinality(Multis) <= 1
Scanned ==
    OneMulti => /\ BeforeScan => NotScanned
                /\ InScan => Lost \/ Stuck \/ Scanning
                /\ AfterScan => Lost \/ Complete

-----------------------------------------------------------------------------
\* FlattenSeq: its recursive function exists, and one sequence more is put
\* behind the others.

Joined(ss, n) ==
    CHOOSE f : f = [i \in 1 .. n |-> IF i = 1 THEN ss[i] ELSE f[i - 1] \o ss[i]]
Joins(f, ss, n) ==
    f = [i \in 1 .. n |-> IF i = 1 THEN ss[i] ELSE f[i - 1] \o ss[i]]

LEMMA FlattenIs ==
    ASSUME NEW ss, Len(ss) # 0
    PROVE  FlattenSeq(ss) = Joined(ss, Len(ss))[Len(ss)]
BY DEF FlattenSeq, Joined

LEMMA JoinsAre ==
    ASSUME NEW f, NEW ss, NEW n \in Nat, Joins(f, ss, n)
    PROVE  /\ DOMAIN f = 1 .. n
           /\ \A i \in 1 .. n : f[i] = IF i = 1 THEN ss[i] ELSE f[i - 1] \o ss[i]
<1> DEFINE e(i) == IF i = 1 THEN ss[i] ELSE f[i - 1] \o ss[i]
<1>1. f = [i \in 1 .. n |-> e(i)]
  BY DEF Joins
<1> HIDE DEF e
<1>2. DOMAIN f = 1 .. n /\ \A i \in 1 .. n : f[i] = e(i)
  BY <1>1
<1> QED
  BY <1>2 DEF e

LEMMA JoinsExist ==
    ASSUME NEW ss, NEW n \in Nat
    PROVE  Joins(Joined(ss, n), ss, n)
<1> DEFINE S == {k \in Nat : \E f : Joins(f, ss, k)}
<1>1. 0 \in S
  <2>1. Joins([i \in 1 .. 0 |-> 0], ss, 0)
    BY DEF Joins
  <2> QED
    BY <2>1
<1>2. \A k \in Nat : k \in S => k + 1 \in S
  <2> SUFFICES ASSUME NEW k \in Nat, NEW f, Joins(f, ss, k) PROVE \E g : Joins(g, ss, k + 1)
    OBVIOUS
  <2> DEFINE v == IF k + 1 = 1 THEN ss[k + 1] ELSE f[k] \o ss[k + 1]
             g == [i \in 1 .. k + 1 |-> IF i = k + 1 THEN v ELSE f[i]]
  <2>1. \A i \in 1 .. k : f[i] = IF i = 1 THEN ss[i] ELSE f[i - 1] \o ss[i]
    BY JoinsAre
  <2> HIDE DEF v
  <2>2. g[k + 1] = v /\ \A i \in 1 .. k : g[i] = f[i]
    OBVIOUS
  <2>3. ASSUME NEW i \in 1 .. k + 1
        PROVE  (IF i = k + 1 THEN v ELSE f[i]) = IF i = 1 THEN ss[i] ELSE g[i - 1] \o ss[i]
    <3>1. CASE i = k + 1
      <4>1. k # 0 => k \in 1 .. k /\ (k + 1) - 1 = k
        OBVIOUS
      <4>2. CASE k = 0
        BY <3>1, <4>2 DEF v
      <4>3. CASE k # 0
        <5>1. g[i - 1] = f[k] /\ i # 1
          BY <2>2, <3>1, <4>1, <4>3
        <5> HIDE DEF g
        <5> QED
          BY <3>1, <4>3, <5>1 DEF v
      <4> QED
        BY <4>2, <4>3
    <3>2. CASE i # k + 1
      <4>1. i \in 1 .. k /\ (i # 1 => i - 1 \in 1 .. k)
        BY <3>2
      <4>2. i # 1 => g[i - 1] = f[i - 1]
        BY <2>2, <4>1
      <4> HIDE DEF g
      <4> QED
        BY <2>1, <3>2, <4>1, <4>2
    <3> QED
      BY <3>1, <3>2
  <2>4. Joins(g, ss, k + 1)
    BY <2>3 DEF Joins
  <2> QED
    BY <2>4
<1> HIDE DEF S
<1>3. n \in S
  BY <1>1, <1>2, SetInduction
<1>4. \E f : Joins(f, ss, n)
  BY <1>3 DEF S
<1> QED
  BY <1>4 DEF Joins, Joined

LEMMA JoinsAgree ==
    ASSUME NEW S, NEW ss \in Seq(Seq(S)), NEW tt, NEW f, NEW g, NEW m \in Nat,
           m <= Len(ss), \A i \in 1 .. Len(ss) : tt[i] = ss[i],
           Joins(f, ss, Len(ss)), Joins(g, tt, m)
    PROVE  \A i \in 1 .. m : f[i] = g[i] /\ f[i] \in Seq(S)
<1>1. Len(ss) \in Nat /\ \A i \in 1 .. Len(ss) : ss[i] \in Seq(S)
  BY LenProperties, ElementOfSeq
<1>2. /\ \A i \in 1 .. Len(ss) : f[i] = IF i = 1 THEN ss[i] ELSE f[i - 1] \o ss[i]
      /\ \A i \in 1 .. m : g[i] = IF i = 1 THEN tt[i] ELSE g[i - 1] \o tt[i]
  BY <1>1, JoinsAre
<1> DEFINE T == {k \in Nat : k \in 1 .. m => f[k] = g[k] /\ f[k] \in Seq(S)}
<1>3. 0 \in T
  OBVIOUS
<1>4. \A k \in Nat : k \in T => k + 1 \in T
  <2> SUFFICES ASSUME NEW k \in Nat, k \in 1 .. m => f[k] = g[k] /\ f[k] \in Seq(S),
                      k + 1 \in 1 .. m
               PROVE  f[k + 1] = g[k + 1] /\ f[k + 1] \in Seq(S)
    OBVIOUS
  <2>0. k + 1 \in 1 .. Len(ss)
    BY <1>1
  <2>1. k + 1 \in 1 .. Len(ss) /\ ss[k + 1] \in Seq(S) /\ tt[k + 1] = ss[k + 1]
    BY <1>1, <2>0
  <2>2. CASE k = 0
    BY <1>2, <2>1, <2>2
  <2>3. CASE k # 0
    <3>1. k \in 1 .. m /\ k + 1 # 1 /\ (k + 1) - 1 = k
      BY <2>3
    <3>2. f[k + 1] = f[k] \o ss[k + 1] /\ g[k + 1] = g[k] \o tt[k + 1]
      BY <1>2, <2>1, <3>1
    <3>3. f[k] \in Seq(S) /\ f[k] = g[k]
      BY <3>1
    <3>4. f[k] \o ss[k + 1] \in Seq(S)
      BY <2>1, <3>3, ConcatProperties
    <3> QED
      BY <2>1, <3>2, <3>3, <3>4
  <2> QED
    BY <2>2, <2>3
<1> HIDE DEF T
<1>5. Nat \subseteq T
  BY <1>3, <1>4, SetInduction
<1> QED
  BY <1>5 DEF T

LEMMA FlattenMore ==
    ASSUME NEW S, NEW ss \in Seq(Seq(S)), NEW s \in Seq(S)
    PROVE  /\ FlattenSeq(Append(ss, s)) = FlattenSeq(ss) \o s
           /\ FlattenSeq(ss) \in Seq(S)
<1> DEFINE n == Len(ss)
           tt == Append(ss, s)
           f == Joined(ss, n)
           g == Joined(tt, n + 1)
<1>1. /\ n \in Nat /\ Len(tt) = n + 1 /\ tt[n + 1] = s
      /\ \A i \in 1 .. n : tt[i] = ss[i]
  BY OneMore
<1>2. n + 1 \in Nat /\ n + 1 # 0
  BY <1>1
<1> HIDE DEF tt
<1>3. Joins(f, ss, n) /\ Joins(g, tt, n + 1)
  BY <1>1, <1>2, JoinsExist
<1>4. FlattenSeq(tt) = g[n + 1]
  BY <1>1, <1>2, FlattenIs
<1> HIDE DEF g, f
<1>7. \A i \in 1 .. n + 1 : g[i] = IF i = 1 THEN tt[i] ELSE g[i - 1] \o tt[i]
  BY <1>2, <1>3, JoinsAre
<1>5. CASE n = 0
  <2>1. ss = <<>> /\ FlattenSeq(ss) = ss
    BY <1>5, EmptySeq DEF FlattenSeq
  <2>2. g[n + 1] = s
    BY <1>1, <1>5, <1>7
  <2>3. <<>> \o s = s
    BY EmptySeq, ConcatEmptySeq
  <2>4. FlattenSeq(tt) = s /\ FlattenSeq(ss) = <<>>
    BY <1>4, <2>1, <2>2
  <2>5. <<>> \in Seq(S)
    BY EmptySeq
  <2> QED
    BY <2>3, <2>4, <2>5 DEF tt
<1>6. CASE n # 0
  <2>1. FlattenSeq(ss) = f[n] /\ n \in 1 .. n
    BY <1>1, <1>6, FlattenIs DEF f
  <2>2. f[n] = g[n] /\ f[n] \in Seq(S)
    <3> DEFINE h == [i \in 1 .. n |-> g[i]]
    <3>1. Joins(h, tt, n)
      <4>1. ASSUME NEW i \in 1 .. n
            PROVE  g[i] = IF i = 1 THEN tt[i] ELSE h[i - 1] \o tt[i]
        <5>1. i \in 1 .. n + 1 /\ (i # 1 => i - 1 \in 1 .. n)
          BY <1>1
        <5>2. i # 1 => h[i - 1] = g[i - 1]
          BY <5>1
        <5> HIDE DEF h
        <5> QED
          BY <1>7, <5>1, <5>2
      <4> QED
        BY <4>1 DEF Joins
    <3> HIDE DEF h
    <3>2. Joins(f, ss, Len(ss)) /\ \A i \in 1 .. Len(ss) : tt[i] = ss[i]
      BY <1>1, <1>3
    <3>5. n \in Nat /\ n <= Len(ss)
      BY <1>1
    <3> HIDE DEF n
    <3>3. \A i \in 1 .. n : f[i] = h[i] /\ f[i] \in Seq(S)
      BY <3>1, <3>2, <3>5, JoinsAgree
    <3>4. h[n] = g[n]
      BY <2>1 DEF h
    <3> QED
      BY <2>1, <3>3, <3>4
  <2>3. g[n + 1] = g[n] \o s
    <3>1. n + 1 \in 1 .. n + 1 /\ n + 1 # 1 /\ (n + 1) - 1 = n
      BY <1>1, <1>6
    <3> QED
      BY <1>1, <1>7, <3>1
  <2> QED
    BY <1>4, <2>1, <2>2, <2>3 DEF tt
<1> QED
  BY <1>5, <1>6

LEMMA PathIs ==
    ASSUME NEW part \in Seq(Nat)
    PROVE  /\ Len(part) = 1 => part = <<part[1]>> /\ part[1] \in Nat
           /\ Len(part) = 2 => part = <<part[1], part[2]>> /\ part[1] \in Nat /\ part[2] \in Nat
<1>1. Len(part) \in Nat /\ \A k \in 1 .. Len(part) : part[k] \in Nat
  BY LenProperties, ElementOfSeq
<1>2. ASSUME Len(part) = 1 PROVE part = <<part[1]>> /\ part[1] \in Nat
  <2>1. part[1] \in Nat
    BY <1>1, <1>2
  <2>2. <<part[1]>> \in Seq(Nat) /\ Len(<<part[1]>>) = 1 /\ <<part[1]>>[1] = part[1]
    BY <2>1
  <2> QED
    BY <1>2, <2>1, <2>2, SeqEqual
<1>3. ASSUME Len(part) = 2
      PROVE  part = <<part[1], part[2]>> /\ part[1] \in Nat /\ part[2] \in Nat
  <2>1. part[1] \in Nat /\ part[2] \in Nat
    BY <1>1, <1>3
  <2> DEFINE q == <<part[1], part[2]>>
  <2>2. q \in Seq(Nat) /\ Len(q) = 2 /\ q[1] = part[1] /\ q[2] = part[2]
    BY <2>1
  <2> HIDE DEF q
  <2>3. \A k \in 1 .. 2 : q[k] = part[k]
    BY <2>2
  <2>4. q = part
    BY <1>3, <2>2, <2>3, SeqEqual
  <2> QED
    BY <2>1, <2>4 DEF q
<1> QED
  BY <1>2, <1>3

-----------------------------------------------------------------------------
\* The leaves of a mail, in their order.

LEMMA MailIs ==
    ASSUME ask \in Asks
    PROVE  /\ ask.mail \in Seq(Parts) /\ Len(ask.mail) \in Nat
           /\ DOMAIN ask.mail = 1 .. Len(ask.mail)
           /\ Multis \subseteq 1 .. Len(ask.mail)
           /\ \A p \in 1 .. Len(ask.mail) :
                 /\ ask.mail[p].type \in PartTypes
                 /\ ask.mail[p].subs \in Seq(Leaves)
                 /\ Len(ask.mail[p].subs) \in Nat
                 /\ DOMAIN ask.mail[p].subs = 1 .. Len(ask.mail[p].subs)
                 /\ \A s \in 1 .. Len(ask.mail[p].subs) : ask.mail[p].subs[s] \in Leaves
                 /\ p \in Multis => Len(ask.mail[p].subs) # 0
<1>1. ask.mail \in Seq(Parts)
  BY AsksAssumption
<1>2. Len(ask.mail) \in Nat /\ DOMAIN ask.mail = 1 .. Len(ask.mail)
  BY <1>1, LenProperties
<1>3. ASSUME NEW p \in 1 .. Len(ask.mail)
      PROVE  /\ ask.mail[p].type \in PartTypes
             /\ ask.mail[p].subs \in Seq(Leaves)
             /\ Len(ask.mail[p].subs) \in Nat
             /\ DOMAIN ask.mail[p].subs = 1 .. Len(ask.mail[p].subs)
             /\ \A s \in 1 .. Len(ask.mail[p].subs) : ask.mail[p].subs[s] \in Leaves
             /\ p \in Multis => Len(ask.mail[p].subs) # 0
  <2>1. ask.mail[p] \in Parts
    BY <1>1, ElementOfSeq
  <2>2. /\ ask.mail[p].type \in PartTypes
        /\ ask.mail[p].subs \in Seq(Leaves)
        /\ ask.mail[p].type = "multi" => ask.mail[p].subs # <<>>
    BY <2>1 DEF Parts, PartTypes
  <2> QED
    BY <2>2, LenProperties, ElementOfSeq, EmptySeq DEF Multis
<1> QED
  BY <1>1, <1>2, <1>3 DEF Multis

LEMMA MailLength ==
    ASSUME ask \in Asks
    PROVE  /\ Len(ask.mail) \in Nat /\ DOMAIN ask.mail = 1 .. Len(ask.mail)
           /\ Multis \subseteq 1 .. Len(ask.mail)
BY MailIs

LEMMA MultiIs ==
    ASSUME ask \in Asks, NEW p \in Multis
    PROVE  ask.mail[p].type = "multi" /\ ask.mail[p].disp = ""
<1>1. ask.mail \in Seq(Parts) /\ p \in DOMAIN ask.mail /\ ask.mail[p].type = "multi"
  BY AsksAssumption DEF Multis
<1>2. ask.mail[p] \in Parts
  BY <1>1, ElementOfSeq, LenProperties
<1> QED
  BY <1>1, <1>2 DEF Parts

Paths == Seq(Nat)

LEMMA LeavesAre ==
    ASSUME ask \in Asks, NEW p \in 1 .. Len(ask.mail)
    PROVE  /\ LeavesOf(p) \in Seq(Paths)
           /\ p \notin Multis => LeavesOf(p) = <<<<p>>>>
           /\ p \in Multis =>
                LeavesOf(p) = [s \in 1 .. Len(ask.mail[p].subs) |-> <<p, s>>]
<1>1. /\ DOMAIN ask.mail = 1 .. Len(ask.mail) /\ Len(ask.mail) \in Nat
      /\ Len(ask.mail[p].subs) \in Nat
      /\ DOMAIN ask.mail[p].subs = 1 .. Len(ask.mail[p].subs)
  BY MailIs
<1>2. p \in Nat /\ <<p>> \in Paths /\ \A s \in Nat : <<p, s>> \in Paths
  BY <1>1 DEF Paths
<1>3. CASE p \notin Multis
  <2>1. LeavesOf(p) = <<<<p>>>>
    BY <1>1, <1>3 DEF LeavesOf, Multis
  <2>2. \A S : \A x \in S : <<x>> \in Seq(S)
    OBVIOUS
  <2> QED
    BY <1>2, <1>3, <2>1, <2>2
<1>4. CASE p \in Multis
  <2> DEFINE n == Len(ask.mail[p].subs)
             f == [s \in 1 .. n |-> <<p, s>>]
  <2>1. LeavesOf(p) = f
    BY <1>1, <1>4 DEF LeavesOf, Multis
  <2>2. n \in Nat
    BY <1>1
  <2> HIDE DEF n
  <2>3. f \in [1 .. n -> Paths]
    BY <1>2, <2>2
  <2> HIDE DEF f
  <2>4. f \in Seq(Paths)
    BY <2>2, <2>3, Filling
  <2> QED
    BY <1>4, <2>1, <2>4 DEF f, n
<1> QED
  BY <1>3, <1>4

LEMMA BeforeMore ==
    ASSUME ask \in Asks
    PROVE  /\ Before(0) = <<>>
           /\ Before(Len(ask.mail)) = AllLeaves
           /\ \A p \in 0 .. Len(ask.mail) : Before(p) \in Seq(Paths)
           /\ \A p \in 1 .. Len(ask.mail) : Before(p) = Before(p - 1) \o LeavesOf(p)
<1> DEFINE N == Len(ask.mail)
           F(p) == [q \in 1 .. p |-> LeavesOf(q)]
<1>1. N \in Nat /\ DOMAIN ask.mail = 1 .. N
  BY MailIs
<1>2. \A q \in 1 .. N : LeavesOf(q) \in Seq(Paths)
  BY LeavesAre
<1> HIDE DEF N
<1>3. \A p \in 0 .. N : F(p) \in Seq(Seq(Paths)) /\ Len(F(p)) = p
  <2> SUFFICES ASSUME NEW p \in 0 .. N PROVE F(p) \in Seq(Seq(Paths)) /\ Len(F(p)) = p
    OBVIOUS
  <2>1. p \in Nat /\ F(p) \in [1 .. p -> Seq(Paths)]
    BY <1>1, <1>2
  <2> HIDE DEF F
  <2> QED
    BY <2>1, Filling
<1>4. \A p \in 1 .. N : F(p) = Append(F(p - 1), LeavesOf(p))
  <2> SUFFICES ASSUME NEW p \in 1 .. N PROVE F(p) = Append(F(p - 1), LeavesOf(p))
    OBVIOUS
  <2> DEFINE a == F(p - 1)
             b == F(p)
             c == Append(a, LeavesOf(p))
  <2>1. p - 1 \in 0 .. N /\ p \in 0 .. N /\ p - 1 \in Nat /\ (p - 1) + 1 = p /\ p \in Nat
    BY <1>1
  <2>2. /\ a \in Seq(Seq(Paths)) /\ Len(a) = p - 1
        /\ b \in Seq(Seq(Paths)) /\ Len(b) = p
    BY <1>3, <2>1
  <2>3. /\ \A q \in 1 .. p - 1 : a[q] = LeavesOf(q)
        /\ \A q \in 1 .. p : b[q] = LeavesOf(q)
    OBVIOUS
  <2> HIDE DEF a, b
  <2>4. /\ c \in Seq(Seq(Paths)) /\ Len(c) = p /\ c[p] = LeavesOf(p)
        /\ \A q \in 1 .. p - 1 : c[q] = a[q]
    BY <1>2, <2>1, <2>2, AppendProperties
  <2> HIDE DEF c
  <2>5. \A q \in 1 .. p : q = p \/ q \in 1 .. p - 1
    BY <2>1
  <2>6. \A q \in 1 .. p : b[q] = c[q]
    BY <2>3, <2>4, <2>5
  <2>7. b = c
    BY <2>2, <2>4, <2>6, SeqEqual
  <2> QED
    BY <2>7 DEF b, c, a
<1>5. \A p : Before(p) = FlattenSeq(F(p))
  BY DEF Before
<1>6. FlattenSeq(F(N)) = AllLeaves
  BY <1>1 DEF AllLeaves
<1>7. FlattenSeq(F(0)) = <<>>
  <2>1. F(0) \in Seq(Seq(Paths)) /\ Len(F(0)) = 0
    BY <1>1, <1>3
  <2> HIDE DEF F
  <2>2. F(0) = <<>>
    BY <2>1, EmptySeq
  <2> QED
    BY <2>1, <2>2 DEF FlattenSeq
<1> HIDE DEF F
<1>8. \A p \in 0 .. N : FlattenSeq(F(p)) \in Seq(Paths)
  <2>1. <<>> \in Seq(Paths)
    BY EmptySeq
  <2> QED
    BY <1>3, <2>1, FlattenMore
<1>9. ASSUME NEW p \in 1 .. N PROVE Before(p) = Before(p - 1) \o LeavesOf(p)
  <2>1. p - 1 \in 0 .. N
    BY <1>1
  <2>2. F(p - 1) \in Seq(Seq(Paths)) /\ LeavesOf(p) \in Seq(Paths)
    BY <1>2, <1>3, <2>1
  <2>3. FlattenSeq(Append(F(p - 1), LeavesOf(p))) = FlattenSeq(F(p - 1)) \o LeavesOf(p)
    BY <2>2, FlattenMore
  <2> QED
    BY <1>4, <1>5, <2>3
<1> QED
  BY <1>5, <1>6, <1>7, <1>8, <1>9 DEF N

\* The leaves before a part, and those before the one asked for after it.
LEMMA PassedFirst ==
    ASSUME ask \in Asks
    PROVE  /\ Passed(<<1>>) = <<>>
           /\ Passed(<<Len(ask.mail) + 1>>) = AllLeaves
<1>1. Len(ask.mail) \in Nat
  BY MailIs
<1>2. \A p \in Nat : Len(<<p>>) = 1 /\ <<p>>[1] = p
  OBVIOUS
<1>3. \A p \in Nat : Passed(<<p>>) = Before(p - 1)
  BY <1>2 DEF Passed
<1>4. (Len(ask.mail) + 1) - 1 = Len(ask.mail) /\ 1 - 1 = 0 /\ Len(ask.mail) + 1 \in Nat
  BY <1>1
<1> QED
  BY <1>3, <1>4, BeforeMore

LEMMA PassedIs ==
    ASSUME NEW p \in Nat, NEW s \in Nat
    PROVE  /\ Passed(<<p>>) = Before(p - 1)
           /\ Passed(<<p, s>>) = Before(p - 1) \o [k \in 1 .. s - 1 |-> <<p, k>>]
<1>1. /\ Len(<<p>>) = 1 /\ <<p>>[1] = p
      /\ Len(<<p, s>>) = 2 /\ <<p, s>>[1] = p /\ <<p, s>>[2] = s
  OBVIOUS
<1>2. Passed(<<p>>) = Before(p - 1)
  BY <1>1 DEF Passed
<1> DEFINE q == <<p, s>>
<1>3. Len(q) = 2 /\ q[1] = p /\ q[2] = s
  BY <1>1
<1> HIDE DEF q
<1>4. Passed(q) = Before(q[1] - 1) \o [k \in 1 .. q[2] - 1 |-> <<q[1], k>>]
  BY <1>3 DEF Passed
<1>5. Passed(q) = Before(p - 1) \o [k \in 1 .. s - 1 |-> <<p, k>>]
  BY <1>3, <1>4
<1> QED
  BY <1>2, <1>5 DEF q

LEMMA SubsMore ==
    ASSUME NEW p \in Nat, NEW s \in Nat
    PROVE  /\ [k \in 1 .. s |-> <<p, k>>] \in Seq(Paths)
           /\ [k \in 1 .. s + 1 |-> <<p, k>>] = Append([k \in 1 .. s |-> <<p, k>>], <<p, s + 1>>)
<1> DEFINE F(n) == [k \in 1 .. n |-> <<p, k>>]
<1>1. \A n \in Nat : F(n) \in Seq(Paths) /\ Len(F(n)) = n
  <2> SUFFICES ASSUME NEW n \in Nat PROVE F(n) \in Seq(Paths) /\ Len(F(n)) = n
    OBVIOUS
  <2>1. \A k \in 1 .. n : <<p, k>> \in Paths
    BY DEF Paths
  <2>2. F(n) \in [1 .. n -> Paths]
    BY <2>1
  <2> HIDE DEF F
  <2> QED
    BY <2>2, Filling
<1> DEFINE a == F(s)
           b == F(s + 1)
           c == Append(a, <<p, s + 1>>)
<1>2. <<p, s + 1>> \in Paths /\ s + 1 \in Nat
  BY DEF Paths
<1>3. a \in Seq(Paths) /\ Len(a) = s /\ b \in Seq(Paths) /\ Len(b) = s + 1
  BY <1>1, <1>2
<1>4. (\A k \in 1 .. s : a[k] = <<p, k>>) /\ (\A k \in 1 .. s + 1 : b[k] = <<p, k>>)
  OBVIOUS
<1> HIDE DEF a, b
<1>5. /\ c \in Seq(Paths) /\ Len(c) = s + 1 /\ c[s + 1] = <<p, s + 1>>
      /\ \A k \in 1 .. s : c[k] = a[k]
  BY <1>2, <1>3, AppendProperties
<1> HIDE DEF c
<1>6. \A k \in 1 .. s + 1 : k = s + 1 \/ k \in 1 .. s
  OBVIOUS
<1>7. \A k \in 1 .. s + 1 : b[k] = c[k]
  BY <1>4, <1>5, <1>6
<1>8. b = c
  BY <1>3, <1>5, <1>7, SeqEqual
<1> QED
  BY <1>3, <1>8 DEF a, b, c

LEMMA PassedPart ==
    ASSUME ask \in Asks, NEW p \in 1 .. Len(ask.mail)
    PROVE  /\ Passed(<<p>>) \in Seq(Paths) /\ <<p>> \in Paths
           /\ p \notin Multis => Passed(<<p + 1>>) = Append(Passed(<<p>>), <<p>>)
           /\ Passed(<<p, 1>>) = Passed(<<p>>)
<1>1. p \in Nat /\ p - 1 \in 0 .. Len(ask.mail) /\ p + 1 \in Nat /\ (p + 1) - 1 = p
  BY MailLength
<1>2. Before(p - 1) \in Seq(Paths) /\ Before(p) = Before(p - 1) \o LeavesOf(p)
  BY <1>1, BeforeMore
<1>3. Passed(<<p>>) = Before(p - 1) /\ Passed(<<p + 1>>) = Before(p)
  BY <1>1, PassedIs
<1>4. <<p>> \in Paths
  BY <1>1 DEF Paths
<1>5. p \notin Multis => Before(p) = Append(Before(p - 1), <<p>>)
  <2>1. Append(Before(p - 1), <<p>>) = Before(p - 1) \o <<<<p>>>>
    BY <1>2, <1>4, AppendIsConcat
  <2>2. p \notin Multis => LeavesOf(p) = <<<<p>>>>
    BY LeavesAre
  <2> QED
    BY <1>2, <2>1, <2>2
<1>6. Passed(<<p, 1>>) = Before(p - 1)
  <2>1. Passed(<<p, 1>>) = Before(p - 1) \o [k \in 1 .. 1 - 1 |-> <<p, k>>]
    BY <1>1, PassedIs
  <2>2. [k \in 1 .. 1 - 1 |-> <<p, k>>] = <<>>
    OBVIOUS
  <2> QED
    BY <1>2, <2>1, <2>2, ConcatEmptySeq
<1> QED
  BY <1>2, <1>3, <1>4, <1>5, <1>6

LEMMA PassedSub ==
    ASSUME ask \in Asks, NEW p \in Multis, NEW s \in Nat \ {0}
    PROVE  /\ Passed(<<p, s>>) \in Seq(Paths) /\ <<p, s>> \in Paths
           /\ Passed(<<p, s + 1>>) = Append(Passed(<<p, s>>), <<p, s>>)
           /\ s = Len(ask.mail[p].subs) + 1 => Passed(<<p, s>>) = Passed(<<p + 1>>)
<1>1. /\ p \in 1 .. Len(ask.mail) /\ Len(ask.mail) \in Nat
      /\ Len(ask.mail[p].subs) \in Nat
  BY MailIs
<1>2. p \in Nat /\ p - 1 \in 0 .. Len(ask.mail) /\ p + 1 \in Nat /\ (p + 1) - 1 = p
  BY <1>1
<1>3. Before(p - 1) \in Seq(Paths) /\ Before(p) = Before(p - 1) \o LeavesOf(p)
  BY <1>1, <1>2, BeforeMore
<1> DEFINE F(n) == [k \in 1 .. n |-> <<p, k>>]
<1>4. s - 1 \in Nat /\ (s - 1) + 1 = s /\ (s + 1) - 1 = s /\ s \in Nat /\ s + 1 \in Nat
  OBVIOUS
<1>5. /\ F(s - 1) \in Seq(Paths)
      /\ F((s - 1) + 1) = Append(F(s - 1), <<p, (s - 1) + 1>>)
  BY <1>2, <1>4, SubsMore
<1>6. F(s) = Append(F(s - 1), <<p, s>>)
  BY <1>4, <1>5
<1>7. Passed(<<p, s>>) = Before(p - 1) \o F(s - 1)
  BY <1>2, <1>4, PassedIs
<1>8. Passed(<<p, s + 1>>) = Before(p - 1) \o F(s)
  <2>1. Passed(<<p, s + 1>>) = Before(p - 1) \o F((s + 1) - 1)
    BY <1>2, <1>4, PassedIs
  <2> QED
    BY <1>4, <2>1
<1>9. s = Len(ask.mail[p].subs) + 1 => F(s - 1) = LeavesOf(p)
  <2>1. LeavesOf(p) = F(Len(ask.mail[p].subs))
    BY <1>1, LeavesAre
  <2> QED
    BY <1>1, <1>4, <2>1
<1>10. <<p, s>> \in Paths /\ <<<<p, s>>>> \in Seq(Paths)
  <2>1. <<p, s>> \in Paths
    BY <1>2 DEF Paths
  <2> QED
    BY <2>1
<1> HIDE DEF F
<1>11. Passed(<<p, s>>) \in Seq(Paths)
  BY <1>3, <1>5, <1>7, ConcatProperties
<1>12. Passed(<<p, s + 1>>) = Append(Passed(<<p, s>>), <<p, s>>)
  <2>1. F(s) = F(s - 1) \o <<<<p, s>>>>
    BY <1>5, <1>6, <1>10, AppendIsConcat
  <2>2. (Before(p - 1) \o F(s - 1)) \o <<<<p, s>>>> = Before(p - 1) \o F(s)
    <3>1. PICK a \in Seq(Paths) : a = Before(p - 1)
      BY <1>3
    <3>2. PICK b \in Seq(Paths) : b = F(s - 1)
      BY <1>5
    <3>3. PICK c \in Seq(Paths) : c = <<<<p, s>>>>
      BY <1>10
    <3>4. (a \o b) \o c = a \o (b \o c)
      BY ConcatAssociative
    <3> QED
      BY <2>1, <3>1, <3>2, <3>3, <3>4
  <2>3. Append(Passed(<<p, s>>), <<p, s>>) = Passed(<<p, s>>) \o <<<<p, s>>>>
    BY <1>10, <1>11, AppendIsConcat
  <2> QED
    BY <1>7, <1>8, <2>2, <2>3
<1>13. Passed(<<p + 1>>) = Before(p)
  BY <1>2, PassedIs
<1> QED
  BY <1>3, <1>7, <1>9, <1>10, <1>11, <1>12, <1>13

\* One part more is listed.
LEMMA ListedMore ==
    ASSUME NEW l \in Seq(Paths), NEW part \in Paths, Listed(l), dataIndex \in Nat,
           dataIndex' = dataIndex + 1, slots' = slots, ask' = ask,
           slots[dataIndex + 1] = Described(part)
    PROVE  dataIndex' = Len(Append(l, part))
           /\ \A k \in 1 .. dataIndex' : slots'[k] = Described(Append(l, part)[k])
<1>1. /\ Len(Append(l, part)) = Len(l) + 1 /\ Append(l, part)[Len(l) + 1] = part
      /\ \A k \in 1 .. Len(l) : Append(l, part)[k] = l[k]
  BY AppendProperties
<1>2. Len(l) = dataIndex
  BY DEF Listed
<1>3. ASSUME NEW k \in 1 .. dataIndex + 1 PROVE slots[k] = Described(Append(l, part)[k])
  <2>1. CASE k = dataIndex + 1
    BY <1>1, <1>2, <2>1
  <2>2. CASE k # dataIndex + 1
    <3>1. k \in 1 .. dataIndex
      BY <2>2
    <3>2. slots[k] = Described(l[k])
      BY <3>1 DEF Listed
    <3> QED
      BY <1>1, <1>2, <3>1, <3>2
  <2> QED
    BY <2>1, <2>2
<1> QED
  BY <1>1, <1>2, <1>3

-----------------------------------------------------------------------------
\* The scan, step by step.

LEMMA AskFixed ==
    ASSUME ask' = ask, NEW part
    PROVE  /\ Passed(part)' = Passed(part) /\ Described(part)' = Described(part)
           /\ AllLeaves' = AllLeaves /\ Multis' = Multis
           /\ Exists(part)' <=> Exists(part)
           /\ Within(part)' <=> Within(part)
           /\ PartAt(part)' = PartAt(part)
<1>1. ASSUME NEW p PROVE LeavesOf(p)' = LeavesOf(p)
  BY DEF LeavesOf
<1>2. ASSUME NEW p PROVE Before(p)' = Before(p)
  BY <1>1 DEF Before
<1>3. Passed(part)' = Passed(part)
  BY <1>2 DEF Passed
<1>4. AllLeaves' = AllLeaves
  BY <1>1 DEF AllLeaves
<1>5. Multis' = Multis
  BY DEF Multis
<1>6. PartAt(part)' = PartAt(part) /\ (Exists(part)' <=> Exists(part))
  BY DEF PartAt, Exists
<1>7. Described(part)' = Described(part)
  BY <1>6 DEF Described, First, Over
<1>8. Within(part)' <=> Within(part)
  BY <1>5 DEF Within
<1> QED
  BY <1>3, <1>4, <1>5, <1>6, <1>7, <1>8

LEMMA PassedAt ==
    ASSUME NEW c, cmd' = c
    PROVE  Passed(cmd.part)' = Passed(c.part)'
BY DEF Passed, Before

LEMMA ListedAt ==
    ASSUME ask' = ask, NEW l, dataIndex' = Len(l),
           \A k \in 1 .. dataIndex' : slots'[k] = Described(l[k])
    PROVE  Listed(l)'
<1>1. \A k \in 1 .. dataIndex' : slots'[k] = Described(l[k])'
  BY AskFixed
<1> QED
  BY <1>1 DEF Listed

LEMMA ListedSame ==
    ASSUME ask' = ask, NEW l, Listed(l), slots' = slots, dataIndex' = dataIndex
    PROVE  Listed(l)'
BY ListedAt DEF Listed

\* The leaves that are listed after a step, by another name.
LEMMA ListedIs ==
    ASSUME NEW part, NEW l, Passed(part)' = l, Listed(l)'
    PROVE  Listed(Passed(part))'
<1>1. dataIndex' = Len(l) /\ \A k \in 1 .. dataIndex' : slots'[k] = Described(l[k])'
  BY DEF Listed
<1> QED
  BY <1>1 DEF Listed, Described, PartAt, First, Over

LEMMA ListedAllIs ==
    ASSUME NEW l, AllLeaves' = l, Listed(l)'
    PROVE  Listed(AllLeaves)'
<1>1. dataIndex' = Len(l) /\ \A k \in 1 .. dataIndex' : slots'[k] = Described(l[k])'
  BY DEF Listed
<1> QED
  BY <1>1 DEF Listed, Described, PartAt, First, Over

\* What the scan has to show of the next command.
LEMMA ScanningAt ==
    ASSUME ask' = ask, NEW c, cmd' = c, Within(c.part), Listed(Passed(c.part))',
           attCount' = Cardinality(Attached'),
           Len(slots') > dataIndex' =>
             /\ Len(slots') = dataIndex' + 1 /\ Exists(c.part)
             /\ InSlot' => slots'[dataIndex' + 1] = Described(c.part)
             /\ ~InSlot' => /\ First(c.part)
                            /\ slots'[dataIndex' + 1] = Described(<<c.part[1]>>),
           First(c.part) => Len(slots') > dataIndex',
           Len(c.part) = 2 => subID' = c.part[2],
           Len(c.part) # 2 => ((\A q \in Multis : c.part[1] <= q) => subID' = 1),
           stage' \in {"lines", "decide"} /\ wait'.payload > 0 => Exists(c.part)
    PROVE  Scanning'
<1>1. Passed(cmd.part)' = Passed(c.part)'
  BY PassedAt
<1>2. Listed(Passed(cmd.part))'
  BY <1>1 DEF Listed, Described, PartAt, First, Over
<1>3. Exists(cmd.part)' <=> Exists(c.part)
  BY DEF Exists
<1>4. Within(cmd.part)'
  BY AskFixed DEF Within
<1>5. Described(cmd.part)' = Described(c.part)
  BY AskFixed DEF Described, PartAt, First, Over
<1>5a. Described(<<cmd.part[1]>>)' = Described(<<c.part[1]>>)
  <2>1. Described(<<c.part[1]>>)' = Described(<<c.part[1]>>)
    BY AskFixed
  <2> QED
    BY <2>1 DEF Described, PartAt, First, Over
<1>5b. First(cmd.part)' <=> First(c.part)
  BY DEF First
<1>6. Open'
  BY <1>3, <1>5, <1>5a, <1>5b DEF Open
<1>7. Multis' = Multis
  BY AskFixed
<1> QED
  BY <1>2, <1>3, <1>4, <1>6, <1>7 DEF Scanning

\* A step that leaves the scan alone.
LEMMA ScannedSame ==
    ASSUME Scanned, UNCHANGED <<ask, cmd, subID, slots, attCount, dataIndex>>,
           cmd \in Commands,
           BeforeScan' => BeforeScan, InScan' => InScan, AfterScan' => AfterScan,
           Lost => Lost' \/ ~(InScan' \/ AfterScan'),
           InScan' => /\ InSlot' <=> InSlot
                      /\ stage' \in {"lines", "decide"} /\ wait'.payload > 0 =>
                            \/ stage \in {"lines", "decide"} /\ wait.payload > 0
                            \/ Exists(cmd.part)
    PROVE  Scanned'
<1> SUFFICES ASSUME OneMulti'
             PROVE  /\ BeforeScan' => NotScanned'
                    /\ InScan' => Lost' \/ Stuck' \/ Scanning'
                    /\ AfterScan' => Lost' \/ Complete'
  BY DEF Scanned
<1>1. OneMulti
  BY AskFixed DEF OneMulti
<1>2. /\ BeforeScan => NotScanned
      /\ InScan => Lost \/ Stuck \/ Scanning
      /\ AfterScan => Lost \/ Complete
  BY <1>1 DEF Scanned
<1>3. Attached' = Attached
  BY DEF Attached
<1>4. ASSUME BeforeScan' PROVE NotScanned'
  BY <1>2, <1>4 DEF NotScanned
<1>5a. Stuck => Stuck'
  BY DEF Stuck, Exists, PartAt
<1>5. ASSUME InScan', ~Lost', ~Stuck' PROVE Scanning'
  <2>1. Scanning
    BY <1>2, <1>5, <1>5a
  <2> PICK c \in Commands : c = cmd
    OBVIOUS
  <2>2. /\ Within(c.part) /\ Listed(Passed(c.part)) /\ Open
        /\ attCount = Cardinality(Attached)
        /\ Len(c.part) = 2 => subID = c.part[2]
        /\ Len(c.part) # 2 => ((\A q \in Multis : c.part[1] <= q) => subID = 1)
        /\ stage \in {"lines", "decide"} /\ wait.payload > 0 => Exists(c.part)
    BY <2>1 DEF Scanning
  <2>3. Listed(Passed(c.part))'
    <3> PICK l : l = Passed(c.part)
      OBVIOUS
    <3>1. Listed(l)
      BY <2>2
    <3>2. Listed(l)' /\ Passed(c.part)' = l
      BY <3>1, ListedSame, AskFixed
    <3> QED
      BY <3>2, ListedIs
  <2>4. Len(slots') > dataIndex' =>
          /\ Len(slots') = dataIndex' + 1 /\ Exists(c.part)
          /\ InSlot' => slots'[dataIndex' + 1] = Described(c.part)
          /\ ~InSlot' => /\ First(c.part)
                         /\ slots'[dataIndex' + 1] = Described(<<c.part[1]>>)
    BY <1>5, <2>2 DEF Open
  <2>4a. First(c.part) => Len(slots') > dataIndex'
    BY <2>2 DEF Open
  <2>5. stage' \in {"lines", "decide"} /\ wait'.payload > 0 => Exists(c.part)
    BY <1>5, <2>2
  <2>6. cmd' = c
    OBVIOUS
  <2> QED
    BY <1>3, <2>2, <2>3, <2>4, <2>4a, <2>5, <2>6, ScanningAt
<1>6. ASSUME AfterScan', ~Lost' PROVE Complete'
  <2>1. Complete
    BY <1>2, <1>6
  <2>2. Listed(AllLeaves)'
    <3> PICK l : l = AllLeaves
      OBVIOUS
    <3>1. Listed(l)
      BY <2>1 DEF Complete
    <3>2. Listed(l)' /\ AllLeaves' = l
      BY <3>1, ListedSame, AskFixed
    <3> QED
      BY <3>2, ListedAllIs
  <2> QED
    BY <1>3, <2>1, <2>2 DEF Complete
<1> QED
  BY <1>4, <1>5, <1>6

LEMMA ScannedOut == ~BeforeScan' /\ ~InScan' /\ ~AfterScan' => Scanned'
BY DEF Scanned

\* The call ends, or its connection is lost.
LEMMA ScannedEnd ==
    ASSUME result' # "true", stage' \in {"out", "crashed", "done"}
    PROVE  Scanned'
<1>1. ~BeforeScan' /\ ~InScan' /\ ~AfterScan'
  BY DEF BeforeScan, InScan, AfterScan, Busy
<1> QED
  BY <1>1, ScannedOut

\* A command is sent on a link that is up, as nothing is left to read.
LEMMA SendScanned ==
    ASSUME IInv, ~late, Scanned, Send
    PROVE  Scanned'
<1>1. /\ stage = "send" /\ Connected /\ stage' = "first" /\ wait' = NewWait
      /\ UNCHANGED <<ask, cmd, subID, slots, attCount, dataIndex, conn, result>>
  BY TalkData DEF Send, outcome
<1>2. inbox = <<>>
  BY <1>1 DEF IInv, Current, Quiet
<1>3. ~Lost
  BY <1>1, <1>2 DEF Connected, Lost
<1>4. /\ BeforeScan' => BeforeScan
      /\ InScan' => InScan
      /\ AfterScan' => AfterScan
  BY <1>1 DEF BeforeScan, InScan, AfterScan, Busy
<1>5. /\ InSlot' <=> InSlot
      /\ stage' \notin {"lines", "decide"}
  BY <1>1 DEF InSlot
<1>6. cmd \in Commands
  BY DEF IInv, CallTypes
<1> QED
  BY <1>1, <1>3, <1>4, <1>5, <1>6, ScannedSame

\* The wait goes on, or ends.
LEMMA WaitScanned ==
    ASSUME IInv, Scanned, FirstByte \/ TimeOut \/ EndWait
    PROVE  Scanned'
<1>1. /\ stage \in {"first", "lines"} /\ stage' \in {"lines", "decide"}
      /\ UNCHANGED <<ask, cmd, subID, slots, attCount, dataIndex, conn, wait, result>>
  BY TalkData DEF FirstByte, TimeOut, EndWait, outcome, link
<1>2. ~Lost
  BY <1>1 DEF Lost
<1>3. /\ BeforeScan' => BeforeScan
      /\ InScan' => InScan
      /\ AfterScan' => AfterScan
  BY <1>1 DEF BeforeScan, InScan, AfterScan, Busy
<1>4. stage = "first" => wait.payload = 0
  BY DEF IInv, CallTypes, NewWait
<1>5. /\ InSlot' <=> InSlot
      /\ wait'.payload > 0 => stage \in {"lines", "decide"} /\ wait.payload > 0
  BY <1>1, <1>4 DEF InSlot
<1>6. cmd \in Commands
  BY DEF IInv, CallTypes
<1> QED
  BY <1>1, <1>2, <1>3, <1>5, <1>6, ScannedSame

\* The server and the network.
LEMMA ServerScanned ==
    ASSUME IInv, Scanned, Serve \/ Deliver \/ Disconnect \/ UNCHANGED vars
    PROVE  Scanned'
<1>1. UNCHANGED <<ask, stage, cmd, wait, subID, slots, attCount, dataIndex, result>>
  BY ServerData
<1>2. conn' = conn \/ conn' = "down"
  BY DEF Serve, Deliver, Disconnect, vars, link
<1>3. /\ BeforeScan' => BeforeScan
      /\ InScan' => InScan
      /\ AfterScan' => AfterScan
      /\ InSlot' <=> InSlot
  BY <1>1 DEF BeforeScan, InScan, AfterScan, Busy, InSlot
<1>4. Lost => Lost'
  BY <1>1, <1>2 DEF Lost
<1>5. cmd \in Commands
  BY DEF IInv, CallTypes
<1> QED
  BY <1>1, <1>3, <1>4, <1>5, ScannedSame

\* Connecting, and the ends of a call.
LEMMA EndsScanned ==
    ASSUME IInv, Scanned, result = "none" \/ stage = "done",
           ConnectFails \/ ConnectSucceeds \/ NullStream \/ Out
    PROVE  Scanned'
<1>1. cmd \in Commands /\ (stage = "connect" => cmd.type = "LOGIN")
  BY DEF IInv, CallTypes, Progress
<1>2. CASE ConnectFails
  <2>1. /\ stage = "connect"
        /\ \/ stage' = stage /\ result' = result
           \/ stage' = "done" /\ result' = "false"
        /\ UNCHANGED <<ask, cmd, wait, subID, slots, attCount, dataIndex, conn>>
    BY <1>2, TalkData DEF ConnectFails, link
  <2>2. CASE stage' = "done"
    BY <2>1, <2>2, ScannedEnd
  <2>3. CASE stage' = stage
    <3>1. /\ BeforeScan' => BeforeScan
          /\ ~InScan' /\ ~AfterScan' /\ ~Lost
      BY <2>1, <2>3 DEF BeforeScan, InScan, AfterScan, Busy, Lost
    <3> QED
      BY <1>1, <2>1, <3>1, ScannedSame
  <2> QED
    BY <2>1, <2>2, <2>3
<1>3. CASE ConnectSucceeds
  <2>1. /\ stage = "connect" /\ stage' = "send"
        /\ UNCHANGED <<ask, cmd, wait, subID, slots, attCount, dataIndex, result>>
    BY <1>3, TalkData DEF ConnectSucceeds, outcome
  <2>2. /\ BeforeScan' => BeforeScan
        /\ ~InScan' /\ ~AfterScan' /\ ~Lost
    BY <1>1, <2>1 DEF BeforeScan, InScan, AfterScan, Busy, Lost, Bodies
  <2> QED
    BY <1>1, <2>1, <2>2, ScannedSame
<1>4. CASE NullStream
  <2>1. stage # "done" /\ stage' = "crashed" /\ result' = result
    BY <1>4 DEF NullStream, outcome
  <2> QED
    BY <2>1, ScannedEnd
<1>5. CASE Out
  <2>1. stage' = "done" /\ result' = "false"
    BY <1>5 DEF Out
  <2> QED
    BY <2>1, ScannedEnd
<1> QED
  BY <1>2, <1>3, <1>4, <1>5

\* The commands before the scan.
LEMMA EarlyScanned ==
    ASSUME IInv, Scanned, result = "none" \/ stage = "done",
           Busy /\ cmd.type = "SEARCH" => ~ask.uid,
           LoginAnswered \/ ListAnswered \/ ExamineAnswered \/ SearchAnswered
    PROVE  Scanned'
<1>1. /\ stage = "decide" /\ cmd.type \in Early
      /\ UNCHANGED <<ask, subID, slots, attCount, dataIndex, result>>
  BY TalkData DEF LoginAnswered, ListAnswered, ExamineAnswered, SearchAnswered, Answered,
                  scan, Early
<1>2. result # "true"
  BY <1>1
<1>3. CASE stage' = "out"
  BY <1>1, <1>2, <1>3, ScannedEnd
<1>4. CASE stage' # "out"
  <2>1. ask.uid => stage' = "send" /\ cmd'.type \in Early \cup {"HEADER"}
    <3>1. CASE LoginAnswered \/ ListAnswered
      BY <1>4, <3>1 DEF LoginAnswered, ListAnswered, Go, GiveUp, Cmd, Early
    <3>2. CASE ExamineAnswered
      <4>1. CASE wait.valid /\ ask.uid
        <5>1. StartFetch(<<1>>)
          BY <3>2, <4>1 DEF ExamineAnswered
        <5>2. <<1>> # <<>>
          OBVIOUS
        <5> QED
          BY <5>1, <5>2 DEF StartFetch, Go, Fetch
      <4>2. CASE ~wait.valid
        BY <1>4, <3>2, <4>2 DEF ExamineAnswered, GiveUp
      <4> QED
        BY <4>1, <4>2
    <3>3. CASE SearchAnswered
      BY <1>1, <3>3 DEF SearchAnswered, Answered, Busy
    <3> QED
      BY <3>1, <3>2, <3>3
  <2>2. ASSUME OneMulti' PROVE BeforeScan' /\ NotScanned' /\ ~InScan' /\ ~AfterScan'
    <3>1. OneMulti /\ ask.uid
      BY <1>1, <2>2, AskFixed DEF OneMulti
    <3>2. NotScanned
      BY <1>1, <3>1 DEF Scanned, BeforeScan, Busy
    <3> QED
      BY <1>1, <1>2, <2>1, <3>1, <3>2
         DEF NotScanned, BeforeScan, InScan, AfterScan, Busy, Bodies, Early
  <2> QED
    BY <2>2 DEF Scanned
<1> QED
  BY <1>3, <1>4

\* A line that describes the part is the second of its reply, and no line
\* after it is.
LEMMA DescribingLine ==
    ASSUME IInv, ~late, Coming, ReadLine, cmd.type = "MIME"
    PROVE  LET line == Head(inbox)
           IN  /\ line.of = cmd /\ line \in ReplyLines
               /\ stage = "lines" /\ stage' = "lines" /\ wait \in Wait
               /\ wait'.payload = IF wait.lf = 0 THEN line.size ELSE wait.payload
               /\ wait'.got = Read(wait)
               /\ line.kind = "literal" => Exists(cmd.part)
               /\ Exists(cmd.part) /\ Stores("MIME", wait, line) =>
                     wait.got = 0 /\ wait'.got = 1
               /\ Exists(cmd.part) /\ wait.payload > 0 /\ wait.got = 0 /\ ~wait.complete =>
                     Stores("MIME", wait, line)
               /\ wait.lf = 0 => wait.payload = 0 /\ wait.got = 0
<1> DEFINE line == Head(inbox)
<1>1. /\ stage = "lines" /\ inbox # <<>>
      /\ wait' = Take(WaitType(cmd), wait, line)
      /\ stage' = (IF wait'.broken THEN "decide" ELSE "lines")
  BY DEF ReadLine
<1>2. /\ wait \in Wait /\ inbox \in Seq(ReplyLines) /\ cmd \in Commands
      /\ Describes(inbox) /\ Current
      /\ wait.lf = 0 => wait = NewWait
  BY <1>1 DEF IInv, CallTypes, LinkTypes
<1>3. line = inbox[1] /\ line \in ReplyLines /\ 1 \in DOMAIN inbox
  BY <1>1, <1>2, OneRead
<1>4. line.of = cmd
  BY <1>1, <1>2, <1>3 DEF Current, Answering
<1>5. line.kind = "literal" => Exists(cmd.part)
  BY <1>2, <1>3, <1>4 DEF Describes
<1> HIDE DEF line
<1>6. /\ wait'.payload = IF wait.lf = 0 THEN line.size ELSE wait.payload
      /\ wait'.got = Read(wait) /\ wait'.broken = FALSE
  <2>1. WaitType(cmd) = "MIME" /\ "MIME" \in Types \ {"SEARCH"}
    BY DEF WaitType, Types, FetchTypes
  <2>2. wait' = Take("MIME", wait, line)
    BY <1>1, <2>1
  <2> QED
    BY <1>2, <1>3, <2>1, <2>2, Taken
<1>7. wait.lf = 0 => wait.payload = 0 /\ wait.got = 0
  BY <1>2 DEF NewWait
<1>8. wait.lf \in {0, 1} /\ wait.got \in Nat /\ wait.payload \in Nat
  BY <1>2 DEF Wait
<1>9. ASSUME Exists(cmd.part)
      PROVE  /\ Stores("MIME", wait, line) => wait.got = 0 /\ wait'.got = 1
             /\ wait.payload > 0 /\ wait.got = 0 /\ ~wait.complete => Stores("MIME", wait, line)
  <2> DEFINE r == Course
             n == TakenLines
  <2>1. Due
    BY <1>9 DEF Due, Holds, Awaited
  <2>2. ToCome(r, n) /\ Came(r, n)
    BY <1>1, <2>1 DEF Coming
  <2>3. r = <<"literal", "body", "ok">>
    BY DEF Course
  <2>4. Len(r) = 3 /\ r[1] = "literal" /\ r[2] = "body" /\ r[3] = "ok"
    BY <2>3
  <2> HIDE DEF r
  <2>5. line.kind = r[n + 1]
    BY <1>3, <2>2 DEF ToCome
  <2>6. n = wait.lf + wait.got
    BY DEF TakenLines
  <2>7. /\ n > 0 => wait.lf = 1 /\ wait.payload = 1 /\ wait.valid
        /\ wait.complete => n = 3
    BY <2>2, <2>4 DEF Came
  <2> HIDE DEF n
  <2>8. n \in 0 .. 2
    <3>1. n + Len(inbox) + Len(owed) <= 3
      BY <2>2, <2>4 DEF ToCome
    <3>2. Len(inbox) \in Nat /\ Len(inbox) >= 1 /\ Len(owed) \in Nat
      BY <1>1, <1>2, OneRead, LenProperties DEF IInv, LinkTypes
    <3> QED
      BY <1>8, <2>6, <3>1, <3>2
  <2>9. line.kind = "body" <=> n = 1
    BY <2>4, <2>5, <2>8
  <2>10. ASSUME Stores("MIME", wait, line) PROVE wait.got = 0 /\ wait'.got = 1
    <3>1. line.kind = "body" /\ wait.lf > 0 /\ wait.payload > 0
      BY <2>10 DEF Stores
    <3>2. n = 1
      BY <2>9, <3>1
    <3>3. wait.got = 0 /\ ~wait.complete
      BY <1>8, <2>6, <2>7, <3>1, <3>2
    <3> QED
      BY <1>6, <3>1, <3>3 DEF Read
  <2>11. ASSUME wait.payload > 0, wait.got = 0, ~wait.complete
         PROVE  Stores("MIME", wait, line)
    <3>1. wait.lf = 1
      BY <1>7, <1>8, <2>11
    <3>2. n = 1 /\ wait.valid
      BY <2>6, <2>7, <2>11, <3>1
    <3>3. line.kind = "body"
      BY <2>9, <3>2
    <3> QED
      BY <2>11, <3>1, <3>2, <3>3 DEF Stores, ValidAfter, Tagged
  <2> QED
    BY <2>10, <2>11
<1>10. stage' = "lines"
  BY <1>1, <1>6
<1> QED
  BY <1>1, <1>2, <1>3, <1>4, <1>5, <1>6, <1>7, <1>9, <1>10 DEF line

\* The line that describes the part goes into the slot behind the list.
LEMMA SlotDescribed ==
    ASSUME IInv, ReadLine, Open, attCount = Cardinality(Attached), cmd.type = "MIME",
           Head(inbox).of = cmd, Stores("MIME", wait, Head(inbox)), ~InSlot, Exists(cmd.part),
           Within(cmd.part)
    PROVE  /\ Len(slots') = dataIndex + 1 /\ slots'[dataIndex + 1] = Described(cmd.part)
           /\ \A k \in 1 .. dataIndex : slots'[k] = slots[k]
           /\ attCount' = Cardinality(Attached')
<1> DEFINE line == Head(inbox)
<1>0. /\ StoreSlot(line) /\ slots \in Seq(SlotTypes) /\ dataIndex \in 0 .. Len(slots)
      /\ attCount \in Nat /\ cmd \in Commands /\ ask \in Asks
  BY DEF ReadLine, IInv, ScanTypes, CallTypes
<1>a. Len(slots) \in Nat /\ DOMAIN slots = 1 .. Len(slots)
  BY <1>0, LenProperties
<1>b. dataIndex \in Nat /\ dataIndex <= Len(slots)
  BY <1>0, <1>a
<1>1. PICK n \in Nat : n = dataIndex + 1
  BY <1>b
<1>s. PICK s : s = IF Len(slots) = dataIndex THEN Append(slots, NoSlot) ELSE slots
  OBVIOUS
<1>2. /\ slots' = [s EXCEPT ![n] = NewSlot(s[n], line)]
      /\ attCount' = IF line.of.type = "MIME" /\ PartAt(line.of.part).disp \in Attachment
                       THEN attCount + 1 ELSE attCount
  BY <1>0, <1>1, <1>s DEF StoreSlot
<1>3. line.of = cmd
  OBVIOUS
<1>c. NoSlot.type = "" /\ NoSlot.disp = ""
  BY DEF NoSlot
<1>m. PICK p : p = PartAt(cmd.part)
  OBVIOUS
<1>f. First(cmd.part) =>
         Described(<<cmd.part[1]>>).type = "multi" /\ Described(<<cmd.part[1]>>).disp = ""
  <2> SUFFICES ASSUME First(cmd.part)
               PROVE  /\ Described(<<cmd.part[1]>>).type = "multi"
                      /\ Described(<<cmd.part[1]>>).disp = ""
    OBVIOUS
  <2>1. cmd.part[1] \in Multis
    BY DEF Within, First
  <2>2. PICK q : q = cmd.part[1]
    OBVIOUS
  <2>4. ask.mail[q].type = "multi" /\ ask.mail[q].disp = ""
    BY <1>0, <2>1, <2>2, MultiIs
  <2>5. Len(<<q>>) = 1 /\ <<q>>[1] = q
    OBVIOUS
  <2>6. PartAt(<<q>>) = ask.mail[q] /\ ~First(<<q>>)
    BY <2>5 DEF PartAt, First
  <2> QED
    BY <2>2, <2>4, <2>6 DEF Described
<1>4. NoSlot \in SlotTypes
  <2>1. <<>> \in Seq(Nat) /\ Len(<<>>) <= 2
    OBVIOUS
  <2> QED
    BY <2>1 DEF NoSlot, SlotTypes, PartTypes, LeafTypes, Dispositions
<1> HIDE DEF line
<1>5. /\ s \in Seq(SlotTypes) /\ Len(s) = n /\ DOMAIN s = 1 .. n
      /\ \A k \in 1 .. dataIndex : s[k] = slots[k]
      /\ Len(slots) \in {dataIndex, n}
      /\ Len(slots) = n => slots[n].disp = ""
      /\ s[n].disp = "" /\ s[n].type = IF First(cmd.part) THEN "multi" ELSE ""
  <2>1. CASE Len(slots) = dataIndex
    <3>1. s = Append(slots, NoSlot)
      BY <1>s, <2>1
    <3>2. /\ s \in Seq(SlotTypes) /\ Len(s) = Len(slots) + 1
          /\ DOMAIN s = 1 .. (Len(slots) + 1)
          /\ \A k \in DOMAIN slots : s[k] = slots[k]
          /\ s[Len(slots) + 1] = NoSlot
      <4>1. /\ Append(slots, NoSlot) \in Seq(SlotTypes)
            /\ Len(Append(slots, NoSlot)) = Len(slots) + 1
            /\ DOMAIN Append(slots, NoSlot) = 1 .. (Len(slots) + 1)
            /\ \A k \in DOMAIN slots : Append(slots, NoSlot)[k] = slots[k]
            /\ Append(slots, NoSlot)[Len(slots) + 1] = NoSlot
        BY <1>0, <1>4, OneMore
      <4> QED
        BY <3>1, <4>1
    <3>3. Len(slots) + 1 = n /\ Len(slots) # n
      BY <1>1, <1>b, <2>1
    <3>4. ~First(cmd.part)
      BY <1>b, <2>1 DEF Open
    <3> QED
      BY <1>a, <1>c, <2>1, <3>2, <3>3, <3>4
  <2>2. CASE Len(slots) # dataIndex
    <3>1. Len(slots) > dataIndex
      <4>1. \A x, y \in Nat : x <= y /\ y # x => y > x
        OBVIOUS
      <4> QED
        BY <1>a, <1>b, <2>2, <4>1
    <3>2. Len(slots) = n /\ First(cmd.part) /\ slots[n] = Described(<<cmd.part[1]>>)
      BY <1>1, <3>1 DEF Open
    <3>2a. slots[n].disp = "" /\ slots[n].type = "multi"
      BY <1>f, <3>2
    <3>3. s = slots
      BY <1>s, <2>2
    <3> QED
      BY <1>0, <1>a, <3>2, <3>2a, <3>3
  <2> QED
    BY <2>1, <2>2
<1>e. PICK e : e = Described(cmd.part)
  OBVIOUS
<1>7. cmd.part \in Seq(Nat) /\ Len(cmd.part) <= 2 /\ p.type \in PartTypes /\ p.disp \in Dispositions
  <2>1. cmd.part # <<>> /\ cmd.part \in Seq(Nat) /\ Len(cmd.part) <= 2
    BY <1>0 DEF Commands
  <2> QED
    BY <1>0, <1>m, <2>1, KindTypes
<1>6. NewSlot(s[n], line) = e
  <2>1. NewSlot(s[n], line) = [part |-> cmd.part, type |-> Over(s[n].type, p.type),
                               disp |-> Over(s[n].disp, p.disp)]
    BY <1>3, <1>m DEF NewSlot
  <2>2. Over(s[n].disp, p.disp) = p.disp
    BY <1>5 DEF Over
  <2>3. Over(s[n].type, p.type) = IF First(cmd.part) THEN Over("multi", p.type) ELSE p.type
    BY <1>5 DEF Over
  <2> QED
    BY <1>e, <1>m, <2>1, <2>2, <2>3 DEF Described
<1>8. /\ e.disp = p.disp
      /\ e = [part |-> cmd.part,
              type |-> IF First(cmd.part) THEN Over("multi", p.type) ELSE p.type, disp |-> p.disp]
  BY <1>e, <1>m DEF Described
<1>d. e \in SlotTypes
  <2>1. (IF First(cmd.part) THEN Over("multi", p.type) ELSE p.type) \in PartTypes
    BY <1>7 DEF Over, PartTypes
  <2> QED
    BY <1>7, <1>8, <2>1 DEF SlotTypes
<1>9. slots' = [s EXCEPT ![n] = e]
  BY <1>2, <1>6
<1>10. attCount' = IF p.disp \in Attachment THEN attCount + 1 ELSE attCount
  BY <1>2, <1>3, <1>m
<1>11. n \in 1 .. n /\ \A k \in 1 .. n : k = n \/ k \in 1 .. dataIndex
  BY <1>1, <1>b
<1>12. /\ slots' \in Seq(SlotTypes) /\ Len(slots') = n /\ DOMAIN slots' = 1 .. n
       /\ \A k \in 1 .. n : slots'[k] = IF k = n THEN e ELSE s[k]
  <2>1. n \in DOMAIN s /\ s \in Seq(SlotTypes)
    BY <1>5, <1>11
  <2>2. /\ [s EXCEPT ![n] = e] \in Seq(SlotTypes)
        /\ Len([s EXCEPT ![n] = e]) = Len(s)
        /\ DOMAIN [s EXCEPT ![n] = e] = DOMAIN s
        /\ \A k \in DOMAIN s : [s EXCEPT ![n] = e][k] = IF k = n THEN e ELSE s[k]
    BY <1>d, <2>1, OneWritten
  <2> QED
    BY <1>5, <1>9, <2>2
<1>13. \A k \in 1 .. dataIndex : k \in 1 .. n /\ k # n
  BY <1>1, <1>b
<1>14. slots'[n] = e
  BY <1>11, <1>12
<1>15. \A k \in 1 .. dataIndex : slots'[k] = slots[k]
  BY <1>5, <1>12, <1>13
<1>16. n \notin Attached /\ Attached' = Attached \cup (IF p.disp \in Attachment THEN {n} ELSE {})
  <2>1. Attached = {k \in 1 .. dataIndex : slots[k].disp \in Attachment}
    <3>1. CASE Len(slots) = dataIndex
      BY <1>a, <3>1 DEF Attached
    <3>2. CASE Len(slots) = n
      <4>1. slots[n].disp \notin Attachment
        BY <1>5, <3>2 DEF Attachment
      <4> QED
        BY <1>a, <1>11, <1>13, <3>2, <4>1 DEF Attached
    <3> QED
      BY <1>5, <3>1, <3>2
  <2>2. Attached' = {k \in 1 .. n : slots'[k].disp \in Attachment}
    BY <1>12 DEF Attached
  <2>3. n \notin Attached
    BY <1>13, <2>1
  <2> QED
    BY <1>8, <1>11, <1>13, <1>14, <1>15, <2>1, <2>2, <2>3
<1>17. IsFiniteSet(Attached)
  <2>1. Attached \in SUBSET (1 .. Len(slots)) /\ IsFiniteSet(1 .. Len(slots))
    BY <1>a, FS_Interval DEF Attached
  <2> QED
    BY <2>1, FS_Subset
<1>18. attCount' = Cardinality(Attached')
  <2>1. CASE p.disp \in Attachment
    <3>1. Attached' = Attached \cup {n}
      BY <1>16, <2>1
    <3>2. Cardinality(Attached \cup {n}) = Cardinality(Attached) + 1
      BY <1>16, <1>17, FS_AddElement
    <3> QED
      BY <1>10, <2>1, <3>1, <3>2
  <2>2. CASE p.disp \notin Attachment
    <3>1. Attached' = Attached
      BY <1>16, <2>2
    <3> QED
      BY <1>10, <2>2, <3>1
  <2> QED
    BY <2>1, <2>2
<1> QED
  BY <1>1, <1>e, <1>12, <1>14, <1>15, <1>18

\* A part without a type is described again: its slot stays as it is.
LEMMA StuckOn ==
    ASSUME IInv, ReadLine, Stuck, cmd.type = "MIME", Head(inbox).of = cmd
    PROVE  Stuck'
<1> DEFINE line == Head(inbox)
<1>0. /\ StoreSlot(line) /\ slots \in Seq(SlotTypes) /\ dataIndex \in 0 .. Len(slots)
      /\ UNCHANGED <<ask, cmd, dataIndex>> /\ cmd \in Commands /\ ask \in Asks
  BY DEF ReadLine, IInv, ScanTypes, CallTypes
<1>1. Len(slots) \in Nat /\ DOMAIN slots = 1 .. Len(slots)
  BY <1>0, LenProperties
<1>2. Len(slots) # dataIndex /\ dataIndex + 1 \in DOMAIN slots
  <2>0. dataIndex \in Nat
    BY DEF IInv, ScanTypes
  <2>1. PICK x \in Nat, y \in Nat : x = Len(slots) /\ y = dataIndex
    BY <1>1, <2>0
  <2>2. x > y
    BY <2>1 DEF Stuck
  <2>3. x # y /\ y + 1 \in 1 .. x
    BY <2>2
  <2> QED
    BY <1>1, <2>1, <2>3
<1>3. CASE UNCHANGED <<slots, attCount>>
  BY <1>0, <1>3 DEF Stuck, Exists, PartAt
<1>4. CASE ~UNCHANGED <<slots, attCount>>
  <2>1. slots' = [slots EXCEPT ![dataIndex + 1] = NewSlot(slots[dataIndex + 1], line)]
    BY <1>0, <1>2, <1>4 DEF StoreSlot
  <2>2. PICK e : e = NewSlot(slots[dataIndex + 1], line)
    OBVIOUS
  <2>3. e.type = ""
    <3>1. PICK p : p = PartAt(cmd.part)
      OBVIOUS
    <3>2. PICK s : s = slots[dataIndex + 1]
      OBVIOUS
    <3>3. p.type = "" /\ s.type = ""
      BY <3>1, <3>2 DEF Stuck
    <3>4. e = [part |-> cmd.part, type |-> Over(s.type, p.type), disp |-> Over(s.disp, p.disp)]
      BY <2>2, <3>1, <3>2 DEF NewSlot
    <3> QED
      BY <3>3, <3>4 DEF Over
  <2>4. slots' = [slots EXCEPT ![dataIndex + 1] = e]
    BY <2>1, <2>2
  <2> HIDE DEF line
  <2>5. Len(slots') = Len(slots) /\ slots'[dataIndex + 1] = e
    BY <1>0, <1>2, <2>4, LenProperties
  <2> QED
    BY <1>0, <2>3, <2>5 DEF Stuck, Exists, PartAt
<1> QED
  BY <1>3, <1>4

LEMMA ReadScanned ==
    ASSUME IInv, ~late, Coming, Scanned, result = "none" \/ stage = "done", ReadLine
    PROVE  Scanned'
<1> DEFINE line == Head(inbox)
<1>1. /\ stage = "lines" /\ stage' \in {"lines", "decide"} /\ StoreSlot(line)
      /\ UNCHANGED <<ask, cmd, subID, dataIndex, conn, result>>
  BY DEF ReadLine, outcome
<1>2. cmd \in Commands /\ ~Lost /\ result # "true"
  BY <1>1 DEF IInv, CallTypes, Lost
<1>3. /\ BeforeScan' => BeforeScan
      /\ InScan' => InScan
      /\ AfterScan' => AfterScan
  BY <1>1 DEF BeforeScan, InScan, AfterScan, Busy
<1>4. CASE cmd.type # "MIME"
  <2>1. UNCHANGED <<slots, attCount>> /\ ~InScan'
    BY <1>1, <1>4 DEF StoreSlot, InScan
  <2> QED
    BY <1>1, <1>2, <1>3, <2>1, ScannedSame
<1>5. CASE cmd.type = "MIME"
  <2>1. /\ line.of = cmd /\ line \in ReplyLines /\ stage' = "lines" /\ wait \in Wait
        /\ wait'.payload = IF wait.lf = 0 THEN line.size ELSE wait.payload
        /\ wait'.got = Read(wait)
        /\ line.kind = "literal" => Exists(cmd.part)
        /\ Exists(cmd.part) /\ Stores("MIME", wait, line) => wait.got = 0 /\ wait'.got = 1
        /\ Exists(cmd.part) /\ wait.payload > 0 /\ wait.got = 0 /\ ~wait.complete =>
              Stores("MIME", wait, line)
        /\ wait.lf = 0 => wait.payload = 0 /\ wait.got = 0
    BY <1>5, DescribingLine
  <2>2. /\ wait.got \in Nat /\ wait.payload \in Nat
        /\ line.size = IF line.kind = "literal" THEN 1 ELSE 0
    BY <2>1, LineTypes DEF Wait
  <2> HIDE DEF line
  <2>3. wait'.payload > 0 => wait.payload > 0 \/ Exists(cmd.part)
    BY <2>1, <2>2
  <2>4. Read(wait) >= wait.got /\ Read(wait) \in {wait.got, wait.got + 1}
        /\ (Read(wait) # wait.got => wait.payload > 0 /\ ~wait.complete)
    BY <2>2 DEF Read
  <2>5. CASE ~OneMulti
    <3>1. ~OneMulti'
      BY <1>1, <2>5, AskFixed DEF OneMulti
    <3> QED
      BY <3>1 DEF Scanned
  <2>7. CASE Stuck
    <3>1. Stuck'
      BY <1>5, <2>1, <2>7, StuckOn DEF line
    <3>2. ~BeforeScan' /\ ~AfterScan'
      BY <1>1, <1>2, <1>5, <2>1 DEF BeforeScan, AfterScan, Busy, Bodies, Early
    <3> QED
      BY <3>1, <3>2 DEF Scanned
  <2>6. CASE OneMulti /\ ~Stuck
    <3>1. Scanning
      BY <1>1, <1>2, <1>5, <2>6 DEF Scanned, InScan, Busy
    <3>2. wait.payload > 0 => Exists(cmd.part)
      BY <1>1, <3>1 DEF Scanning
    <3>3. CASE Stores("MIME", wait, line)
      <4>1. wait.payload > 0 /\ wait.lf > 0
        BY <3>3 DEF Stores
      <4>2. Exists(cmd.part) /\ wait.got = 0 /\ wait'.got = 1 /\ wait'.payload > 0
        BY <2>1, <3>2, <3>3, <4>1
      <4>3. ~InSlot /\ InSlot'
        BY <2>1, <4>2 DEF InSlot
      <4>4. /\ Len(slots') = dataIndex + 1 /\ slots'[dataIndex + 1] = Described(cmd.part)
            /\ \A k \in 1 .. dataIndex : slots'[k] = slots[k]
            /\ attCount' = Cardinality(Attached')
        BY <1>5, <2>1, <3>1, <3>3, <4>2, <4>3, SlotDescribed DEF line, Scanning
      <4> PICK c \in Commands : c = cmd
        BY <1>2
      <4>5. /\ Within(c.part) /\ Listed(Passed(c.part))
            /\ Len(c.part) = 2 => subID = c.part[2]
            /\ Len(c.part) # 2 => ((\A q \in Multis : c.part[1] <= q) => subID = 1)
        BY <3>1 DEF Scanning
      <4>6. Listed(Passed(c.part))'
        <5> PICK l : l = Passed(c.part)
          OBVIOUS
        <5>1. dataIndex' = Len(l) /\ \A k \in 1 .. dataIndex' : slots'[k] = Described(l[k])
          BY <1>1, <4>4, <4>5 DEF Listed
        <5>2. Listed(l)' /\ Passed(c.part)' = l
          BY <1>1, <5>1, ListedAt, AskFixed
        <5> QED
          BY <5>2, ListedIs
      <4>7. /\ Exists(c.part) /\ cmd' = c /\ subID' = subID /\ dataIndex' = dataIndex
            /\ ask' = ask /\ slots'[dataIndex' + 1] = Described(c.part)
            /\ Len(slots') = dataIndex' + 1
        BY <1>1, <4>2, <4>4
      <4>7a. Len(slots') > dataIndex'
        <5>1. dataIndex' \in Nat
          BY <1>1 DEF IInv, ScanTypes
        <5>2. \A x, y \in Nat : x = y + 1 => x > y
          OBVIOUS
        <5> QED
          BY <4>7, <5>1, <5>2
      <4>8. Scanning'
        BY <4>3, <4>4, <4>5, <4>6, <4>7, <4>7a, ScanningAt
      <4>9. ~BeforeScan' /\ ~AfterScan'
        BY <1>1, <1>2, <1>5, <2>1 DEF BeforeScan, AfterScan, Busy, Bodies, Early
      <4> QED
        BY <4>8, <4>9 DEF Scanned
    <3>4. CASE ~Stores("MIME", wait, line)
      <4>1. UNCHANGED <<slots, attCount>>
        BY <1>1, <3>4 DEF StoreSlot
      <4>2. InSlot => InSlot'
        <5> SUFFICES ASSUME wait.payload > 0, wait.got > 0 PROVE InSlot'
          BY DEF InSlot
        <5>1. wait'.payload > 0 /\ wait'.got > 0
          BY <2>1, <2>2, <2>4
        <5> QED
          BY <2>1, <5>1 DEF InSlot
      <4>3. InSlot' => InSlot
        <5> SUFFICES ASSUME wait'.payload > 0, wait'.got > 0 PROVE wait.payload > 0 /\ wait.got > 0
          BY <1>1 DEF InSlot
        <5>1. wait.got = 0 => wait.payload > 0 /\ ~wait.complete
          BY <2>1, <2>2, <2>4
        <5>2. wait.got # 0
          BY <2>1, <3>2, <3>4, <5>1
        <5>3. wait.lf # 0
          BY <2>1, <5>2
        <5> QED
          BY <2>1, <2>2, <5>2, <5>3
      <4> QED
        BY <1>1, <1>2, <1>3, <2>3, <4>1, <4>2, <4>3, ScannedSame
    <3> QED
      BY <3>3, <3>4
  <2> QED
    BY <2>5, <2>6, <2>7
<1> QED
  BY <1>4, <1>5

\* What the answer to a part means.
LEMMA PartMeans ==
    ASSUME IInv, Coming, Scanning, stage = "decide", cmd.type = "MIME"
    PROVE  /\ wait.valid => /\ Exists(cmd.part) /\ Len(slots) = dataIndex + 1
                            /\ slots[dataIndex + 1] = Described(cmd.part)
           /\ ~wait.valid => conn = "down" \/ (~Exists(cmd.part) /\ Len(slots) = dataIndex)
           /\ dataIndex \in Nat /\ Len(slots) \in Nat
<1>1. wait \in Wait
  BY DEF IInv, CallTypes
<1>2. wait.payload \in Nat /\ wait.got \in Nat
  BY <1>1 DEF Wait
<1>3. dataIndex \in 0 .. Len(slots) /\ Len(slots) \in Nat
  BY LenProperties DEF IInv, ScanTypes
<1>4. Exists(cmd.part) => Due
  BY DEF Due, Holds, Awaited
<1>5. ASSUME wait.valid
      PROVE  /\ Exists(cmd.part) /\ Len(slots) = dataIndex + 1
             /\ slots[dataIndex + 1] = Described(cmd.part)
  <2>1. wait.complete /\ wait.payload # 0
    BY <1>5 DEF IInv, Filled
  <2>2. wait.payload > 0
    BY <1>2, <2>1
  <2>3. Exists(cmd.part)
    BY <2>2 DEF Scanning
  <2>4. wait.got > 0
    BY <1>4, <1>5, <2>3 DEF Coming, Arrived
  <2>5. InSlot /\ dataIndex < Len(slots)
    BY <2>2, <2>4 DEF InSlot, IInv, Filled, Announced, Stored
  <2>6. Len(slots) > dataIndex
    BY <1>3, <2>5
  <2> QED
    BY <2>3, <2>5, <2>6 DEF Scanning, Open
<1>6. ASSUME ~wait.valid
      PROVE  conn = "down" \/ (~Exists(cmd.part) /\ Len(slots) = dataIndex)
  <2>1. CASE Exists(cmd.part)
    BY <1>4, <1>6, <2>1 DEF Coming
  <2>2. CASE ~Exists(cmd.part)
    <3>1. ~(Len(slots) > dataIndex)
      BY <2>2 DEF Scanning, Open
    <3> QED
      BY <1>3, <2>2, <3>1
  <2> QED
    BY <2>1, <2>2
<1> QED
  BY <1>3, <1>5, <1>6

LEMMA OneMultiIs ==
    ASSUME ask \in Asks, Cardinality(Multis) <= 1
    PROVE  \A p, q \in Multis : p = q
<1> SUFFICES ASSUME NEW p \in Multis, NEW q \in Multis, p # q PROVE FALSE
  OBVIOUS
<1>1. IsFiniteSet(Multis)
  <2>1. PICK n \in Nat : n = Len(ask.mail)
    BY MailIs
  <2>2. Multis \in SUBSET (1 .. n)
    BY <2>1, MailIs
  <2>3. IsFiniteSet(1 .. n)
    <3>1. n \in Int /\ 1 \in Int
      OBVIOUS
    <3> QED
      BY <3>1, FS_Interval
  <2> QED
    BY <2>2, <2>3, FS_Subset
<1>2. {p, q} \in SUBSET Multis
  OBVIOUS
<1>3. Cardinality({p, q}) <= Cardinality(Multis)
  BY <1>1, <1>2, FS_Subset
<1>4. Cardinality({p, q}) = 2
  <2>1. IsFiniteSet({p}) /\ Cardinality({p}) = 1
    BY FS_Singleton
  <2>2. Cardinality({p} \cup {q}) = Cardinality({p}) + 1
    BY <2>1, FS_AddElement
  <2>3. {p} \cup {q} = {p, q}
    OBVIOUS
  <2> QED
    BY <2>1, <2>2, <2>3
<1>5. Cardinality(Multis) \in Nat
  BY <1>1, FS_CardinalityType
<1> QED
  BY <1>3, <1>4, <1>5

\* A list that is the same, whatever command it is looked at for.
LEMMA ListedNext ==
    ASSUME ask' = ask, NEW part, NEW next, Passed(next) = Passed(part), Listed(Passed(part)),
           slots' = slots, dataIndex' = dataIndex
    PROVE  Listed(Passed(next))'
<1>1. PICK l : l = Passed(next)
  OBVIOUS
<1>2. Listed(l)' /\ Passed(next)' = l
  BY <1>1, ListedSame, AskFixed
<1> QED
  BY <1>2, ListedIs

\* ... and with the part that was read.
LEMMA ListedOneMore ==
    ASSUME ask' = ask, NEW part \in Paths, NEW next, Passed(part) \in Seq(Paths),
           Passed(next) = Append(Passed(part), part), Listed(Passed(part)),
           dataIndex \in Nat, dataIndex' = dataIndex + 1, slots' = slots,
           slots[dataIndex + 1] = Described(part)
    PROVE  Listed(Passed(next))'
<1>1. PICK l : l = Passed(part)
  OBVIOUS
<1>2. PICK m : m = Append(l, part)
  OBVIOUS
<1>3. dataIndex' = Len(m) /\ \A k \in 1 .. dataIndex' : slots'[k] = Described(m[k])
  BY <1>1, <1>2, ListedMore
<1>4. Listed(m)' /\ Passed(next)' = m
  BY <1>1, <1>2, <1>3, ListedAt, AskFixed
<1> QED
  BY <1>4, ListedIs

\* The slots are complete and stay so.
LEMMA CompleteAt ==
    ASSUME ask' = ask, Listed(AllLeaves), Len(slots) = dataIndex,
           attCount = Cardinality(Attached), UNCHANGED <<slots, dataIndex, attCount>>
    PROVE  Complete'
<1>1. Attached' = Attached
  BY DEF Attached
<1>2. PICK l : l = AllLeaves
  OBVIOUS
<1>3. Listed(l)' /\ AllLeaves' = l
  BY <1>2, ListedSame, AskFixed
<1>4. Listed(AllLeaves)'
  BY <1>3, ListedAllIs
<1> QED
  BY <1>1, <1>4 DEF Complete

\* The steps after the scan.
LEMMA AfterScanned ==
    ASSUME IInv, Scanned, result = "none" \/ stage = "done",
           StartBodies \/ PickPart \/ BodyAnswered \/ LogoutAnswered
    PROVE  Scanned'
<1>1. /\ AfterScan /\ result # "true" /\ UNCHANGED <<ask, slots, attCount, dataIndex>>
  <2>1. CASE StartBodies
    BY <2>1 DEF StartBodies, AfterScan, scan
  <2>2. CASE PickPart
    BY <2>2 DEF PickPart, AfterScan, scan
  <2>3. CASE BodyAnswered
    BY <2>3 DEF BodyAnswered, Answered, AfterScan, Bodies, Busy, scan
  <2>4. CASE LogoutAnswered
    BY <2>4, TalkData DEF LogoutAnswered, Answered, AfterScan, Busy
  <2> QED
    BY <2>1, <2>2, <2>3, <2>4
<1>2. /\ ~BeforeScan' /\ ~InScan'
      /\ Lost => Lost' \/ ~AfterScan'
  <2>1. CASE StartBodies
    BY <2>1 DEF StartBodies, BeforeScan, InScan, Busy, Lost, link
  <2>2. CASE PickPart
    <3>1. stage' = "send" /\ conn' = conn
      BY <2>2 DEF PickPart, Go, link
    <3>2. cmd'.type \in Bodies \cup {"LOGOUT"}
      BY <2>2 DEF PickPart, Go, Cmd, Fetch, Bodies
    <3> QED
      BY <3>1, <3>2 DEF BeforeScan, InScan, Lost, Bodies, Early
  <2>3. CASE BodyAnswered
    BY <2>3 DEF BodyAnswered, Answered, BeforeScan, InScan, Busy, Lost
  <2>4. CASE LogoutAnswered
    BY <2>4 DEF LogoutAnswered, Answered, GiveUp, BeforeScan, InScan, Busy, Lost
  <2> QED
    BY <2>1, <2>2, <2>3, <2>4
<1>3. ASSUME OneMulti', AfterScan', ~Lost' PROVE Complete'
  <2>1. OneMulti
    BY <1>1, <1>3, AskFixed DEF OneMulti
  <2>2. Complete
    BY <1>1, <1>2, <1>3, <2>1 DEF Scanned
  <2> QED
    BY <1>1, <2>2, CompleteAt DEF Complete
<1> QED
  BY <1>2, <1>3 DEF Scanned

\* The scan goes on with a part.
LEMMA ScanGoesOn ==
    ASSUME ask' = ask, NEW part, cmd' = Fetch("MIME", part), stage' = "send",
           result' # "true", Within(part), Listed(Passed(part))',
           attCount' = Cardinality(Attached'),
           Len(slots') > dataIndex' =>
             /\ Len(slots') = dataIndex' + 1 /\ Exists(part)
             /\ First(part) /\ slots'[dataIndex' + 1] = Described(<<part[1]>>),
           First(part) => Len(slots') > dataIndex',
           Len(part) = 2 => subID' = part[2],
           Len(part) # 2 => ((\A q \in Multis : part[1] <= q) => subID' = 1)
    PROVE  Scanned'
<1>1. PICK c : c = Fetch("MIME", part)
  OBVIOUS
<1>2. c.part = part /\ c.type = "MIME"
  BY <1>1 DEF Fetch
<1>3. cmd' = c
  BY <1>1
<1>4. ~InSlot'
  BY DEF InSlot
<1>5. Listed(Passed(c.part))'
  <2>1. Passed(c.part)' = Passed(part)'
    BY <1>2 DEF Passed, Before
  <2>2. PICK l : l = Passed(part)'
    OBVIOUS
  <2>3. Listed(l)'
    BY <2>2 DEF Listed, Described, PartAt, First, Over
  <2>4. Passed(c.part)' = l
    BY <2>1, <2>2
  <2> QED
    BY <2>3, <2>4, ListedIs
<1>6. Scanning'
  BY <1>2, <1>3, <1>4, <1>5, ScanningAt
<1>7. ~BeforeScan' /\ ~AfterScan'
  BY <1>2, <1>3 DEF BeforeScan, AfterScan, Early, Bodies
<1> QED
  BY <1>6, <1>7 DEF Scanned

\* The header of the mail is there: the scan starts with the first part.
LEMMA HeaderScanned ==
    ASSUME IInv, Scanned, result = "none" \/ stage = "done", HeaderAnswered
    PROVE  Scanned'
<1>1. /\ stage = "decide" /\ cmd.type = "HEADER"
      /\ UNCHANGED <<ask, subID, slots, attCount, dataIndex, result>>
  BY DEF HeaderAnswered, Answered, scan
<1>2. result' # "true"
  BY <1>1
<1>3. CASE ~wait.valid
  <2>1. stage' = "out"
    BY <1>3 DEF HeaderAnswered, GiveUp
  <2> QED
    BY <1>2, <2>1, ScannedEnd
<1>4. CASE ~OneMulti
  <2>1. ~OneMulti'
    BY <1>1, <1>4, AskFixed DEF OneMulti
  <2> QED
    BY <2>1 DEF Scanned
<1>5. CASE wait.valid /\ OneMulti
  <2>1. NotScanned
    BY <1>1, <1>5 DEF Scanned, BeforeScan, Busy
  <2>2. stage' = "send" /\ cmd' = Fetch("MIME", <<1>>)
    BY <1>5 DEF HeaderAnswered, Go, OneMulti
  <2>3. ask \in Asks
    BY DEF IInv, CallTypes
  <2>4. Len(<<1>>) = 1 /\ <<1>>[1] = 1
    OBVIOUS
  <2>5. Within(<<1>>)
    <3>1. Len(ask.mail) \in Nat
      BY <2>3, MailIs
    <3> QED
      BY <2>4, <3>1 DEF Within
  <2>6. Len(<<>>) = 0 /\ DOMAIN <<>> = {}
    OBVIOUS
  <2>7. Listed(Passed(<<1>>))'
    <3>1. Passed(<<1>>)' = <<>>
      BY <1>1, <2>3, AskFixed, PassedFirst
    <3>2. dataIndex' = 0 /\ 1 .. 0 = {}
      BY <1>1, <2>1 DEF NotScanned
    <3> QED
      BY <2>6, <3>1, <3>2 DEF Listed
  <2>8. attCount' = Cardinality(Attached')
    <3>1. Attached' = {} /\ attCount' = 0
      BY <1>1, <2>1, <2>6 DEF Attached, NotScanned
    <3> QED
      BY <3>1, FS_EmptySet
  <2>9. ~(Len(slots') > dataIndex') /\ subID' = 1
    BY <1>1, <2>1, <2>6 DEF NotScanned
  <2>10. ~First(<<1>>)
    BY <2>4 DEF First
  <2> QED
    BY <1>1, <1>2, <2>2, <2>4, <2>5, <2>7, <2>8, <2>9, <2>10, ScanGoesOn
<1> QED
  BY <1>3, <1>4, <1>5

\* A part without a type is asked for again, until the connection is lost.
LEMMA StuckAnswered ==
    ASSUME IInv, Coming, Stuck, PartAnswered, stage = "decide", cmd.type = "MIME",
           result' # "true", conn' = conn, ask' = ask
    PROVE  Scanned'
<1>1. CASE wait.valid
  <2>1. /\ slots \in Seq(SlotTypes) /\ Len(slots) # dataIndex
    <3>1. slots \in Seq(SlotTypes) /\ dataIndex \in 0 .. Len(slots)
      BY DEF IInv, ScanTypes
    <3>2. Len(slots) \in Nat
      BY <3>1, LenProperties
    <3>3. PICK x \in Nat, y \in Nat : x = Len(slots) /\ y = dataIndex
      BY <3>1, <3>2
    <3>4. x > y
      BY <3>3 DEF Stuck
    <3>5. x # y
      BY <3>4
    <3> QED
      BY <3>1, <3>3, <3>5
  <2>2. /\ slots' = slots /\ dataIndex' = dataIndex /\ stage' = "send" /\ cmd' = cmd
    BY <1>1, <2>1 DEF PartAnswered, Go, Stuck
  <2>3. Stuck'
    BY <2>2 DEF Stuck, Exists, PartAt
  <2>4. ~BeforeScan' /\ ~AfterScan'
    BY <2>2 DEF BeforeScan, AfterScan, Early, Bodies, Busy
  <2> QED
    BY <2>3, <2>4 DEF Scanned
<1>2. CASE ~wait.valid
  <2>1. stage' = "mount"
    BY <1>2 DEF PartAnswered
  <2>2. Due
    BY DEF Stuck, Due, Holds, Awaited
  <2>3. conn = "down"
    BY <1>2, <2>2 DEF Coming
  <2>4. Lost' /\ ~BeforeScan' /\ ~InScan'
    BY <2>1, <2>3 DEF Lost, BeforeScan, InScan, Busy
  <2> QED
    BY <2>4 DEF Scanned
<1> QED
  BY <1>1, <1>2

LEMMA PartScanned ==
    ASSUME IInv, Coming, Scanned, result = "none" \/ stage = "done", PartAnswered
    PROVE  Scanned'
<1>1. /\ stage = "decide" /\ cmd.type = "MIME" /\ Len(cmd.part) = 1
      /\ UNCHANGED <<ask, subID, attCount, conn, result>>
  BY DEF PartAnswered, Answered, outcome, link
<1>2. result' # "true" /\ ~Lost
  BY <1>1 DEF Lost
<1>3. CASE ~OneMulti
  <2>1. ~OneMulti'
    BY <1>1, <1>3, AskFixed DEF OneMulti
  <2> QED
    BY <2>1 DEF Scanned
<1>5. CASE OneMulti /\ Stuck
  BY <1>1, <1>2, <1>5, StuckAnswered
<1>4. CASE OneMulti /\ ~Stuck
  <2>1. Scanning
    BY <1>1, <1>2, <1>4 DEF Scanned, InScan, Busy
  <2>2. ask \in Asks /\ cmd.part \in Seq(Nat)
    BY DEF IInv, CallTypes, Commands
  <2>p. PICK p : p = cmd.part[1]
    OBVIOUS
  <2>3. cmd.part = <<p>> /\ p \in Nat
    BY <1>1, <2>2, <2>p, PathIs
  <2>a. Len(<<p>>) = 1 /\ <<p>>[1] = p
    OBVIOUS
  <2>n. PICK n \in Nat : n = Len(ask.mail)
    BY <2>2, MailLength
  <2>4. p \in 1 .. n + 1 /\ Listed(Passed(<<p>>))
        /\ attCount = Cardinality(Attached)
        /\ ((\A q \in Multis : p <= q) => subID = 1)
    BY <1>1, <2>1, <2>3, <2>n, <2>p DEF Scanning, Within
  <2>e. Exists(<<p>>) <=> p \in 1 .. n
    BY <2>2, <2>a, <2>n, MailLength DEF Exists
  <2>5. /\ wait.valid => /\ Exists(<<p>>) /\ Len(slots) = dataIndex + 1
                         /\ slots[dataIndex + 1] = Described(<<p>>)
        /\ ~wait.valid => conn = "down" \/ (~Exists(<<p>>) /\ Len(slots) = dataIndex)
        /\ dataIndex \in Nat /\ Len(slots) \in Nat
    BY <1>1, <2>1, <2>3, PartMeans
  <2>6. CASE ~wait.valid
    <3>1. stage' = "mount" /\ UNCHANGED <<slots, dataIndex>>
      BY <2>6 DEF PartAnswered
    <3>2. ~BeforeScan' /\ ~InScan'
      BY <3>1 DEF BeforeScan, InScan, Busy
    <3>3. CASE conn = "down"
      <4>1. Lost'
        BY <1>1, <3>1, <3>3 DEF Lost
      <4> QED
        BY <3>2, <4>1 DEF Scanned
    <3>4. CASE conn # "down"
      <4>1. p = n + 1 /\ Len(slots) = dataIndex
        BY <2>4, <2>5, <2>6, <2>e, <3>4
      <4>2. Passed(<<p>>) = AllLeaves
        BY <2>2, <2>n, <4>1, PassedFirst
      <4>3. Listed(AllLeaves)
        BY <2>4, <4>2 DEF Listed
      <4>4. Complete'
        BY <1>1, <2>4, <3>1, <4>1, <4>3, CompleteAt
      <4> QED
        BY <3>2, <4>4 DEF Scanned
    <3> QED
      BY <3>3, <3>4
  <2>7. CASE wait.valid
    <3>1. /\ p \in 1 .. n /\ Exists(<<p>>) /\ Len(slots) = dataIndex + 1
          /\ slots[dataIndex + 1] = Described(<<p>>)
      BY <2>5, <2>7, <2>e
    <3>k. PICK type : type = slots[dataIndex + 1].type
      OBVIOUS
    <3>a. ~First(<<p>>)
      BY <2>a DEF First
    <3>2. type = ask.mail[p].type
      BY <2>a, <3>1, <3>a, <3>k DEF Described, PartAt
    <3>3. type = "multi" <=> p \in Multis
      BY <2>2, <2>n, <3>1, <3>2, MailIs DEF Multis
    <3>4. Len(slots) # dataIndex /\ Len(slots) > dataIndex
      <4>1. PICK x \in Nat, y \in Nat : x = Len(slots) /\ y = dataIndex
        BY <2>5
      <4>2. x = y + 1
        BY <3>1, <4>1
      <4>3. x # y /\ x > y
        BY <4>2
      <4> QED
        BY <4>1, <4>3
    <3>5. /\ slots' = slots
          /\ dataIndex' = IF type \in {"", "multi"} THEN dataIndex ELSE dataIndex + 1
          /\ stage' = "send"
          /\ cmd' = CASE type = ""      -> cmd
                      [] type = "multi" -> Fetch("MIME", <<p, subID>>)
                      [] OTHER          -> Fetch("MIME", <<p + 1>>)
      BY <2>7, <2>p, <3>4, <3>k DEF PartAnswered, Go
    <3>6. attCount' = Cardinality(Attached')
      <4>1. Attached' = Attached
        BY <3>5 DEF Attached
      <4> QED
        BY <1>1, <2>4, <4>1
    <3>7. CASE type = ""
      <4>1. cmd' = cmd /\ dataIndex' = dataIndex
        BY <3>5, <3>7
      <4>2. Len(cmd.part) = 1 /\ Exists(cmd.part) /\ PartAt(cmd.part).type = ""
        BY <1>1, <2>3, <2>a, <3>1, <3>2, <3>7 DEF PartAt
      <4>3. Len(slots) > dataIndex /\ slots[dataIndex + 1].type = ""
        BY <3>4, <3>7, <3>k
      <4>4. Stuck'
        BY <1>1, <3>5, <4>1, <4>2, <4>3 DEF Stuck, Exists, PartAt
      <4>5. ~BeforeScan' /\ ~AfterScan'
        BY <1>1, <1>2, <3>5, <4>1 DEF BeforeScan, AfterScan, Early, Bodies, Busy
      <4> QED
        BY <4>4, <4>5 DEF Scanned
    <3>8. CASE type = "multi"
      <4>1. p \in Multis /\ p \in Nat
        BY <2>3, <3>3, <3>8
      <4>2. \A q \in Multis : q = p
        BY <1>4, <2>2, <4>1, OneMultiIs DEF OneMulti
      <4>3. subID = 1
        <5>1. \A q \in Multis : p <= q
          BY <4>1, <4>2
        <5> QED
          BY <2>4, <5>1
      <4>4. cmd' = Fetch("MIME", <<p, 1>>) /\ dataIndex' = dataIndex
        BY <3>5, <3>8, <4>3
      <4>5. Passed(<<p, 1>>) = Passed(<<p>>)
        BY <2>2, <2>n, <3>1, PassedPart
      <4>6. Listed(Passed(<<p, 1>>))'
        BY <1>1, <2>4, <3>5, <4>4, <4>5, ListedNext
      <4>7. Len(<<p, 1>>) = 2 /\ <<p, 1>>[1] = p /\ <<p, 1>>[2] = 1
        BY <4>1
      <4>8. /\ Len(ask.mail[p].subs) \in Nat /\ Len(ask.mail[p].subs) # 0
            /\ DOMAIN ask.mail[p].subs = 1 .. Len(ask.mail[p].subs)
            /\ DOMAIN ask.mail = 1 .. n
        BY <2>2, <2>n, <3>1, <4>1, MailIs
      <4>9. Within(<<p, 1>>)
        BY <2>4, <2>n, <4>1, <4>7, <4>8 DEF Within
      <4>10. Exists(<<p, 1>>)
        BY <3>1, <4>7, <4>8 DEF Exists
      <4>11. /\ Len(slots') = dataIndex' + 1 /\ Len(slots') > dataIndex'
             /\ slots'[dataIndex' + 1] = Described(<<<<p, 1>>[1]>>)
             /\ First(<<p, 1>>)
        <5>1. Len(slots') = dataIndex' + 1 /\ Len(slots') > dataIndex'
          BY <3>1, <3>4, <3>5, <4>4
        <5>2. slots'[dataIndex' + 1] = Described(<<p>>)
          BY <3>1, <3>5, <4>4
        <5> QED
          BY <4>7, <5>1, <5>2 DEF First
      <4>12. subID' = <<p, 1>>[2]
        BY <1>1, <4>3, <4>7
      <4> QED
        BY <1>1, <1>2, <3>5, <3>6, <4>4, <4>6, <4>7, <4>9, <4>10, <4>11, <4>12, ScanGoesOn
    <3>9. CASE type \notin {"", "multi"}
      <4>1. cmd' = Fetch("MIME", <<p + 1>>) /\ dataIndex' = dataIndex + 1
        BY <3>5, <3>9
      <4>2. /\ Passed(<<p>>) \in Seq(Paths) /\ <<p>> \in Paths
            /\ Passed(<<p + 1>>) = Append(Passed(<<p>>), <<p>>)
        BY <2>2, <2>n, <3>1, <3>3, <3>9, PassedPart
      <4>3. Listed(Passed(<<p + 1>>))'
        BY <1>1, <2>4, <2>5, <3>1, <3>5, <4>1, <4>2, ListedOneMore
      <4>4. Len(<<p + 1>>) = 1 /\ <<p + 1>>[1] = p + 1
        OBVIOUS
      <4>5. p + 1 \in 1 .. n + 1
        BY <3>1
      <4>6. Within(<<p + 1>>)
        BY <2>n, <4>4, <4>5 DEF Within
      <4>7. ~(Len(slots') > dataIndex')
        <5>1. PICK x : x = Len(slots)
          OBVIOUS
        <5>2. x = dataIndex + 1 /\ dataIndex \in Nat
          BY <2>5, <3>1, <5>1
        <5>3. Len(slots') = x /\ dataIndex' = x
          BY <3>5, <4>1, <5>1, <5>2
        <5> QED
          BY <5>2, <5>3
      <4>8. Len(<<p + 1>>) # 2 /\ ((\A q \in Multis : <<p + 1>>[1] <= q) => subID' = 1)
        <5>1. \A q \in Multis : q \in Nat
          BY <2>2, <2>n, MailLength
        <5>2. (\A q \in Multis : p + 1 <= q) => \A q \in Multis : p <= q
          BY <2>3, <5>1
        <5> QED
          BY <1>1, <2>4, <4>4, <5>2
      <4>9. ~First(<<p + 1>>)
        BY <4>4 DEF First
      <4> QED
        BY <1>1, <1>2, <3>5, <3>6, <4>1, <4>3, <4>6, <4>7, <4>8, <4>9, ScanGoesOn
    <3> QED
      BY <3>7, <3>8, <3>9
  <2> QED
    BY <2>6, <2>7
<1> QED
  BY <1>3, <1>4, <1>5

LEMMA SubScanned ==
    ASSUME IInv, Coming, Scanned, result = "none" \/ stage = "done", SubAnswered
    PROVE  Scanned'
<1>1. /\ stage = "decide" /\ cmd.type = "MIME" /\ Len(cmd.part) = 2 /\ stage' = "send"
      /\ UNCHANGED <<ask, slots, attCount, conn, result>>
  BY DEF SubAnswered, Answered, NextSub, LeaveMulti, Go, outcome, link
<1>2. result' # "true" /\ ~Lost
  BY <1>1 DEF Lost
<1>3. CASE ~OneMulti
  <2>1. ~OneMulti'
    BY <1>1, <1>3, AskFixed DEF OneMulti
  <2> QED
    BY <2>1 DEF Scanned
<1>4. CASE OneMulti
  <2>1. Scanning
    BY <1>1, <1>2, <1>4 DEF Scanned, InScan, Busy, Stuck
  <2>2. ask \in Asks /\ cmd.part \in Seq(Nat)
    BY DEF IInv, CallTypes, Commands
  <2>p. PICK p : p = cmd.part[1]
    OBVIOUS
  <2>s. PICK s : s = cmd.part[2]
    OBVIOUS
  <2>3. cmd.part = <<p, s>> /\ p \in Nat /\ s \in Nat
    BY <1>1, <2>2, <2>p, <2>s, PathIs
  <2>a. Len(<<p, s>>) = 2 /\ <<p, s>>[1] = p /\ <<p, s>>[2] = s
    OBVIOUS
  <2>4. /\ p \in Multis /\ s \in 1 .. Len(ask.mail[p].subs) + 1
        /\ p \in 1 .. Len(ask.mail) + 1
        /\ Listed(Passed(<<p, s>>)) /\ attCount = Cardinality(Attached) /\ subID = s
    BY <1>1, <2>1, <2>3, <2>p, <2>s DEF Scanning, Within
  <2>m. PICK m \in Nat : m = Len(ask.mail[p].subs)
    BY <2>2, <2>4, MailIs
  <2>n. PICK n \in Nat : n = Len(ask.mail)
    BY <2>2, MailLength
  <2>6. /\ p \in 1 .. n /\ s \in 1 .. m + 1
        /\ DOMAIN ask.mail = 1 .. n /\ DOMAIN ask.mail[p].subs = 1 .. m
    BY <2>2, <2>4, <2>m, <2>n, MailIs
  <2>e. Exists(<<p, s>>) <=> s \in 1 .. m
    BY <2>6, <2>a DEF Exists
  <2>5. /\ wait.valid => /\ Exists(<<p, s>>) /\ Len(slots) = dataIndex + 1
                         /\ slots[dataIndex + 1] = Described(<<p, s>>)
        /\ ~wait.valid => conn = "down" \/ (~Exists(<<p, s>>) /\ Len(slots) = dataIndex)
        /\ dataIndex \in Nat /\ Len(slots) \in Nat
    BY <1>1, <2>1, <2>3, PartMeans
  <2>7. attCount' = Cardinality(Attached')
    <3>1. Attached' = Attached
      BY <1>1 DEF Attached
    <3> QED
      BY <1>1, <2>4, <3>1
  <2>8. /\ Passed(<<p, s>>) \in Seq(Paths) /\ <<p, s>> \in Paths
        /\ Passed(<<p, s + 1>>) = Append(Passed(<<p, s>>), <<p, s>>)
        /\ s = m + 1 => Passed(<<p, s>>) = Passed(<<p + 1>>)
    <3>1. s \in Nat \ {0}
      BY <2>3, <2>6
    <3> QED
      BY <2>2, <2>4, <2>m, <3>1, PassedSub
  <2>9. CASE wait.valid
    <3>1. /\ s \in 1 .. m /\ Len(slots) = dataIndex + 1
          /\ slots[dataIndex + 1] = Described(<<p, s>>)
      BY <2>5, <2>9, <2>e
    <3>2. /\ subID' = subID + 1 /\ dataIndex' = dataIndex + 1
          /\ cmd' = Fetch("MIME", <<p, subID + 1>>)
      BY <2>9, <2>p DEF SubAnswered, NextSub, Go
    <3>3. cmd' = Fetch("MIME", <<p, s + 1>>)
      BY <2>4, <3>2
    <3>4. Listed(Passed(<<p, s + 1>>))'
      BY <1>1, <2>4, <2>5, <2>8, <3>1, <3>2, ListedOneMore
    <3>5. Len(<<p, s + 1>>) = 2 /\ <<p, s + 1>>[1] = p /\ <<p, s + 1>>[2] = s + 1
      OBVIOUS
    <3>6. s + 1 \in 1 .. m + 1 /\ p \in 1 .. n + 1
      BY <2>6, <3>1
    <3>7. Within(<<p, s + 1>>)
      BY <2>4, <2>m, <2>n, <3>5, <3>6 DEF Within
    <3>8. ~(Len(slots') > dataIndex')
      <4>1. PICK x : x = Len(slots)
        OBVIOUS
      <4>2. x = dataIndex + 1 /\ dataIndex \in Nat
        BY <2>5, <3>1, <4>1
      <4>3. Len(slots') = x /\ dataIndex' = x
        BY <1>1, <3>2, <4>1, <4>2
      <4> QED
        BY <4>2, <4>3
    <3>9. subID' = <<p, s + 1>>[2]
      BY <2>4, <3>2, <3>5
    <3>10. ~First(<<p, s + 1>>)
      BY <3>1, <3>5 DEF First
    <3> QED
      BY <1>1, <1>2, <2>7, <3>3, <3>4, <3>5, <3>7, <3>8, <3>9, <3>10, ScanGoesOn
  <2>10. CASE ~wait.valid
    <3>1. UNCHANGED <<subID, dataIndex>> /\ cmd' = Fetch("MIME", <<p + 1>>)
      BY <2>10, <2>p DEF SubAnswered, LeaveMulti, Go
    <3>2. CASE conn = "down"
      <4>1. Lost'
        BY <1>1, <3>2 DEF Lost
      <4>2. cmd'.type = "MIME"
        BY <3>1 DEF Fetch
      <4>3. ~BeforeScan'
        BY <1>1, <4>2 DEF BeforeScan, Early
      <4> QED
        BY <4>1, <4>3 DEF Scanned
    <3>3. CASE conn # "down"
      <4>1. s = m + 1 /\ Len(slots) = dataIndex
        BY <2>5, <2>6, <2>10, <2>e, <3>3
      <4>2. Passed(<<p + 1>>) = Passed(<<p, s>>)
        BY <2>8, <4>1
      <4>3. Listed(Passed(<<p + 1>>))'
        BY <1>1, <2>4, <3>1, <4>2, ListedNext
      <4>4. Len(<<p + 1>>) = 1 /\ <<p + 1>>[1] = p + 1
        OBVIOUS
      <4>5. p + 1 \in 1 .. n + 1
        BY <2>6
      <4>6. Within(<<p + 1>>)
        BY <2>n, <4>4, <4>5 DEF Within
      <4>7. ~(Len(slots') > dataIndex')
        <5>1. PICK x : x = Len(slots)
          OBVIOUS
        <5>2. x = dataIndex /\ dataIndex \in Nat
          BY <2>5, <4>1, <5>1
        <5>3. Len(slots') = x /\ dataIndex' = x
          BY <1>1, <3>1, <5>1, <5>2
        <5> QED
          BY <5>2, <5>3
      <4>8. Len(<<p + 1>>) # 2 /\ ((\A q \in Multis : <<p + 1>>[1] <= q) => subID' = 1)
        <5>1. p \in Multis /\ ~(p + 1 <= p)
          BY <2>3, <2>4
        <5> QED
          BY <4>4, <5>1
      <4>9. ~First(<<p + 1>>)
        BY <4>4 DEF First
      <4> QED
        BY <1>1, <1>2, <2>7, <3>1, <4>3, <4>6, <4>7, <4>8, <4>9, ScanGoesOn
    <3> QED
      BY <3>2, <3>3
  <2> QED
    BY <2>9, <2>10
<1> QED
  BY <1>3, <1>4

LEMMA ScannedStep ==
    ASSUME IInv, Coming, Headed, Scanned, [Next]_vars, ~late', ~refused'
    PROVE  Scanned'
<1>1. ~late
  BY LateStays
<1>2. (result = "none" \/ stage = "done") /\ (Busy /\ cmd.type = "SEARCH" => ~ask.uid)
  BY DEF Headed
<1>3. CASE Send
  BY <1>1, <1>3, SendScanned
<1>4. CASE FirstByte \/ TimeOut \/ EndWait
  BY <1>4, WaitScanned
<1>5. CASE Serve \/ Deliver \/ Disconnect \/ UNCHANGED vars
  BY <1>5, ServerScanned
<1>6. CASE ConnectFails \/ ConnectSucceeds \/ NullStream \/ Out
  BY <1>2, <1>6, EndsScanned
<1>7. CASE LoginAnswered \/ ListAnswered \/ ExamineAnswered \/ SearchAnswered
  BY <1>2, <1>7, EarlyScanned
<1>8. CASE ReadLine
  BY <1>1, <1>2, <1>8, ReadScanned
<1>9. CASE HeaderAnswered
  BY <1>2, <1>9, HeaderScanned
<1>10. CASE PartAnswered
  BY <1>2, <1>10, PartScanned
<1>11. CASE SubAnswered
  BY <1>2, <1>11, SubScanned
<1>12. CASE StartBodies \/ PickPart \/ BodyAnswered \/ LogoutAnswered
  BY <1>2, <1>12, AfterScanned
<1> QED
  BY <1>3, <1>4, <1>5, <1>6, <1>7, <1>8, <1>9, <1>10, <1>11, <1>12 DEF Next, Client, Server

LEMMA InitScanned == Init => Scanned
<1> SUFFICES ASSUME Init PROVE Scanned
  OBVIOUS
<1>1. NotScanned
  BY DEF Init, NotScanned
<1>2. ~InScan /\ ~AfterScan
  BY DEF Init, InScan, AfterScan, Busy
<1> QED
  BY <1>1, <1>2 DEF Scanned

\* What the end of the scan says of the slots.
LEMMA ScannedIsEveryLeaf ==
    ASSUME IInv, result = "none" \/ stage = "done", ~late /\ ~refused => Scanned
    PROVE  EveryLeaf
<1> SUFFICES ASSUME Undisturbed, OneMulti
             PROVE  /\ [k \in DOMAIN slots |-> slots[k].part] = AllLeaves
                    /\ \A k \in DOMAIN slots :
                          /\ slots[k].disp = PartAt(slots[k].part).disp
                          /\ PartAt(slots[k].part).type # "" =>
                                slots[k].type = PartAt(slots[k].part).type
                    /\ attCount = Cardinality({k \in DOMAIN slots : slots[k].disp \in Attachment})
  BY DEF EveryLeaf, OneMulti
<1>1. result = "true" /\ stage = "done"
  BY DEF Undisturbed
<1>2. Complete
  BY <1>1 DEF Undisturbed, Scanned, AfterScan, Lost
<1>3. ask \in Asks /\ slots \in Seq(SlotTypes)
  BY DEF IInv, CallTypes, ScanTypes
<1>n. PICK n \in Nat : n = Len(slots)
  BY <1>3, LenProperties
<1>l. PICK l : l = AllLeaves
  OBVIOUS
<1>4. l \in Seq(Paths)
  <2>1. Len(ask.mail) \in 0 .. Len(ask.mail)
    BY <1>3, MailIs
  <2> QED
    BY <1>3, <1>l, <2>1, BeforeMore
<1>5. /\ DOMAIN slots = 1 .. n /\ Len(l) = n
      /\ \A k \in 1 .. n : slots[k] = Described(l[k])
  BY <1>2, <1>3, <1>n, <1>l, LenProperties DEF Complete, Listed
<1>6. \A k \in 1 .. n : /\ slots[k].part = l[k] /\ slots[k].disp = PartAt(l[k]).disp
                        /\ PartAt(l[k]).type # "" => slots[k].type = PartAt(l[k]).type
  <2> SUFFICES ASSUME NEW k \in 1 .. n
               PROVE  /\ slots[k].part = l[k] /\ slots[k].disp = PartAt(l[k]).disp
                      /\ PartAt(l[k]).type # "" => slots[k].type = PartAt(l[k]).type
    OBVIOUS
  <2>1. PICK s : s = slots[k]
    OBVIOUS
  <2>2. PICK q : q = l[k]
    OBVIOUS
  <2>3. PICK p : p = PartAt(q)
    OBVIOUS
  <2>4. s = [part |-> q, type |-> IF First(q) THEN Over("multi", p.type) ELSE p.type,
             disp |-> p.disp]
    BY <1>5, <2>1, <2>2, <2>3 DEF Described
  <2>5. s.part = q /\ s.disp = p.disp /\ (p.type # "" => s.type = p.type)
    BY <2>4 DEF Over
  <2> QED
    BY <2>1, <2>2, <2>3, <2>5
<1> DEFINE f == [k \in 1 .. n |-> slots[k].part]
<1>7. (\A k \in 1 .. n : f[k] = l[k]) /\ DOMAIN f = 1 .. n
  BY <1>6
<1>8. \A k \in 1 .. n : l[k] \in Paths
  BY <1>4, <1>5, ElementOfSeq
<1>9. f \in [1 .. n -> Paths]
  BY <1>6, <1>8
<1> HIDE DEF f
<1>10. f \in Seq(Paths) /\ Len(f) = n
  BY <1>9, Filling
<1>11. f = l
  BY <1>4, <1>5, <1>7, <1>10, SeqEqual
<1>12. [k \in DOMAIN slots |-> slots[k].part] = AllLeaves
  BY <1>5, <1>11, <1>l DEF f
<1>13. attCount = Cardinality({k \in DOMAIN slots : slots[k].disp \in Attachment})
  BY <1>2 DEF Complete, Attached
<1> QED
  BY <1>5, <1>6, <1>12, <1>13

-----------------------------------------------------------------------------
\* The inductive invariant holds of every call of readMail, whatever the server
\* does: what is under way, what a wait knows, and where readMail is.
THEOREM Inductive == Spec => []IInv
<1>1. Init => IInv
  BY InitIInv
<1>2. IInv /\ [Next]_vars => IInv'
  BY NextIInv
<1> QED
  BY <1>1, <1>2, PTL DEF Spec, Safe

\* The vectors readMail and waitIMAPResponse index by messageDataIndex and j
\* are indexed within their bounds, and no message has two headers, for any
\* mail and any number of messages, whatever was late.
THEOREM TypeCorrect == Spec => []TypeOK
BY Inductive, IInvTypes, PTL

\* readMail puts into a header, a text or a file only what the reply to its
\* own command brought, as long as no wait was given up.
THEOREM RepliesAreOwn == Spec => []OwnReplies
<1>1. IInv => OwnReplies
  BY DEF IInv
<1> QED
  BY <1>1, Inductive, PTL

\* A readMail that returns true has the header of every message, unless a wait
\* was given up or the server refused something it holds; and it has every
\* text that was asked for and has no disposition, or the status says that one
\* is missing, whatever was late, refused or lost: for any mail and any number
\* of messages.
THEOREM NothingIsMissing == Spec => []NothingMissing
<1>1. Init => Undisturbing /\ Texts
  BY InitUndisturbing, InitTexts
<1>2. IInv /\ IInv' /\ Undisturbing /\ [Next]_vars => Undisturbing'
  BY UndisturbingStep
<1>3. IInv /\ Texts /\ [Next]_vars => Texts'
  BY TextsStep
<1>4. IInv /\ Undisturbing /\ Texts => NothingMissing
  BY UndisturbedIsWhole
<1> QED
  BY <1>1, <1>2, <1>3, <1>4, Inductive, PTL DEF Spec, Safe

\* After a readMail that returns true, in which no wait was given up and the
\* server refused nothing it holds, the slots are the leaves of the mail in
\* their order, each with its disposition and the type its header gives, and
\* the attachments are counted: for any mail with at most one multipart, of
\* any length.
THEOREM EveryLeafIsFound == Spec => []EveryLeaf
<1> DEFINE Found == ~late /\ ~refused => Scanned
<1>1. Init => Undisturbing /\ Found
  BY InitUndisturbing, InitScanned
<1>2. IInv /\ IInv' /\ Undisturbing /\ Found /\ [Next]_vars => Undisturbing' /\ Found'
  <2> SUFFICES ASSUME IInv, IInv', Undisturbing, Found, [Next]_vars
               PROVE  Undisturbing' /\ Found'
    OBVIOUS
  <2>1. Undisturbing'
    BY UndisturbingStep
  <2>2. ASSUME ~late', ~refused' PROVE Scanned'
    <3>1. ~late /\ ~refused
      BY <2>2, LateStays
    <3>2. Coming /\ Headed
      BY <3>1 DEF Undisturbing
    <3> QED
      BY <2>2, <3>1, <3>2, ScannedStep
  <2> QED
    BY <2>1, <2>2
<1>3. IInv /\ Undisturbing /\ Found => EveryLeaf
  <2> SUFFICES ASSUME IInv, Undisturbing, Found, Undisturbed PROVE EveryLeaf
    BY DEF EveryLeaf
  <2>1. result = "none" \/ stage = "done"
    BY DEF Undisturbing, Undisturbed, Headed
  <2> QED
    BY <2>1, ScannedIsEveryLeaf
<1> HIDE DEF Found
<1> QED
  BY <1>1, <1>2, <1>3, Inductive, PTL DEF Spec, Safe

=============================================================================
