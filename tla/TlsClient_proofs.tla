-------------------------- MODULE TlsClient_proofs --------------------------
(***************************************************************************)
(* TlsClient keeps its types, releases what it takes, and is a MailLink.   *)
(*                                                                         *)
(* What has to be known beside Released is what each step of               *)
(* start_ssl_client finds: that it is not connected, whether the socket is *)
(* open, and which contexts the steps before it filled.                    *)
(***************************************************************************)
EXTENDS TlsClient, SequenceTheorems, TLAPS

\* The contexts that are filled when a step begins.
HeldAt(step) ==
    CASE step = "config" -> {"entropy", "drbg"}
      [] step = "ca" -> {"entropy", "drbg", "conf"}
      [] step = "hostname" -> {"entropy", "drbg", "conf"}
      [] step \in {"setup", "handshake"} -> Contexts
      [] OTHER -> {}

\* Where the program is, and what it holds there.
Starting ==
    pc # "rest" =>
       /\ ~connected
       /\ open = (pc # "socket")
       /\ held \ {"ca"} = HeldAt(pc)
       /\ pc = "ca" => setup.ca

\* A CA chain comes from a CA; a connection has no plain text to come.
Safe == ("ca" \in held => setup.ca) /\ (connected => due = <<>>)

IInv == TypeOK /\ Released /\ Starting /\ Safe

-----------------------------------------------------------------------------
\* What a write brings is a natural number, no longer than a record or than
\* the buffer, and all of a buffer that fits in a record.
LEMMA CarriedBounds ==
    ASSUME NEW size \in Sizes
    PROVE  /\ Carried(size) \in 0 .. MaxRecord /\ Carried(size) <= size
           /\ size <= MaxRecord => Carried(size) = size
<1> DEFINE S == {size % Word, MaxRecord}
<1>1. /\ size \in Nat /\ size % Word \in Nat /\ size % Word <= size /\ MaxRecord \in Nat
      /\ size <= MaxRecord => size % Word = size
  BY NumbersAssumption
<1>2. \E x \in S : \A y \in S : x <= y
  BY <1>1
<1>3. Min(S) \in S /\ \A y \in S : Min(S) <= y
  <2> HIDE DEF S
  <2> QED BY <1>2 DEF Min
<1> QED
  BY <1>1, <1>3 DEF Carried

\* What the server says in plain text.
LEMMA PieceTypes == \A kind \in Kinds : Pieces(kind) \subseteq Seq(Kinds)
<1> TAKE kind \in Kinds
<1>1. <<kind>> \in Seq(Kinds) /\ <<kind, kind>> \in Seq(Kinds)
  OBVIOUS
<1> QED
  BY <1>1 DEF Pieces

LEMMA AnswerTypes == \A command : Answers(command) \subseteq Seq(Kinds)
<1> TAKE command
<1>1. /\ Pieces("ehlo") \subseteq Seq(Kinds)
      /\ <<"ready">> \in Seq(Kinds) /\ <<"refused">> \in Seq(Kinds) /\ <<>> \in Seq(Kinds)
  BY PieceTypes DEF Kinds
<1> QED
  BY <1>1 DEF Answers

\* stop() on a client with a connection, or in the middle of a start: nothing
\* is held after it but, perhaps, the CA chain of the start.
LEMMA Stopped ==
    ASSUME IInv, NEW h, NEW s, Stop(h, s), pc' = "rest", UNCHANGED <<setup, tries, peer>>,
           h \subseteq Contexts \cup {"ca"}, "ca" \in h => setup.ca,
           s \in BOOLEAN, answer' \in BOOLEAN, connected => open
    PROVE  IInv' /\ connected' = FALSE
<1>1. /\ open' = FALSE /\ sockets' = IF open THEN sockets - 1 ELSE sockets
      /\ connected' = (connected /\ ~open)
      /\ held' = h \cap {"ca"} /\ seeded' = s /\ lost' = lost
      /\ wild' = IF s THEN wild ELSE wild \cup {"entropy"}
  BY DEF Stop
<1>2. /\ sockets = IF open THEN 1 ELSE 0
      /\ lost \in Nat /\ lost <= tries /\ (lost > 0 => setup.ca)
      /\ wild \subseteq {"entropy"}
  BY DEF IInv, TypeOK, Released
<1>3. connected' = FALSE
  BY <1>1
<1>4. sockets' = 0
  BY <1>1, <1>2
<1>5. /\ wild' \subseteq {"entropy"} /\ held' \subseteq {"ca"} /\ ("ca" \in held' => setup'.ca)
      /\ (setup'.ca \/ held' = {})
  BY <1>1, <1>2
<1>6. Released'
  BY <1>1, <1>2, <1>3, <1>4, <1>5 DEF Released
<1>7. Starting' /\ Safe'
  BY <1>3, <1>5 DEF Starting, Safe
<1>8. TypeOK'
  BY <1>1, <1>2, <1>3, <1>4, <1>5 DEF IInv, TypeOK, Contexts, peer
<1> QED
  BY <1>3, <1>6, <1>7, <1>8 DEF IInv

LEMMA StoppedInUse ==
    ASSUME IInv, connected, pc = "rest", Stop(held, seeded), pc' = "rest",
           UNCHANGED <<setup, tries, peer>>, answer' \in BOOLEAN
    PROVE  IInv' /\ connected' = FALSE
<1>1. /\ held \subseteq Contexts \cup {"ca"} /\ ("ca" \in held => setup.ca)
      /\ seeded \in BOOLEAN /\ open
  BY DEF IInv, TypeOK, Released, Safe
<1> QED
  BY <1>1, Stopped

\* The peer moves, or what it sent is read: nothing of the client changes but
\* what is in these sequences.
LEMMA PeerMoves ==
    ASSUME IInv, UNCHANGED <<setup, pc, client, tries, granted, answer>>,
           tcp' \in {"up", "eof", "closed", "reset"},
           queue' \in Seq(0 .. MaxPieces), due' \in Seq(Kinds), sent' \in 0 .. MaxPieces,
           got' \in Seq([size : Sizes, came : 0 .. MaxRecord]), Len(got') <= MaxWrites,
           \A k \in DOMAIN got' : got'[k].came <= got'[k].size,
           connected => due' = <<>>
    PROVE  IInv'
<1>0. UNCHANGED <<setup, pc, connected, open, sockets, held, seeded, lost, wild, tries, granted, answer>>
  BY DEF client
<1>1. TypeOK'
  BY <1>0 DEF IInv, TypeOK
<1>2. Released'
  BY <1>0 DEF IInv, Released
<1>3. Starting'
  BY <1>0 DEF IInv, Starting
<1>4. Safe'
  BY <1>0 DEF IInv, Safe
<1> QED
  BY <1>1, <1>2, <1>3, <1>4 DEF IInv

\* Nothing changes but the last answer.
LEMMA UnchangedClient ==
    ASSUME IInv, UNCHANGED <<setup, pc, client, tries, peer>>, answer' \in BOOLEAN
    PROVE  IInv'
<1>0. UNCHANGED <<setup, pc, connected, open, sockets, held, seeded, lost, wild, tries,
                  tcp, queue, due, granted, sent, got>>
  BY DEF client, peer
<1>1. TypeOK'
  BY <1>0 DEF IInv, TypeOK
<1>2. Released'
  BY <1>0 DEF IInv, Released
<1>3. Starting'
  BY <1>0 DEF IInv, Starting
<1>4. Safe'
  BY <1>0 DEF IInv, Safe
<1> QED
  BY <1>1, <1>2, <1>3, <1>4 DEF IInv

-----------------------------------------------------------------------------
LEMMA InvInit == Init => IInv
<1> SUFFICES ASSUME Init PROVE IInv
  OBVIOUS
<1>1. TypeOK
  <2>1. /\ MaxPieces \in Nat /\ MaxWrites \in Nat /\ MaxConnects \in Nat
    BY NumbersAssumption
  <2>2. /\ setup \in Setups /\ pc \in Steps \cup {"rest"}
        /\ connected \in BOOLEAN /\ open \in BOOLEAN /\ seeded \in BOOLEAN
        /\ granted \in BOOLEAN /\ answer \in BOOLEAN
    BY DEF Init
  <2>3. /\ sockets \in {0, 1} /\ held \subseteq Contexts \cup {"ca"}
        /\ lost \in Nat /\ wild \subseteq Contexts /\ tries \in 0 .. MaxConnects
        /\ tcp \in {"up", "eof", "closed", "reset"}
        /\ queue \in Seq(0 .. MaxPieces)
        /\ due \in Seq(Kinds)
        /\ sent \in 0 .. MaxPieces
        /\ got \in Seq([size : Sizes, came : 0 .. MaxRecord]) /\ Len(got) <= MaxWrites
        /\ \A k \in DOMAIN got : got[k].came <= got[k].size
    BY <2>1 DEF Init
  <2> QED
    BY <2>2, <2>3 DEF TypeOK
<1>2. Released
  <2>1. sockets = IF open THEN 1 ELSE 0
    BY DEF Init
  <2>2. open = connected /\ ~connected /\ held = {}
    BY DEF Init
  <2>3. lost <= tries /\ ~(lost > 0) /\ wild = {}
    BY DEF Init
  <2> QED
    BY <2>1, <2>2, <2>3 DEF Released
<1>3. Starting /\ Safe
  BY DEF Init, Starting, Safe
<1> QED
  BY <1>1, <1>2, <1>3 DEF IInv

\* A new client object takes the place of one without a connection.
LEMMA ConnectStep == ASSUME IInv, Connect PROVE IInv'
<1>1. /\ pc = "rest" /\ ~connected /\ tries < MaxConnects
      /\ tries' = tries + 1 /\ pc' = "socket"
      /\ open' = FALSE /\ held' = {} /\ seeded' = FALSE
      /\ UNCHANGED <<setup, connected, peer, answer>>
  BY DEF Connect
<1>2. lost' = IF "ca" \in held THEN lost + 1 ELSE lost
  BY DEF Connect
<1>3. wild' \subseteq wild \cup {"entropy"}
  BY DEF Connect
<1>4. open = FALSE /\ connected' = FALSE
  BY <1>1 DEF IInv, TypeOK, Released
<1>5. sockets = 0 /\ sockets' = 0
  BY <1>4 DEF Connect, IInv, Released
<1>6. /\ lost' \in Nat /\ lost' <= tries' /\ tries' \in 0 .. MaxConnects
      /\ lost' > 0 => setup.ca
  BY <1>1, <1>2, NumbersAssumption DEF IInv, TypeOK, Released, Safe
<1>7. TypeOK'
  BY <1>1, <1>3, <1>5, <1>6 DEF IInv, TypeOK, Released, Steps, Contexts, peer
<1>8. Released'
  BY <1>1, <1>3, <1>5, <1>6 DEF IInv, Released
<1>9. Starting' /\ Safe'
  BY <1>1, <1>4 DEF Starting, Safe, HeldAt
<1> QED
  BY <1>7, <1>8, <1>9 DEF IInv

\* A step of a start that succeeds: nothing is connected yet, and the next
\* step finds what this one filled.
LEMMA SucceedStep == ASSUME IInv, NEW step \in Steps, Succeed(step) PROVE IInv'
<1>1. /\ pc = step /\ step \in Steps \ (PlainSteps \cup {"handshake"})
      /\ pc' = After(step) /\ held' = held \cup Allocates(step)
      /\ UNCHANGED <<setup, connected, lost, wild, tries, sent, got, answer>>
  BY DEF Succeed
<1>2. /\ ~connected /\ connected' = FALSE /\ held \ {"ca"} = HeldAt(pc)
      /\ pc = "ca" => setup.ca
      /\ setup \in Setups /\ held \subseteq Contexts \cup {"ca"}
  BY <1>1 DEF IInv, Starting, TypeOK, Steps
<1>3. /\ After(step) \in Steps \ {"socket"}
      /\ After(step) = "ca" => setup'.ca
      /\ Allocates(step) \subseteq Contexts \cup {"ca"}
      /\ "ca" \in Allocates(step) => setup.ca
      /\ held' \ {"ca"} = HeldAt(After(step))
  BY <1>1, <1>2 DEF After, Allocates, HeldAt, Steps, PlainSteps, Contexts
<1>4. open' = TRUE /\ sockets' = 1
  <2>1. open <=> step # "socket"
    BY <1>1 DEF IInv, Starting, Steps
  <2>2. CASE step = "socket"
    <3>1. sockets = 0
      BY <2>1, <2>2 DEF IInv, Released
    <3>2. open' = TRUE /\ sockets' = sockets + 1
      BY <2>2 DEF Succeed
    <3> QED
      BY <3>1, <3>2
  <2>3. CASE step # "socket"
    <3>1. sockets = 1 /\ open = TRUE
      BY <2>1, <2>3 DEF IInv, Released, TypeOK
    <3>2. UNCHANGED <<open, sockets>>
      BY <2>3 DEF Succeed
    <3> QED
      BY <3>1, <3>2
  <2> QED
    BY <2>2, <2>3
<1>5. seeded' \in BOOLEAN
  BY DEF Succeed
<1>6. /\ tcp' \in {"up", "eof", "closed", "reset"}
      /\ queue' \in Seq(0 .. MaxPieces)
      /\ due' \in Seq(Kinds)
      /\ granted' \in BOOLEAN
  <2>1. CASE step = "tcp"
    <3>1. /\ tcp' = "up" /\ queue' = <<>> /\ granted' = FALSE
          /\ due' \in IF setup.tls = "at once" THEN {<<>>} ELSE Pieces("greeting")
      BY <2>1 DEF Succeed
    <3>2. Pieces("greeting") \subseteq Seq(Kinds)
      BY PieceTypes DEF Kinds
    <3>3. <<>> \in Seq(Kinds)
      OBVIOUS
    <3>4. due' \in Seq(Kinds)
      BY <3>1, <3>2, <3>3
    <3>5. queue' = <<>>
      BY <3>1
    <3>6. queue' \in Seq(0 .. MaxPieces)
      BY <3>5
    <3>7. tcp' \in {"up", "eof", "closed", "reset"} /\ granted' \in BOOLEAN
      BY <3>1
    <3> QED
      BY <3>4, <3>6, <3>7
  <2>2. CASE step # "tcp"
    BY <2>2 DEF Succeed, IInv, TypeOK
  <2> QED
    BY <2>1, <2>2
<1>7. TypeOK'
  BY <1>1, <1>2, <1>3, <1>4, <1>5, <1>6 DEF IInv, TypeOK, Steps
<1>8. Released'
  BY <1>1, <1>3, <1>4 DEF IInv, Released, Steps
<1>9. Starting' /\ Safe'
  BY <1>1, <1>2, <1>3, <1>4 DEF IInv, Starting, Safe
<1> QED
  BY <1>7, <1>8, <1>9 DEF IInv

LEMMA ReadPlainStep == ASSUME IInv, ReadPlain PROVE IInv'
<1>1. /\ pc \in PlainSteps /\ pc' = After(pc) /\ queue' = <<>>
      /\ UNCHANGED <<setup, client, tries, tcp, sent, got, answer>>
  BY DEF ReadPlain
<1>2. /\ ~connected /\ held \ {"ca"} = {} /\ open = TRUE
  BY <1>1 DEF IInv, Starting, PlainSteps, HeldAt
<1>3. pc' \in Steps \ {"socket", "ca"} /\ HeldAt(pc') = {}
  BY <1>1 DEF PlainSteps, After, HeldAt, Steps
<1>4. due' \in Seq(Kinds) /\ granted' \in BOOLEAN
  <2>1. CASE tcp = "up"
    <3>1. PICK a \in Answers(After(pc)) :
            due' = due \o a /\ granted' = (granted \/ a = <<"ready">>)
      BY <2>1 DEF ReadPlain
    <3>2. a \in Seq(Kinds)
      BY <3>1, AnswerTypes
    <3> QED
      BY <3>1, <3>2 DEF IInv, TypeOK
  <2>2. CASE tcp # "up"
    BY <2>2 DEF ReadPlain, IInv, TypeOK
  <2> QED
    BY <2>1, <2>2
<1>5. TypeOK'
  BY <1>1, <1>3, <1>4 DEF IInv, TypeOK, client
<1>6. Released'
  BY <1>1, <1>3 DEF IInv, Released, Steps, client
<1>7. Starting' /\ Safe'
  BY <1>1, <1>2, <1>3 DEF IInv, Starting, Safe, client
<1> QED
  BY <1>5, <1>6, <1>7 DEF IInv

LEMMA HandshakeStep == ASSUME IInv, Handshake PROVE IInv'
<1>1. /\ pc = "handshake" /\ due = <<>> /\ pc' = "rest" /\ connected' = TRUE
      /\ held' = held \ {"ca"} /\ sent' = 0 /\ got' = <<>>
      /\ UNCHANGED <<setup, open, sockets, seeded, lost, wild, tries, tcp, queue, due, granted, answer>>
  BY DEF Handshake
<1>2. open = TRUE /\ held \ {"ca"} = Contexts
  BY <1>1 DEF IInv, Starting, HeldAt
<1>3. TypeOK'
  <2>1. sent' \in 0 .. MaxPieces /\ got' \in Seq([size : Sizes, came : 0 .. MaxRecord])
        /\ Len(got') <= MaxWrites /\ \A k \in DOMAIN got' : got'[k].came <= got'[k].size
    BY <1>1, NumbersAssumption
  <2> QED
    BY <1>1, <1>2, <2>1 DEF IInv, TypeOK
<1>4. Released'
  BY <1>1, <1>2 DEF IInv, Released
<1>5. Starting' /\ Safe'
  BY <1>1, <1>2 DEF IInv, Starting, Safe, Contexts
<1> QED
  BY <1>3, <1>4, <1>5 DEF IInv

LEMMA StartFailsStep == ASSUME IInv, StartFails PROVE IInv'
<1> DEFINE h == held \cup Allocates(pc)
           s == seeded \/ pc = "seed"
<1>1. /\ pc \in Steps /\ pc' = "rest" /\ Stop(h, s)
      /\ UNCHANGED <<setup, tries, peer, answer>>
  BY DEF StartFails
<1>2. /\ h \subseteq Contexts \cup {"ca"} /\ ("ca" \in h => setup.ca)
      /\ ~connected /\ s \in BOOLEAN
  BY <1>1 DEF IInv, TypeOK, Starting, Safe, Steps, Allocates, Contexts
<1>3. answer' \in BOOLEAN
  BY <1>1 DEF IInv, TypeOK
<1> HIDE DEF h, s
<1> QED
  BY <1>1, <1>2, <1>3, Stopped

LEMMA AskStep == ASSUME IInv, Ask PROVE IInv'
<1>1. /\ pc = "rest" /\ pc' = "rest" /\ answer' = connected'
      /\ UNCHANGED <<setup, tries, peer>>
  BY DEF Ask
<1>2. CASE connected /\ Fails
  <2>1. Stop(held, seeded)
    BY <1>2 DEF Ask
  <2>2. answer' \in BOOLEAN
    BY <1>1, <2>1 DEF Stop
  <2> QED
    BY <1>1, <1>2, <2>1, <2>2, StoppedInUse
<1>3. CASE ~(connected /\ Fails)
  <2>1. UNCHANGED client
    BY <1>3 DEF Ask
  <2>2. answer' \in BOOLEAN
    BY <1>1, <2>1 DEF IInv, TypeOK, client
  <2> QED
    BY <1>1, <2>1, <2>2, UnchangedClient
<1> QED
  BY <1>2, <1>3

LEMMA ReadStep == ASSUME IInv, Read PROVE IInv'
<1>1. /\ pc = "rest" /\ queue # <<>> /\ queue' = Tail(queue)
      /\ UNCHANGED <<setup, pc, client, tries, tcp, due, granted, sent, got, answer>>
  BY DEF Read
<1>2. queue' \in Seq(0 .. MaxPieces)
  BY <1>1 DEF IInv, TypeOK
<1> QED
  BY <1>1, <1>2, PeerMoves DEF IInv, TypeOK, Safe

LEMMA WriteStep == ASSUME IInv, NEW size \in Sizes, Write(size) PROVE IInv'
<1> DEFINE w == [size |-> size, came |-> Carried(size)]
<1>1. /\ Len(got) < MaxWrites /\ got' = Append(got, w)
      /\ UNCHANGED <<setup, pc, client, tries, tcp, queue, due, granted, sent, answer>>
  BY DEF Write
<1>2. w \in [size : Sizes, came : 0 .. MaxRecord] /\ w.came <= w.size
  BY CarriedBounds
<1> HIDE DEF w
<1>3. /\ got \in Seq([size : Sizes, came : 0 .. MaxRecord])
      /\ \A k \in DOMAIN got : got[k].came <= got[k].size
  BY DEF IInv, TypeOK
<1>4. /\ got' \in Seq([size : Sizes, came : 0 .. MaxRecord])
      /\ Len(got') = Len(got) + 1 /\ DOMAIN got' = 1 .. (Len(got) + 1)
      /\ \A k \in DOMAIN got : k \in 1 .. Len(got) /\ got'[k] = got[k]
      /\ got'[Len(got) + 1] = w
  BY <1>1, <1>2, <1>3
<1>5. Len(got') <= MaxWrites
  BY <1>1, <1>3, <1>4, NumbersAssumption
<1>6. \A k \in DOMAIN got' : got'[k].came <= got'[k].size
  <2> TAKE k \in DOMAIN got'
  <2>1. CASE k \in DOMAIN got
    BY <1>3, <1>4, <2>1
  <2>2. CASE k \notin DOMAIN got
    <3>1. k = Len(got) + 1
      BY <1>3, <1>4, <2>2
    <3> QED
      BY <1>2, <1>4, <3>1
  <2> QED
    BY <2>1, <2>2
<1> QED
  BY <1>1, <1>4, <1>5, <1>6, PeerMoves DEF IInv, TypeOK, Safe

LEMMA StopsStep == ASSUME IInv, WriteFails \/ Close PROVE IInv'
<1>1. /\ pc = "rest" /\ connected /\ pc' = "rest" /\ Stop(held, seeded)
      /\ UNCHANGED <<setup, tries, peer, answer>>
  BY DEF WriteFails, Close
<1>2. answer' \in BOOLEAN
  BY <1>1 DEF IInv, TypeOK
<1> QED
  BY <1>1, <1>2, StoppedInUse

\* A piece of plain text arrives; a connection has none to come.
LEMMA DeliverPlainStep == ASSUME IInv, DeliverPlain PROVE IInv'
<1>1. /\ due # <<>> /\ queue' = Append(queue, 0) /\ due' = Tail(due)
      /\ UNCHANGED <<setup, pc, client, tries, tcp, granted, sent, got, answer>>
  BY DEF DeliverPlain
<1>2. queue \in Seq(0 .. MaxPieces) /\ 0 \in 0 .. MaxPieces /\ due \in Seq(Kinds)
  BY NumbersAssumption DEF IInv, TypeOK
<1>3. queue' \in Seq(0 .. MaxPieces)
  BY <1>1, <1>2
<1>4. due' \in Seq(Kinds)
  BY <1>1, <1>2
<1>5. ~connected
  BY <1>1 DEF IInv, Safe
<1> QED
  BY <1>1, <1>3, <1>4, <1>5, PeerMoves DEF IInv, TypeOK

LEMMA DeliverStep == ASSUME IInv, Deliver PROVE IInv'
<1>1. /\ sent < MaxPieces /\ sent' = sent + 1 /\ queue' = Append(queue, sent')
      /\ UNCHANGED <<setup, pc, client, tries, tcp, due, granted, got, answer>>
  BY DEF Deliver
<1>2. sent' \in 0 .. MaxPieces
  BY <1>1, NumbersAssumption DEF IInv, TypeOK
<1>3. queue \in Seq(0 .. MaxPieces)
  BY DEF IInv, TypeOK
<1>4. queue' \in Seq(0 .. MaxPieces)
  BY <1>1, <1>2, <1>3
<1> QED
  BY <1>1, <1>2, <1>4, PeerMoves DEF IInv, TypeOK, Safe

LEMMA PeerClosesStep == ASSUME IInv, PeerCloses PROVE IInv'
<1>1. /\ tcp' \in {"eof", "closed"} /\ due' = <<>>
      /\ UNCHANGED <<setup, pc, client, tries, queue, granted, sent, got, answer>>
  BY DEF PeerCloses
<1>2. due' \in Seq(Kinds)
  BY <1>1
<1> QED
  BY <1>1, <1>2, PeerMoves DEF IInv, TypeOK

LEMMA ResetStep == ASSUME IInv, Reset PROVE IInv'
<1>1. /\ tcp' = "reset" /\ due' = <<>>
      /\ UNCHANGED <<setup, pc, client, tries, granted, sent, got, answer>>
  BY DEF Reset
<1>2. due' \in Seq(Kinds)
  BY <1>1
<1>3. PICK k \in 0 .. Len(queue) : queue' = SubSeq(queue, 1, k)
  BY DEF Reset
<1>4. queue \in Seq(0 .. MaxPieces)
  BY DEF IInv, TypeOK
<1>5. Len(queue) \in Nat
  BY <1>4
<1>6. \A i \in 1 .. Len(queue) : queue[i] \in 0 .. MaxPieces
  BY <1>4, ElementOfSeq
<1>7. k \in Int /\ \A i \in 1 .. k : queue[i] \in 0 .. MaxPieces
  BY <1>5, <1>6
<1>8. SubSeq(queue, 1, k) \in Seq(0 .. MaxPieces)
  BY <1>7, SubSeqProperties
<1> QED
  BY <1>1, <1>2, <1>3, <1>8, PeerMoves DEF IInv, TypeOK

LEMMA InvNext == IInv /\ [Next]_vars => IInv'
<1> SUFFICES ASSUME IInv, [Next]_vars PROVE IInv'
  OBVIOUS
<1>1. CASE Connect
  BY <1>1, ConnectStep
<1>2. CASE \E step \in Steps : Succeed(step)
  BY <1>2, SucceedStep
<1>3. CASE ReadPlain
  BY <1>3, ReadPlainStep
<1>4. CASE Handshake
  BY <1>4, HandshakeStep
<1>5. CASE StartFails
  BY <1>5, StartFailsStep
<1>6. CASE Ask
  BY <1>6, AskStep
<1>7. CASE Read
  BY <1>7, ReadStep
<1>8. CASE \E size \in Sizes : Write(size)
  BY <1>8, WriteStep
<1>9. CASE WriteFails \/ Close
  BY <1>9, StopsStep
<1>10. CASE DeliverPlain
  BY <1>10, DeliverPlainStep
<1>11. CASE Deliver
  BY <1>11, DeliverStep
<1>12. CASE PeerCloses
  BY <1>12, PeerClosesStep
<1>13. CASE Reset
  BY <1>13, ResetStep
<1>14. CASE UNCHANGED vars
  <2>1. UNCHANGED client /\ UNCHANGED <<setup, pc, tries>> /\ UNCHANGED peer /\ UNCHANGED answer
    BY <1>14 DEF vars
  <2>2. answer' \in BOOLEAN
    BY <2>1 DEF IInv, TypeOK
  <2> QED
    BY <2>1, <2>2, UnchangedClient
<1> QED
  BY <1>1, <1>2, <1>3, <1>4, <1>5, <1>6, <1>7, <1>8, <1>9, <1>10, <1>11, <1>12, <1>13, <1>14
  DEF Next

\* Every state that the TLS client reaches satisfies the invariant.
THEOREM Inductive == Spec => []IInv
<1>1. Init => IInv
  BY InvInit
<1>2. IInv /\ [Next]_vars => IInv'
  BY InvNext
<1> QED
  BY <1>1, <1>2, PTL DEF Spec

\* The types, with the bound that no write brings more than a record or than
\* its size.
THEOREM TypeCorrect == Spec => []TypeOK
<1>1. IInv => TypeOK
  BY DEF IInv
<1> QED
  BY <1>1, Inductive, PTL

\* Between calls the device has the socket and the contexts of its connection
\* and no other, whatever step of whatever start failed: only the CA chains
\* of starts that failed stay, and only the entropy context is freed unused.
THEOREM AllReleased == Spec => []Released
<1>1. IInv => Released
  BY DEF IInv
<1> QED
  BY <1>1, Inductive, PTL

-----------------------------------------------------------------------------
\* What is no step of the link: a start, or what comes while there is no link.
LEMMA LinkStutters ==
    ASSUME UNCHANGED <<connected, sent, got, answer>>,
           connected => /\ queue' = queue
                        /\ tcp' \in {"up", "eof"} <=> tcp \in {"up", "eof"}
    PROVE  UNCHANGED Link!vars
<1>1. CASE connected
  <2>1. connected'
    BY <1>1
  <2> QED
    BY <1>1, <2>1 DEF Link!vars
<1>2. CASE ~connected
  <2>1. ~connected'
    BY <1>2
  <2> QED
    BY <1>2, <2>1 DEF Link!vars
<1> QED
  BY <1>1, <1>2

\* The client stops: the link is down, and nothing can be read from it.
LEMMA LinkBreaks ==
    ASSUME IInv, connected' = FALSE, UNCHANGED <<sent, got, answer>>
    PROVE  Link!Break
<1> DEFINE unread == IF connected THEN queue ELSE <<>>
<1>1. unread \in Seq(0 .. MaxPieces)
  <2>1. queue \in Seq(0 .. MaxPieces)
    BY DEF IInv, TypeOK
  <2>2. <<>> \in Seq(0 .. MaxPieces)
    OBVIOUS
  <2>3. unread = queue \/ unread = <<>>
    OBVIOUS
  <2> HIDE DEF unread
  <2> QED
    BY <2>1, <2>2, <2>3
<1>2. 0 \in 0 .. Len(unread) /\ SubSeq(unread, 1, 0) = <<>>
  <2> HIDE DEF unread
  <2>1. Len(unread) \in Nat
    BY <1>1
  <2> QED
    BY <2>1, SubSeqEmpty
<1> QED
  BY <1>2 DEF Link!Break

LEMMA AskLink == ASSUME IInv, Ask PROVE Link!Ask
<1>1. answer' = connected' /\ UNCHANGED <<tcp, queue, sent, got>>
  BY DEF Ask, peer
<1>2. CASE connected /\ Fails
  <2>1. connected' = FALSE
    BY <1>2 DEF Ask, Stop, IInv, Released
  <2>2. queue = <<>> /\ tcp \notin {"up", "eof"}
    BY <1>2 DEF Fails
  <2> QED
    BY <1>1, <2>1, <2>2 DEF Link!Ask
<1>3. CASE connected /\ ~Fails
  <2>1. connected' = connected
    BY <1>3 DEF Ask, client
  <2>2. connected = TRUE /\ connected' = TRUE
    BY <1>3, <2>1 DEF IInv, TypeOK
  <2>3. queue # <<>> \/ tcp \in {"up", "eof"}
    BY <1>3 DEF Fails, IInv, TypeOK
  <2> QED
    BY <1>1, <2>2, <2>3 DEF Link!Ask
<1>4. CASE ~connected
  <2>1. connected' = connected
    BY <1>4 DEF Ask, client
  <2>2. connected = FALSE /\ connected' = FALSE
    BY <1>4, <2>1 DEF IInv, TypeOK
  <2> QED
    BY <1>1, <2>2 DEF Link!Ask
<1> QED
  BY <1>2, <1>3, <1>4

LEMMA HandshakeLink == ASSUME IInv, Handshake PROVE Link!Open
<1>1. /\ tcp = "up" /\ tcp' = "up" /\ queue' = <<>> /\ connected' = TRUE
      /\ sent' = 0 /\ got' = <<>> /\ UNCHANGED answer
  BY DEF Handshake
<1>2. ~connected
  BY DEF Handshake, IInv, Starting
<1> QED
  BY <1>1, <1>2 DEF Link!Open

LEMMA ReadLink == ASSUME Read PROVE Link!Read
<1>1. /\ connected /\ connected' /\ queue # <<>> /\ queue' = Tail(queue)
      /\ UNCHANGED <<tcp, sent, got, answer>>
  BY DEF Read, client
<1> QED
  BY <1>1 DEF Link!Read

LEMMA WriteLink == ASSUME IInv, NEW size \in Sizes, Write(size) PROVE Link!Write
<1> DEFINE w == [size |-> size, came |-> Carried(size)]
<1>1. /\ connected /\ connected' /\ tcp = "up" /\ got' = Append(got, w)
      /\ UNCHANGED <<tcp, queue, sent, answer>>
  BY DEF Write, client
<1>2. w.came <= w.size /\ (w.size <= MaxRecord => w.came = w.size)
  BY CarriedBounds
<1>3. got \in Seq([size : Sizes, came : 0 .. MaxRecord])
  BY DEF IInv, TypeOK
<1>4. w \in [size : Sizes, came : 0 .. MaxRecord]
  BY CarriedBounds
<1> HIDE DEF w
<1>5. Len(got') = Len(got) + 1 /\ got'[Len(got')] = w
  BY <1>1, <1>3, <1>4
<1> QED
  BY <1>1, <1>2, <1>5 DEF Link!Write

LEMMA DeliverLink == ASSUME Deliver PROVE Link!Deliver
<1>1. /\ connected /\ connected' /\ tcp = "up"
      /\ sent' = sent + 1 /\ queue' = Append(queue, sent')
      /\ UNCHANGED <<tcp, got, answer>>
  BY DEF Deliver, client
<1> QED
  BY <1>1 DEF Link!Deliver

LEMMA PeerClosesLink == ASSUME IInv, PeerCloses PROVE [Link!Next]_Link!vars
<1>1. /\ tcp = "up" /\ UNCHANGED <<connected, queue, sent, got, answer>>
  BY DEF PeerCloses, client
<1>2. CASE tcp' = "eof"
  BY <1>1, <1>2, LinkStutters
<1>3. CASE tcp' = "closed"
  <2>1. connected /\ connected'
    BY <1>1, <1>3 DEF PeerCloses
  <2>2. Len(queue) \in 0 .. Len(queue) /\ SubSeq(queue, 1, Len(queue)) = queue
    <3>1. queue \in Seq(0 .. MaxPieces)
      BY DEF IInv, TypeOK
    <3>2. Len(queue) \in Nat
      BY <3>1
    <3>3. SubSeq(queue, 1, Len(queue)) = queue
      BY <3>1, SubSeqFull
    <3> QED
      BY <3>2, <3>3
  <2>3. Link!Break
    BY <1>1, <1>3, <2>1, <2>2 DEF Link!Break
  <2> QED
    BY <2>3 DEF Link!Next
<1>4. tcp' = "eof" \/ tcp' = "closed"
  BY DEF PeerCloses
<1> QED
  BY <1>2, <1>3, <1>4

LEMMA ResetLink == ASSUME IInv, Reset PROVE [Link!Next]_Link!vars
<1>1. /\ tcp' = "reset" /\ UNCHANGED <<connected, sent, got, answer>>
  BY DEF Reset, client
<1>2. CASE connected
  <2>1. connected'
    BY <1>1, <1>2
  <2>2. queue' \in {SubSeq(queue, 1, k) : k \in 0 .. Len(queue)}
    BY DEF Reset
  <2>3. Link!Break
    BY <1>1, <1>2, <2>1, <2>2 DEF Link!Break
  <2> QED
    BY <2>3 DEF Link!Next
<1>3. CASE ~connected
  BY <1>1, <1>3, LinkStutters
<1> QED
  BY <1>2, <1>3

\* A start, a write that fails, and a close.
LEMMA ClientLink ==
    ASSUME IInv,
           \/ Connect \/ (\E step \in Steps : Succeed(step)) \/ ReadPlain \/ StartFails
           \/ WriteFails \/ Close
    PROVE  [Link!Next]_Link!vars
<1>1. CASE Connect
  <2>1. ~connected /\ UNCHANGED <<connected, sent, got, answer>>
    BY <1>1 DEF Connect, peer
  <2> QED
    BY <2>1, LinkStutters
<1>2. CASE \E step \in Steps : Succeed(step)
  <2>1. ~connected /\ UNCHANGED <<connected, sent, got, answer>>
    BY <1>2 DEF Succeed, IInv, Starting, Steps
  <2> QED
    BY <2>1, LinkStutters
<1>3. CASE ReadPlain
  <2>1. ~connected /\ UNCHANGED <<connected, sent, got, answer>>
    BY <1>3 DEF ReadPlain, IInv, Starting, PlainSteps, client
  <2> QED
    BY <2>1, LinkStutters
<1>4. CASE StartFails
  <2>1. ~connected /\ pc # "rest"
    BY <1>4 DEF StartFails, IInv, Starting, Steps
  <2>2. connected' = FALSE /\ UNCHANGED <<sent, got, answer>>
    BY <1>4, <2>1 DEF StartFails, Stop, peer
  <2> QED
    BY <2>2, LinkBreaks DEF Link!Next
<1>5. CASE WriteFails \/ Close
  <2>1. open /\ connected
    BY <1>5 DEF WriteFails, Close, IInv, Released
  <2>2. connected' = FALSE /\ UNCHANGED <<sent, got, answer>>
    BY <1>5, <2>1 DEF WriteFails, Close, Stop, peer
  <2> QED
    BY <2>2, LinkBreaks DEF Link!Next
<1> QED
  BY <1>1, <1>2, <1>3, <1>4, <1>5

LEMMA LinkNext == IInv /\ [Next]_vars => [Link!Next]_Link!vars
<1> SUFFICES ASSUME IInv, [Next]_vars PROVE [Link!Next]_Link!vars
  OBVIOUS
<1>1. CASE \/ Connect \/ (\E step \in Steps : Succeed(step)) \/ ReadPlain \/ StartFails
           \/ WriteFails \/ Close
  BY <1>1, ClientLink
<1>2. CASE Handshake
  BY <1>2, HandshakeLink DEF Link!Next
<1>3. CASE Ask
  BY <1>3, AskLink DEF Link!Next
<1>4. CASE Read
  BY <1>4, ReadLink DEF Link!Next
<1>5. CASE \E size \in Sizes : Write(size)
  BY <1>5, WriteLink DEF Link!Next
<1>6. CASE Deliver
  BY <1>6, DeliverLink DEF Link!Next
<1>7. CASE PeerCloses
  BY <1>7, PeerClosesLink
<1>8. CASE Reset
  BY <1>8, ResetLink
<1>9. CASE DeliverPlain
  <2>1. due # <<>> /\ UNCHANGED <<connected, sent, got, answer>>
    BY <1>9 DEF DeliverPlain, client
  <2>2. ~connected
    BY <2>1 DEF IInv, Safe
  <2> QED
    BY <2>1, <2>2, LinkStutters
<1>10. CASE UNCHANGED vars
  BY <1>10, LinkStutters DEF vars, client, peer
<1> QED
  BY <1>1, <1>2, <1>3, <1>4, <1>5, <1>6, <1>7, <1>8, <1>9, <1>10 DEF Next

\* The TLS client is the link the mail sessions take it for: what connected()
\* answers, what can be read and in which order, and how much of a write comes.
THEOREM ImplementsLink == Spec => IsLink
<1>1. Init => Link!Init
  BY DEF Init, Link!Init
<1>2. IInv /\ [Next]_vars => [Link!Next]_Link!vars
  BY LinkNext
<1> QED
  BY <1>1, <1>2, Inductive, PTL DEF Spec, IsLink, Link!Spec
=============================================================================
