----------------------------- MODULE TlsClient ------------------------------
(***************************************************************************)
(* The TLS client under a mail session: ESP32MailHTTPClient, the class     *)
(* WiFiClientSecureESP32, and start_ssl_client with its helpers in         *)
(* ssl_client32.cpp, over a TCP connection that may end in three ways.     *)
(*                                                                         *)
(* mbedtls and lwip are external: a call of theirs succeeds or fails.  The *)
(* session never gives a client certificate or a pre-shared key, so a      *)
(* start has a CA certificate or none.                                     *)
(***************************************************************************)
EXTENDS Integers, Sequences, FiniteSets, FiniteSetsExt

CONSTANTS
    Sizes,      \* lengths of the writes
    MaxRecord,  \* the longest TLS record
    Word,       \* 2^16
    MaxPieces,  \* pieces of data the server sends on a connection
    MaxWrites,  \* writes on a connection
    MaxConnects \* connections tried

ASSUME NumbersAssumption ==
    /\ Sizes \subseteq Nat \ {0}
    /\ {MaxRecord, Word, MaxPieces, MaxWrites, MaxConnects} \subseteq Nat
    /\ 0 < MaxRecord /\ MaxRecord < Word

VARIABLES
    setup,     \* what the session was given: a CA, and how TLS begins
    pc,        \* "rest", or the step of start_ssl_client
    connected, \* _connected
    open,      \* the socket of the client object is open
    sockets,   \* open sockets of the device
    held,      \* contexts of the client object that hold memory
    seeded,    \* its entropy context was initialised
    lost,      \* CA chains that were deleted with their object, not freed
    wild,      \* contexts that were freed while they were not initialised
    tries,     \* connections tried
    tcp,       \* "up"; "eof" after a FIN, "closed" after a close_notify, "reset"
    queue,     \* pieces that arrived, unread: 0 if they are plain text, else their number
    due,       \* pieces the server still sends before TLS begins
    granted,   \* the server granted STARTTLS
    sent,      \* pieces of data the server sent on the last connection
    got,       \* the writes that reached it there
    answer     \* the last answer of ESP32MailHTTPClient::connected

client == <<connected, open, sockets, held, seeded, lost, wild>>
peer == <<tcp, queue, due, granted, sent, got>>
vars == <<setup, pc, client, tries, peer, answer>>

\* smtp: STARTTLS on port 25 or 587.  imap: STARTTLS on port 143.
Setups == [ca : BOOLEAN, tls : {"at once", "smtp", "imap"}]

Init ==
    /\ setup \in Setups
    /\ pc = "rest" /\ tries = 0 /\ answer = FALSE
    /\ connected = FALSE /\ open = FALSE /\ sockets = 0
    /\ held = {} /\ seeded = FALSE /\ lost = 0 /\ wild = {}
    /\ tcp = "reset" /\ queue = <<>> /\ due = <<>> /\ granted = FALSE
    /\ sent = 0 /\ got = <<>>

-----------------------------------------------------------------------------
\* stop(), which stop_ssl_socket follows, on an object that holds `h'.
Stop(h, s) ==
    /\ open' = FALSE /\ sockets' = IF open THEN sockets - 1 ELSE sockets
    /\ connected' = (connected /\ ~open)
    /\ held' = h \cap {"ca"} /\ seeded' = s
    /\ wild' = IF s THEN wild ELSE wild \cup {"entropy"}
    /\ lost' = lost

\* The steps of start_ssl_client, in their order.
After(step) ==
    CASE step = "socket" -> "host"
      [] step = "host" -> "tcp"
      [] step = "tcp" -> IF setup.tls = "at once" THEN "seed" ELSE "greeting"
      [] step = "greeting" -> IF setup.tls = "smtp" THEN "ehlo" ELSE "starttls"
      [] step = "ehlo" -> "starttls"
      [] step = "starttls" -> "seed"
      [] step = "seed" -> "config"
      [] step = "config" -> IF setup.ca THEN "ca" ELSE "hostname"
      [] step = "ca" -> "hostname"
      [] step = "hostname" -> "setup"
      [] step = "setup" -> "handshake"
Steps == {"socket", "host", "tcp", "greeting", "ehlo", "starttls", "seed", "config",
          "ca", "hostname", "setup", "handshake"}
PlainSteps == {"greeting", "ehlo", "starttls"}

\* What a step allocates, perhaps in part if it fails.
Allocates(step) ==
    CASE step = "seed" -> {"entropy", "drbg"}
      [] step = "config" -> {"conf"}
      [] step = "ca" -> {"ca"}
      [] step \in {"hostname", "setup"} -> {"ssl"}
      [] OTHER -> {}

\* ESP32MailHTTPClient::connect without a connection: a new client object
\* takes the place of the old one, which is stopped and deleted.
Connect ==
    /\ pc = "rest" /\ ~connected /\ tries < MaxConnects
    /\ tries' = tries + 1 /\ pc' = "socket"
    /\ open' = FALSE /\ sockets' = IF open THEN sockets - 1 ELSE sockets
    /\ wild' = IF seeded \/ tries = 0 THEN wild ELSE wild \cup {"entropy"}
    /\ lost' = IF "ca" \in held THEN lost + 1 ELSE lost
    /\ held' = {} /\ seeded' = FALSE
    /\ UNCHANGED <<setup, connected, peer, answer>>

\* What the server sends before TLS begins; its greeting and its answer to EHLO
\* come in one piece or two.
Kinds == {"greeting", "ehlo", "ready", "refused"}
Pieces(kind) == {<<kind>>, <<kind, kind>>}

Succeed(step) ==
    /\ pc = step /\ step \in Steps \ (PlainSteps \cup {"handshake"})
    /\ pc' = After(step)
    /\ IF step = "socket" THEN open' = TRUE /\ sockets' = sockets + 1
                          ELSE UNCHANGED <<open, sockets>>
    /\ held' = held \cup Allocates(step)
    /\ seeded' = (seeded \/ step = "seed")
    /\ IF step = "tcp"
         THEN /\ tcp' = "up" /\ queue' = <<>> /\ granted' = FALSE
              /\ due' \in IF setup.tls = "at once" THEN {<<>>} ELSE Pieces("greeting")
         ELSE UNCHANGED <<tcp, queue, due, granted>>
    /\ UNCHANGED <<setup, connected, lost, wild, tries, sent, got, answer>>

\* starttlsHandshake: after a second it reads what has come, whatever that
\* says, and writes the next command.  Nothing is an error; the end of the
\* stream is not.  Only an SMTP server knows a bare STARTTLS.
Answers(command) ==
    CASE command = "ehlo" -> Pieces("ehlo")
      [] command = "starttls" ->
           IF setup.tls = "smtp" THEN {<<"ready">>, <<"refused">>} ELSE {<<"refused">>}
      [] OTHER -> {<<>>}

ReadPlain ==
    /\ pc \in PlainSteps
    /\ queue # <<>> \/ tcp = "eof"
    /\ queue' = <<>>
    /\ pc' = After(pc)
    /\ IF tcp = "up"
         THEN \E a \in Answers(After(pc)) :
                 due' = due \o a /\ granted' = (granted \/ a = <<"ready">>)
         ELSE UNCHANGED <<due, granted>>
    /\ UNCHANGED <<setup, client, tries, tcp, sent, got, answer>>

\* The handshake succeeds only with a server that has said all it had to say
\* in plain text.  A certificate that is not trusted makes it fail, and the
\* check of the verification result after it finds nothing new.
Handshake ==
    /\ pc = "handshake" /\ tcp = "up"
    /\ queue = <<>> /\ due = <<>> /\ (setup.tls = "at once" \/ granted)
    /\ pc' = "rest" /\ connected' = TRUE
    /\ held' = held \ {"ca"}
    /\ sent' = 0 /\ got' = <<>>
    /\ UNCHANGED <<setup, open, sockets, seeded, lost, wild, tries, tcp, queue, due, granted, answer>>

\* A step fails or times out: start_ssl_client returns, and connect() stops.
StartFailsUnstopped ==
    /\ pc \in Steps
    /\ pc \in PlainSteps => queue = <<>> \/ tcp = "reset"
    /\ pc' = "rest"
    /\ UNCHANGED <<setup, client, tries, peer, answer>>
StartFails ==
    /\ pc \in Steps
    /\ pc \in PlainSteps => queue = <<>> \/ tcp = "reset"
    /\ pc' = "rest"
    /\ Stop(held \cup Allocates(pc), seeded \/ pc = "seed")
    /\ UNCHANGED <<setup, tries, peer, answer>>

-----------------------------------------------------------------------------
\* The connection in use.

\* data_to_read: records are read in their order; an error comes up when all
\* before it was read, and the end of a stream without close_notify never.
FailsAtOnce == tcp \in {"closed", "reset"}
Fails == queue = <<>> /\ tcp \in {"closed", "reset"}

\* ESP32MailHTTPClient::connected, which asks available().
Ask ==
    /\ pc = "rest" /\ tries > 0
    /\ IF connected /\ Fails THEN Stop(held, seeded) ELSE UNCHANGED client
    /\ answer' = connected'
    /\ UNCHANGED <<setup, pc, tries, peer>>

\* read(), or the reading off of what is there by connect().
Read ==
    /\ pc = "rest" /\ connected /\ queue # <<>>
    /\ queue' = Tail(queue)
    /\ UNCHANGED <<setup, pc, client, tries, tcp, due, granted, sent, got, answer>>

\* send_ssl_data: its length is a uint16_t, and what fits in a record is sent.
CarriedWhole(size) == size
Carried(size) == Min({size % Word, MaxRecord})

Write(size) ==
    /\ pc = "rest" /\ connected /\ tcp = "up" /\ Len(got) < MaxWrites
    /\ got' = Append(got, [size |-> size, came |-> Carried(size)])
    /\ UNCHANGED <<setup, pc, client, tries, tcp, queue, due, granted, sent, answer>>

\* A write to a peer that is gone is accepted and lost, which changes nothing
\* here, or it fails and the client stops.
WriteFails ==
    /\ pc = "rest" /\ connected /\ tcp # "up"
    /\ Stop(held, seeded)
    /\ UNCHANGED <<setup, pc, tries, peer, answer>>

Close ==
    /\ pc = "rest" /\ connected
    /\ Stop(held, seeded)
    /\ UNCHANGED <<setup, pc, tries, peer, answer>>

-----------------------------------------------------------------------------
\* The server and the network.

DeliverPlain ==
    /\ open /\ tcp = "up" /\ due # <<>>
    /\ queue' = Append(queue, 0) /\ due' = Tail(due)
    /\ UNCHANGED <<setup, pc, client, tries, tcp, granted, sent, got, answer>>

Deliver ==
    /\ connected /\ tcp = "up" /\ sent < MaxPieces
    /\ sent' = sent + 1 /\ queue' = Append(queue, sent')
    /\ UNCHANGED <<setup, pc, client, tries, tcp, due, granted, got, answer>>

\* A FIN, alone or after a close_notify: what was sent before can be read.
PeerCloses ==
    /\ open /\ tcp = "up"
    /\ tcp' \in {"eof"} \cup (IF connected THEN {"closed"} ELSE {}) /\ due' = <<>>
    /\ UNCHANGED <<setup, pc, client, tries, queue, granted, sent, got, answer>>

\* A reset: the last of what arrived may be lost.
Reset ==
    /\ open /\ tcp \in {"up", "eof", "closed"}
    /\ tcp' = "reset" /\ due' = <<>>
    /\ queue' \in {SubSeq(queue, 1, k) : k \in 0 .. Len(queue)}
    /\ UNCHANGED <<setup, pc, client, tries, granted, sent, got, answer>>

-----------------------------------------------------------------------------
Next ==
    \/ Connect \/ (\E step \in Steps : Succeed(step)) \/ ReadPlain \/ Handshake \/ StartFails
    \/ Ask \/ Read \/ (\E size \in Sizes : Write(size)) \/ WriteFails \/ Close
    \/ DeliverPlain \/ Deliver \/ PeerCloses \/ Reset

Spec == Init /\ [][Next]_vars

-----------------------------------------------------------------------------
\* The type invariant.  No write brings more than a record, or than its size.
Contexts == {"ssl", "conf", "drbg", "entropy"}
TypeOK ==
    /\ setup \in Setups /\ pc \in Steps \cup {"rest"}
    /\ connected \in BOOLEAN /\ open \in BOOLEAN /\ sockets \in {0, 1}
    /\ held \subseteq Contexts \cup {"ca"} /\ seeded \in BOOLEAN
    /\ lost \in Nat /\ wild \subseteq Contexts /\ tries \in 0 .. MaxConnects
    /\ tcp \in {"up", "eof", "closed", "reset"}
    /\ queue \in Seq(0 .. MaxPieces) /\ due \in Seq(Kinds)
    /\ granted \in BOOLEAN /\ sent \in 0 .. MaxPieces
    /\ got \in Seq([size : Sizes, came : 0 .. MaxRecord]) /\ Len(got) <= MaxWrites
    /\ \A k \in DOMAIN got : got[k].came <= got[k].size
    /\ answer \in BOOLEAN

\* Between calls the one socket that is open is that of the connection, and
\* the contexts hold memory only while there is one.  What a start that
\* failed leaves is a CA chain, lost with its object, so never more of them
\* than tries; and nothing is freed while it is not initialised but the entropy
\* context, which stop() frees even if the start came nowhere near it.
Released ==
    /\ sockets = IF open THEN 1 ELSE 0
    /\ pc = "rest" =>
          /\ open = connected
          /\ IF connected THEN held = Contexts
                          ELSE held \subseteq {"ca"} /\ (setup.ca \/ held = {})
    /\ lost <= tries /\ (lost > 0 => setup.ca)
    /\ wild \subseteq {"entropy"}

\* The TLS client is the link that the sessions take it for.  A peer that sent
\* a FIN without close_notify is a peer that is up and silent; and no plain
\* text of before TLS is ever read as the first bytes of the session.
Link == INSTANCE MailLink WITH
    conn <- IF connected /\ tcp \in {"up", "eof"} THEN "up" ELSE "down",
    unread <- IF connected THEN queue ELSE <<>>
IsLink == Link!Spec
=============================================================================
