------------------------------ MODULE MailLink ------------------------------
EXTENDS Integers, Sequences
(***************************************************************************)
(* What sendMail, readMail and _setFlag take the TLS client for: a link    *)
(* that is up or down, with the pieces the server sent still to be read.   *)
(* What was received before the link went down can be read after it.  This *)
(* is the link of SmtpSession, ImapSession and ImapFlags, whose operator   *)
(* Connected is `answer' here.                                             *)
(***************************************************************************)
CONSTANT MaxRecord  \* the longest write that is sent in one piece

VARIABLES
    conn,   \* "up" or "down"
    sent,   \* pieces the server sent on this connection: 1, 2, ...
    unread, \* those the client can read
    got,    \* for each write that reached the server, its length and how much of it came
    answer  \* the last answer of connected()

vars == <<conn, sent, unread, got, answer>>

Init == conn = "down" /\ sent = 0 /\ unread = <<>> /\ got = <<>> /\ answer = FALSE

Open ==
    /\ conn = "down" /\ unread = <<>>
    /\ conn' = "up" /\ sent' = 0 /\ got' = <<>>
    /\ UNCHANGED <<unread, answer>>

Deliver ==
    /\ conn = "up"
    /\ sent' = sent + 1 /\ unread' = Append(unread, sent')
    /\ UNCHANGED <<conn, got, answer>>

Read ==
    /\ unread # <<>> /\ unread' = Tail(unread)
    /\ UNCHANGED <<conn, sent, got, answer>>

\* A write that fits in a record arrives whole or not at all; of a longer one
\* only the beginning arrives.
Write ==
    /\ conn = "up"
    /\ Len(got') = Len(got) + 1 /\ got' = Append(got, got'[Len(got')])
    /\ LET w == got'[Len(got')] IN w.came <= w.size /\ (w.size <= MaxRecord => w.came = w.size)
    /\ UNCHANGED <<conn, sent, unread, answer>>

\* The link goes down, or the client closes it.  Some of what was received may
\* be lost, the last first; all of it is when the client closes the link or
\* fails to write to it.
Break ==
    /\ conn' = "down"
    /\ unread' \in {SubSeq(unread, 1, k) : k \in 0 .. Len(unread)}
    /\ UNCHANGED <<sent, got, answer>>

\* connected(): up, or something is left to read.
Ask ==
    /\ answer' = (conn = "up" \/ unread # <<>>)
    /\ UNCHANGED <<conn, sent, unread, got>>

Next == Open \/ Deliver \/ Read \/ Write \/ Break \/ Ask
Spec == Init /\ [][Next]_vars
=============================================================================
