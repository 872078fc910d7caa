----------------------------- MODULE ImapFlags -----------------------------
(***************************************************************************)
(* One call of setFlag, addFlag or removeFlag of ESP32_MailClient (_setFlag *)
(* serves all three): log in, list the folders, open one, store the flags, *)
(* log out.                                                                *)
(*                                                                         *)
(* The reply to the store has a reader of its own, getIMAPResponse, which  *)
(* takes what has come by now for the whole reply and any " OK " in it for *)
(* a yes.                                                                  *)
(***************************************************************************)
EXTENDS ImapWait

VARIABLES
    stage,   \* what _setFlag is doing
    cmd,     \* the command being sent or waited for
    wait,    \* the state of waitIMAPResponse
    tries,   \* connect() calls that failed
    status,  \* _imapStatus
    result,  \* what _setFlag returned
    conn,    \* "up" while both ends hold the connection
    toSrv,   \* commands the server has not answered
    owed,    \* lines of a reply still to come
    inbox,   \* lines the client can read
    granted, \* the commands the server granted
    late     \* a wait was given up whose reply may still come

link == <<conn, toSrv, owed, inbox>>
vars == <<stage, cmd, wait, tries, status, result, link, granted, late>>

\* The types the waits are given: SELECT is waited for as EXAMINE, LOGOUT
\* with type 0, which is LOGIN.
WaitType(c) == CASE c = "SELECT" -> "EXAMINE"
                 [] c = "LOGOUT" -> "LOGIN"
                 [] OTHER -> c

Connected == conn = "up" \/ inbox # <<>>

Init ==
    /\ stage = "connect" /\ cmd = "LOGIN" /\ wait = NewWait /\ tries = 0
    /\ status = "none" /\ result = "none"
    /\ conn = "down" /\ toSrv = <<>> /\ owed = <<>> /\ inbox = <<>>
    /\ granted = {} /\ late = FALSE

-----------------------------------------------------------------------------
MaxTries == 10

\* Ten tries, and one more after them that tells no reason.
ConnectFails ==
    /\ stage = "connect"
    /\ tries' = tries + 1
    /\ status' = IF tries < MaxTries THEN "connect" ELSE status
    /\ IF tries < MaxTries THEN UNCHANGED <<stage, result>>
                           ELSE stage' = "done" /\ result' = "false"
    /\ UNCHANGED <<cmd, wait, link, granted, late>>

ConnectSucceeds ==
    /\ stage = "connect"
    /\ conn' = "up" /\ stage' = "send" /\ tries' = 0
    /\ UNCHANGED <<cmd, wait, status, result, toSrv, owed, inbox, granted, late>>

\* LOGOUT throws away what is left to read before it is sent.
Send ==
    /\ stage = "send" /\ Connected
    /\ toSrv' = IF conn = "up" THEN Append(toSrv, cmd) ELSE toSrv
    /\ inbox' = IF cmd = "LOGOUT" THEN <<>> ELSE inbox
    /\ stage' = "first" /\ wait' = NewWait
    /\ UNCHANGED <<cmd, tries, status, result, conn, owed, granted, late>>

NullStream ==
    /\ ~Connected
    /\ stage = "send" \/ (stage = "lines" /\ ~wait.complete)
    /\ stage' = "crashed"
    /\ UNCHANGED <<cmd, wait, tries, status, result, link, granted, late>>

\* Nothing within tcpTimeout, or nobody there any more.
TimeOutWhileUp ==
    /\ stage = "first" /\ inbox = <<>> /\ conn = "up"
    /\ stage' = "decide" /\ late' = TRUE
    /\ UNCHANGED <<cmd, wait, tries, status, result, link, granted>>
TimeOut ==
    /\ stage = "first" /\ inbox = <<>>
    /\ stage' = "decide" /\ late' = (late \/ conn = "up")
    /\ UNCHANGED <<cmd, wait, tries, status, result, link, granted>>

\* waitIMAPResponse
FirstByteAlways ==
    /\ stage = "first" /\ inbox # <<>>
    /\ stage' = "lines"
    /\ UNCHANGED <<cmd, wait, tries, status, result, link, granted, late>>
FirstByte ==
    /\ stage = "first" /\ inbox # <<>> /\ cmd # "STORE"
    /\ stage' = "lines"
    /\ UNCHANGED <<cmd, wait, tries, status, result, link, granted, late>>

ReadLine ==
    /\ stage = "lines" /\ inbox # <<>>
    /\ wait' = Take(WaitType(cmd), wait, Head(inbox))
    /\ inbox' = Tail(inbox)
    /\ UNCHANGED <<stage, cmd, tries, status, result, conn, toSrv, owed, granted, late>>

EndWait ==
    /\ stage = "lines" /\ inbox = <<>> /\ wait.complete
    /\ stage' = "decide"
    /\ UNCHANGED <<cmd, wait, tries, status, result, link, granted, late>>

\* getIMAPResponse: all that is there, and is there an " OK " in it?
SaysYesToAny(lines) == lines # <<>>
SaysYes(lines) == \E k \in DOMAIN lines : lines[k].kind \in {"ok", "okcap"}

ReadStored ==
    /\ stage = "first" /\ inbox # <<>> /\ cmd = "STORE"
    /\ wait' = [wait EXCEPT !.valid = SaysYes(inbox)]
    /\ inbox' = <<>> /\ stage' = "decide"
    /\ UNCHANGED <<cmd, tries, status, result, conn, toSrv, owed, granted, late>>

-----------------------------------------------------------------------------
\* What _setFlag does with the answer.

After(c) == CASE c = "LOGIN" -> "LIST"
              [] c = "LIST" -> "SELECT"
              [] c = "SELECT" -> "STORE"
              [] c = "STORE" -> "LOGOUT"

StatusOf(c) == CASE c = "LOGIN" -> "login"
                 [] c = "STORE" -> "flag"
                 [] OTHER -> "bad"

\* Only the folder list may fail.
MayFail(c) == c = "LIST"

Proceed ==
    /\ stage = "decide" /\ cmd # "LOGOUT"
    /\ wait.valid \/ MayFail(cmd)
    /\ stage' = "send" /\ cmd' = After(cmd)
    /\ status' = IF wait.valid THEN status ELSE StatusOf(cmd)
    /\ UNCHANGED <<wait, tries, result, link, granted, late>>

Stop == conn' = "down" /\ toSrv' = <<>> /\ owed' = <<>> /\ inbox' = <<>>

Succeed ==
    /\ stage = "decide" /\ cmd = "LOGOUT" /\ wait.valid
    /\ stage' = "done" /\ result' = "true" /\ Stop
    /\ UNCHANGED <<cmd, wait, tries, status, granted, late>>

Fail ==
    /\ stage = "decide" /\ ~wait.valid /\ ~MayFail(cmd)
    /\ stage' = "done" /\ result' = "false" /\ status' = StatusOf(cmd) /\ Stop
    /\ UNCHANGED <<cmd, wait, tries, granted, late>>

-----------------------------------------------------------------------------
\* The server: it answers the commands in their order, a line at a time.

Yes(c) == CASE c = "LOGIN" -> {<<"ok">>, <<"okcap">>}
            [] c = "STORE" -> {<<"ok">>, <<"data", "ok">>}
            [] OTHER -> {<<"data", "ok">>}
No(c) == IF c = "LOGOUT" THEN {} ELSE {<<"no">>, <<"bad">>}

Serve ==
    /\ conn = "up" /\ owed = <<>> /\ toSrv # <<>>
    /\ LET c == Head(toSrv) IN
       \E r \in Yes(c) \cup No(c) :
          /\ owed' = Lines(r, c)
          /\ granted' = IF r \in Yes(c) THEN granted \cup {c} ELSE granted
    /\ toSrv' = Tail(toSrv)
    /\ UNCHANGED <<stage, cmd, wait, tries, status, result, conn, inbox, late>>

Deliver ==
    /\ conn = "up" /\ owed # <<>>
    /\ inbox' = Append(inbox, Head(owed)) /\ owed' = Tail(owed)
    /\ UNCHANGED <<stage, cmd, wait, tries, status, result, conn, toSrv, granted, late>>

Disconnect ==
    /\ conn = "up"
    /\ conn' = "down" /\ toSrv' = <<>> /\ owed' = <<>>
    /\ UNCHANGED <<stage, cmd, wait, tries, status, result, inbox, granted, late>>

-----------------------------------------------------------------------------
Client == \/ ConnectFails \/ ConnectSucceeds \/ Send \/ NullStream
          \/ TimeOut \/ FirstByte \/ ReadLine \/ EndWait \/ ReadStored
          \/ Proceed \/ Succeed \/ Fail

Next == Client \/ Serve \/ Deliver \/ Disconnect

\* The caller's task runs; nothing is assumed of the server.
Spec == Init /\ [][Next]_vars /\ WF_vars(Client)

-----------------------------------------------------------------------------
Commands == {"LOGIN", "LIST", "SELECT", "STORE", "LOGOUT"}
ReplyLines == [kind : Kinds, size : Nat, of : Commands]

\* The type invariant: a store is never read by waitIMAPResponse, whose
\* types do not know it.
TypeOK ==
    /\ stage \in {"connect", "send", "first", "lines", "decide", "done", "crashed"}
    /\ cmd \in Commands /\ (stage = "lines" => WaitType(cmd) \in Types)
    /\ wait \in Wait /\ tries \in 0 .. MaxTries + 1
    /\ status \in {"none", "connect", "login", "bad", "flag"}
    /\ result \in {"none", "true", "false"} /\ conn \in {"up", "down"}
    /\ toSrv \in Seq(Commands) /\ owed \in Seq(ReplyLines) /\ inbox \in Seq(ReplyLines)
    /\ granted \subseteq Commands /\ late \in BOOLEAN

\* true means that the server took the new flags, as long as no wait was
\* given up: then an " OK " among the lines read is the store's.
TrueMeansStored == result = "true" /\ ~late => "STORE" \in granted

\* _setFlag always comes to an end, crashes on a dead connection, or spins in
\* waitIMAPResponse for good.
Polling == stage = "lines" /\ inbox = <<>> /\ ~wait.complete
EndsOrPolls == <>(stage \in {"done", "crashed"}) \/ <>[]Polling
=============================================================================
