------------------------------ MODULE ImapWait ------------------------------
(***************************************************************************)
(* waitIMAPResponse of ESP32_MailClient: what one line of a reply does to  *)
(* the state of a wait.                                                    *)
(*                                                                         *)
(* Every command is sent with the same tag, "$", and a wait knows of the   *)
(* command it serves only its type.  A line is what it says (`kind`), the  *)
(* lines of the literal it announces (`size`) and, for the properties      *)
(* only, the command it answers (`of`).                                    *)
(***************************************************************************)
EXTENDS Integers, Sequences

FetchTypes == {"HEADER", "MIME", "TEXT", "ATTACHMENT"}
Types == {"LOGIN", "LIST", "EXAMINE", "SEARCH"} \cup FetchTypes

\* data: untagged.  literal: " FETCH " with {n}.  nil: " FETCH " without.
\* body: a line of the literal, or the parenthesis after it.  okcap: "$ OK "
\* on a line that names CAPABILITY or IMAP.
Kinds == {"data", "literal", "nil", "body", "ok", "okcap", "no", "bad"}
Tagged == {"ok", "okcap", "no", "bad"}

\* The lines of a reply to command c.
Line(kind, c) == [kind |-> kind, size |-> IF kind = "literal" THEN 1 ELSE 0, of |-> c]
Lines(kinds, c) == [k \in DOMAIN kinds |-> Line(kinds[k], c)]

\* lf: lines read.  payload: lines of the literal.  got: lines read since it
\* was announced.
Wait == [lf : {0, 1}, payload : Nat, got : Nat,
         valid : BOOLEAN, complete : BOOLEAN, broken : BOOLEAN]

NewWait == [lf |-> 0, payload |-> 0, got |-> 0,
            valid |-> FALSE, complete |-> FALSE, broken |-> FALSE]

\* The waits a tagged line ends when no literal was announced.
EndsAtTag == Types \ {"TEXT", "ATTACHMENT"}

\* The state of a wait for a reply of type t after one more line.  While the
\* line is read, `got` counts it if a literal was announced before.
Read(w) == IF w.payload > 0 /\ ~w.complete THEN w.got + 1 ELSE w.got

ValidAfter(t, w, line) ==
    CASE line.kind \in Tagged ->
           line.kind \in {"ok", "okcap"} /\ ~(t = "MIME" /\ w.payload = 0)
      [] w.lf = 0 /\ t \in FetchTypes /\ line.kind \in {"literal", "nil"} -> TRUE
      [] OTHER -> w.valid

CompleteAtPayload(t, w, line) ==
    \/ w.complete
    \/ line.kind \in Tagged /\ t \in EndsAtTag
    \/ w.payload > 0 /\ Read(w) >= w.payload

CompleteAfter(t, w, line) ==
    \/ w.complete
    \/ /\ line.kind \in Tagged
       /\ IF w.payload = 0
            THEN t \in EndsAtTag /\ line.kind # "okcap"
            ELSE Read(w) >= w.payload \/ t = "MIME"

\* SEARCH collects words, not lines: it looks for BAD on the first line only
\* and ends with the second line, whatever that says.
TakeSearch(w, line) ==
    IF w.lf = 0
      THEN [w EXCEPT !.lf = 1, !.broken = line.kind = "bad"]
      ELSE [w EXCEPT !.valid = TRUE, !.complete = TRUE]

Take(t, w, line) ==
    IF t = "SEARCH" THEN TakeSearch(w, line)
    ELSE [lf |-> 1,
          payload |-> IF w.lf = 0 THEN line.size ELSE w.payload,
          got |-> Read(w),
          valid |-> ValidAfter(t, w, line),
          complete |-> CompleteAfter(t, w, line),
          broken |-> FALSE]

\* A line whose content goes where the wait puts it: into the slot of the
\* part, or, up to the size announced, into its text or file.
Stores(t, w, line) ==
    /\ line.kind = "body"
    /\ w.lf > 0 /\ w.payload > 0
    /\ t = "MIME" \/ w.got < w.payload
    /\ ValidAfter(t, w, line)
=============================================================================
