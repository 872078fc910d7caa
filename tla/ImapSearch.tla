----------------------------- MODULE ImapSearch -----------------------------
(***************************************************************************)
(* The SEARCH command of readMail and the way waitIMAPResponse turns its   *)
(* reply into the message numbers that are fetched afterwards.             *)
(*                                                                         *)
(* The reply is read a character at a time.  On its first line a blank or  *)
(* the end of the line ends a word, and a word that is neither "*" nor     *)
(* "SEARCH" is taken for a message number.  _msgNum is kept at the search  *)
(* limit as it grows: the last numbers of the line when the most recent    *)
(* messages are wanted, its first numbers otherwise.  Words stand for the  *)
(* characters here; `value` is what atoi makes of one.                     *)
(***************************************************************************)
EXTENDS Integers, Sequences

CONSTANTS
    Replies,     \* what the server may answer: sequences of lines of words
    Limits,      \* what setSearchLimit is called with
    LimitMax,    \* MAX_EMAIL_SEARCH_LIMIT
    SizeMax      \* the largest size_t

Kinds == {"star", "search", "bad", "other", "number", "empty"}
Words == [kind : Kinds, value : Nat]

\* A word that is not a number counts as 0, and a line holds one at least:
\* the empty word when there is nothing on it.
ASSUME ReplyAssumption ==
    /\ Replies \subseteq Seq(Seq(Words) \ {<<>>}) \ {<<>>}
    /\ \A r \in Replies : \A i \in DOMAIN r : \A j \in DOMAIN r[i] :
          r[i][j].kind # "number" => r[i][j].value = 0
ASSUME LimitAssumption ==
    /\ Limits \subseteq Nat
    /\ LimitMax \in Nat
    /\ SizeMax \in Nat /\ LimitMax <= SizeMax

VARIABLES
    limit,   \* _emailNumMax
    recent,  \* _recentSort
    phase,   \* where readMail is with the command
    reply,   \* the lines of the server's answer
    lf,      \* lfCount: lines of it read to the end
    at,      \* words read of the line being read
    msgNum,  \* _msgNum
    count    \* _searchCount

settings == <<limit, recent>>
reading == <<reply, lf, at>>
vars == <<settings, phase, reading, msgNum, count>>

Phases == {"idle", "sent", "reading", "found", "failed", "crashed"}

Init ==
    /\ limit \in {n \in Limits : n <= LimitMax} /\ recent \in BOOLEAN
    /\ phase = "idle"
    /\ reply = <<>> /\ lf = 0 /\ at = 0
    /\ msgNum = <<>> /\ count = 0

-----------------------------------------------------------------------------
SetSearchLimitUnchecked(n) ==
    /\ phase = "idle"
    /\ limit' = n
    /\ UNCHANGED <<recent, phase, reading, msgNum, count>>

\* IMAPData::setSearchLimit
SetSearchLimit(n) ==
    /\ phase = "idle"
    /\ limit' = IF n <= LimitMax THEN n ELSE limit
    /\ UNCHANGED <<recent, phase, reading, msgNum, count>>

\* IMAPData::setRecentSort
SetRecentSort(on) ==
    /\ phase = "idle"
    /\ recent' = on
    /\ UNCHANGED <<limit, phase, reading, msgNum, count>>

\* readMail forgets the numbers of the last search and sends the command.
Search ==
    /\ phase = "idle"
    /\ phase' = "sent"
    /\ reply' = <<>> /\ lf' = 0 /\ at' = 0
    /\ msgNum' = <<>> /\ count' = 0
    /\ UNCHANGED settings

\* The server answers before the timeout.
Answer(r) ==
    /\ phase = "sent"
    /\ phase' = "reading"
    /\ reply' = r
    /\ UNCHANGED <<settings, lf, at, msgNum, count>>

\* It does not, and waitIMAPResponse returns with no valid response.
TimeOut ==
    /\ phase = "sent"
    /\ phase' = "failed"
    /\ UNCHANGED <<settings, reading, msgNum, count>>

-----------------------------------------------------------------------------
TopAlways == limit

\* `max`, an int, compared with a size_t: -1 is the largest of them.
Top ==
    IF recent THEN limit ELSE IF limit = 0 THEN SizeMax ELSE limit - 1

IsNumber(word) == word.kind \notin {"star", "search"}

KeepFirst(n) ==
    IF recent /\ Len(msgNum) + 1 > limit THEN msgNum ELSE Append(msgNum, n)

\* push_back, and erase(begin()) when the window is full
Keep(n) ==
    IF recent /\ Len(msgNum) + 1 > limit
      THEN Tail(Append(msgNum, n))
      ELSE Append(msgNum, n)

Collected(word) ==
    IF IsNumber(word) /\ Len(msgNum) <= Top THEN Keep(word.value) ELSE msgNum

CountedWhenKept(word) ==
    IF IsNumber(word) /\ Len(msgNum) < limit THEN count + 1 ELSE count

Counted(word) ==
    IF IsNumber(word) /\ Len(msgNum) <= Top THEN count + 1 ELSE count

Descending(s) == \A i, j \in DOMAIN s : i < j => s[i] >= s[j]

\* t holds the elements of s, in some order.
Arranges(t, s) ==
    \E p \in [DOMAIN s -> DOMAIN s] :
        /\ \A i, j \in DOMAIN s : p[i] = p[j] => i = j
        /\ \A j \in DOMAIN s : \E i \in DOMAIN s : p[i] = j
        /\ t = [i \in DOMAIN s |-> s[p[i]]]

InOrderUnsorted(t, s) == t = s

\* std::sort with compFunc, only for the most recent messages
InOrder(t, s) ==
    IF recent THEN Arranges(t, s) /\ Descending(t) ELSE t = s

Line == reply[lf + 1]

\* A word of the first line and the blank after it.
ReadWord ==
    /\ phase = "reading" /\ lf = 0
    /\ at + 1 < Len(Line)
    /\ LET word == Line[at + 1] IN
         IF word.kind = "bad"
           THEN /\ phase' = "failed"
                /\ UNCHANGED <<at, msgNum, count>>
           ELSE /\ msgNum' = Collected(word)
                /\ count' = Counted(word)
                /\ at' = at + 1
                /\ UNCHANGED phase
    /\ UNCHANGED <<settings, reply, lf>>

\* The last word of the first line, its end, and the sort.
EndFirstLine ==
    /\ phase = "reading" /\ lf = 0
    /\ at + 1 = Len(Line)
    /\ LET word == Line[at + 1]
           kept == IF word.kind = "empty" THEN msgNum ELSE Collected(word)
       IN  /\ count' = IF word.kind = "empty" THEN count ELSE Counted(word)
           /\ msgNum' \in {t \in [DOMAIN kept -> {kept[i] : i \in DOMAIN kept}] :
                             InOrder(t, kept)}
    /\ lf' = 1 /\ at' = 0
    /\ UNCHANGED <<settings, phase, reply>>

\* The second line completes the response, whatever it says; characters
\* that have come meanwhile are read and dropped.
Complete ==
    /\ phase = "reading" /\ lf = 1
    /\ Len(reply) > 1
    /\ phase' = "found"
    /\ lf' = Len(reply)
    /\ UNCHANGED <<settings, reply, at, msgNum, count>>

\* After a single line the loop polls a stream with nothing to read, without
\* a timeout.  When the server closes the link there is no stream left.
LinkCloses ==
    /\ phase = "reading" /\ lf = 1
    /\ Len(reply) = 1
    /\ phase' = "crashed"
    /\ UNCHANGED <<settings, reading, msgNum, count>>

\* readMail goes on with the messages found, or gives up.
Return ==
    /\ phase \in {"found", "failed"}
    /\ phase' = "idle"
    /\ UNCHANGED <<settings, reading, msgNum, count>>

Read == ReadWord \/ EndFirstLine \/ Complete

Next ==
    \/ \E n \in Limits : SetSearchLimit(n)
    \/ \E on \in BOOLEAN : SetRecentSort(on)
    \/ Search
    \/ \E r \in Replies : Answer(r)
    \/ TimeOut
    \/ Read
    \/ LinkCloses
    \/ Return

Spec == Init /\ [][Next]_vars

-----------------------------------------------------------------------------
\* Every variable keeps its type.
TypeOK ==
    /\ limit \in 0 .. LimitMax /\ recent \in BOOLEAN
    /\ phase \in Phases
    /\ reply \in Replies \cup {<<>>}
    /\ phase \in {"reading", "found", "crashed"} => reply \in Replies
    /\ lf \in 0 .. Len(reply)
    /\ at \in Nat
    /\ msgNum \in Seq(Nat)
    /\ count \in Nat

\* What an RFC 3501 server says first: * SEARCH n1 ... nk, perhaps with a
\* blank at the end.
SearchLine(line) ==
    /\ Len(line) >= 2
    /\ line[1].kind = "star" /\ line[2].kind = "search"
    /\ \A i \in 3 .. Len(line) :
          line[i].kind = "number" \/ (line[i].kind = "empty" /\ i = Len(line))

\* The numbers on such a line.
Hits(line) ==
    IF line[Len(line)].kind = "empty" THEN Len(line) - 3 ELSE Len(line) - 2

Lesser(a, b) == IF a < b THEN a ELSE b

Answered == phase = "found" /\ SearchLine(reply[1])

\* However many numbers the server sends, _msgNum never outgrows the search
\* limit, not even while the line is read: every number kept costs the
\* strings and vectors of a message later.  (The limit 0 without the recent
\* sort is no limit at all: a reply then keeps all its numbers.)
WithinLimit ==
    phase \in {"reading", "found"} /\ (recent \/ limit > 0)
      => Len(msgNum) <= limit

\* With the recent sort, a search ends with the last numbers of the reply,
\* as many as the limit allows, the highest first: the order in which
\* readMail fetches them and getNumber, getSubject... index them.
LatestFirst ==
    Answered /\ recent =>
      LET n == Lesser(limit, Hits(reply[1])) IN
        /\ Len(msgNum) = n
        /\ Descending(msgNum)
        /\ {msgNum[k] : k \in DOMAIN msgNum}
             = {reply[1][2 + i].value :
                  i \in (Hits(reply[1]) - n + 1) .. Hits(reply[1])}

\* Without it, a search ends with the first numbers of the reply in the
\* order of the reply.
ServerOrder ==
    Answered /\ ~recent /\ limit > 0 =>
      /\ Len(msgNum) = Lesser(limit, Hits(reply[1]))
      /\ \A k \in DOMAIN msgNum : msgNum[k] = reply[1][2 + k].value

\* searchCount is the number of messages found when the recent ones are kept,
\* and never less than the number of messages that are available.
CountCovers ==
    Answered =>
      /\ count >= Len(msgNum)
      /\ recent => count = Hits(reply[1])
=============================================================================
