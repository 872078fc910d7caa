------------------------------ MODULE SmtpData ------------------------------
(***************************************************************************)
(* The lists a caller fills before sendMail: the addresses and the         *)
(* attachments of an SMTPData object.                                      *)
(*                                                                         *)
(* The four lists of strings (to, cc, bcc, custom headers) have the same   *)
(* code; `recipient` stands for each of them.  The six vectors of          *)
(* attachmentData are pushed to and erased from together and are one       *)
(* sequence here.  What is not kept together with them is _index, a        *)
(* uint8_t that every loop over the attachments takes for their number.    *)
(*                                                                         *)
(* A loop that runs past the end of the vectors reads memory that held     *)
(* something else: what it finds there is any answer (`stale`).  Erasing   *)
(* an element that is not there is undefined: it destroys elements that    *)
(* are, of either type, and the object is not used after it (`broken`).    *)
(***************************************************************************)
EXTENDS Integers, FiniteSets, SequencesExt

CONSTANTS
    Names,      \* addresses and file names
    IndexMod,   \* 2^8 in the code: _index and the loop counters
    MaxStrings, \* bound: length of the list of strings
    MaxAdds     \* bound: attachments added since they were last freed

ASSUME IndexAssumption == IndexMod \in Nat \ {0}
ASSUME BoundAssumption == MaxStrings \in Nat /\ MaxAdds \in Nat

Types == {"data", "file"}

VARIABLES
    recipient,  \* _recipient, _cc, _bcc, _customMessageHeader
    att,        \* the vectors of attachmentData
    index,      \* attachmentData::_index
    removed,    \* attachments removed since the vectors were last freed
    broken,     \* an element that is not there was erased or dereferenced
    op          \* the last call and what it was about or returned

attVars == <<att, index, removed, broken>>
vars == <<recipient, attVars, op>>

Init ==
    /\ recipient = <<>>
    /\ att = <<>> /\ index = 0 /\ removed = 0 /\ broken = FALSE
    /\ op = [call |-> "none"]

-----------------------------------------------------------------------------
\* Lists of strings.

AddRecipient(n) ==
    /\ Len(recipient) < MaxStrings
    /\ recipient' = Append(recipient, n)
    /\ op' = [call |-> "addRecipient", name |-> n]
    /\ UNCHANGED attVars

\* The loop compares the addresses of two buffers, c_str() == c_str().  They
\* belong to different objects and are never equal.
RemoveRecipient(n) ==
    /\ op' = [call |-> "removeRecipient", name |-> n]
    /\ UNCHANGED <<recipient, attVars>>

\* The caller names a place that exists; the code has no check.
RemoveRecipientAt(i) ==
    /\ i < Len(recipient)
    /\ recipient' = RemoveAt(recipient, i + 1)
    /\ op' = [call |-> "removeRecipientAt", name |-> recipient[i + 1]]
    /\ UNCHANGED attVars

ClearRecipient ==
    /\ recipient' = <<>>
    /\ op' = [call |-> "clearRecipient"]
    /\ UNCHANGED attVars

-----------------------------------------------------------------------------
\* Attachments.

\* _index++ on a uint8_t
NextIndexWide == index + 1
NextIndex == (index + 1) % IndexMod

\* attachmentData::add
Add(n, t) ==
    /\ ~broken /\ Len(att) + removed < MaxAdds
    /\ att' = Append(att, [name |-> n, type |-> t])
    /\ index' = NextIndex
    /\ op' = [call |-> "add", type |-> t]
    /\ UNCHANGED <<recipient, removed, broken>>

\* attachmentData::remove, on a copy of the vectors: the number is not
\* brought up to date.  Nothing is known of the vectors (ok is FALSE) after
\* vector::erase past their end.
Erase(a, i) ==
    IF i < Len(a.list)
    THEN [a EXCEPT !.list = RemoveAt(@, i + 1), !.gone = @ + 1]
    ELSE [a EXCEPT !.ok = FALSE]

Vectors == [list |-> att, gone |-> removed, ok |-> TRUE]

\* The slots a loop over the attachments visits.
Slots == 0..(index - 1)

LooksOfAny(list, i, t, ns, stale) ==
    IF i < Len(list) THEN list[i + 1].name \in ns ELSE i \in stale

\* Does slot i look like an attachment of type t with a name in ns?
Looks(list, i, t, ns, stale) ==
    IF i < Len(list) THEN list[i + 1].type = t /\ list[i + 1].name \in ns
    ELSE i \in stale

\* for (i ...) if (...) remove(i): i moves on after a removal as well, so the
\* element that took the place of the removed one is not looked at.
RemoveEach(t, ns, stale) ==
    LET after[n \in 0..index] ==      \* after slots 0 .. n - 1
            IF n = 0 THEN Vectors
            ELSE LET a == after[n - 1]
                 IN IF a.ok /\ Looks(a.list, n - 1, t, ns, stale)
                      THEN Erase(a, n - 1) ELSE a
    IN after[index]

\* The slots that look like an attachment of type t.
Hits(t, stale) == {i \in Slots : Looks(att, i, t, Names, stale)}

\* The match with k others before it is removed and the loop left.
EraseKth(hits, k) ==
    LET kth == {i \in hits : Cardinality({h \in hits : h < i}) = k}
    IN IF kth = {} THEN Vectors ELSE Erase(Vectors, CHOOSE i \in kth : TRUE)
RemoveKthOfAny(t, k, stale) == EraseKth({i \in Slots : i \in stale \/ i < Len(att)}, k)
RemoveKth(t, k, stale) == EraseKth(Hits(t, stale), k)

\* What may be left of a list after an erase past its end.
Ruins(list) == UNION {[1..n -> [name : Names, type : Types]] : n \in 0..Len(list)}

Install(a) ==
    /\ IF a.ok THEN att' = a.list ELSE att' \in Ruins(a.list)
    /\ removed' = a.gone /\ broken' = ~a.ok
    /\ UNCHANGED <<recipient, index>>

\* The slots whose memory, once the element is gone, looks like a match.
Garbage == SUBSET Slots

\* removeAttachData(name), removeAttachFile(name)
RemoveByName(t, n) ==
    /\ ~broken
    /\ \E stale \in Garbage : Install(RemoveEach(t, {n}, stale))
    /\ op' = [call |-> "removeByName", type |-> t, name |-> n]

\* removeAttachData(index), removeAttachFile(index)
RemoveByIndex(t, k) ==
    /\ ~broken
    /\ \E stale \in Garbage : Install(RemoveKth(t, k, stale))
    /\ op' = [call |-> "removeByIndex", type |-> t, k |-> k]

\* clearAttachData, clearAttachFile
ClearType(t) ==
    /\ ~broken
    /\ \E stale \in Garbage : Install(RemoveEach(t, Names, stale))
    /\ op' = [call |-> "clear", type |-> t]

\* clearAttachment -> attachmentData::free
FreeKeepsIndex ==
    /\ att' = <<>> /\ removed' = 0
    /\ UNCHANGED <<index, broken>>
Free ==
    /\ att' = <<>> /\ index' = 0 /\ removed' = 0
    /\ UNCHANGED broken

ClearAttachment ==
    /\ ~broken
    /\ Free
    /\ op' = [call |-> "clearAttachment"]
    /\ UNCHANGED recipient

\* attachDataCount, attachFileCount
Count(t) ==
    /\ ~broken
    /\ \E stale \in Garbage :
           op' = [call |-> "count", type |-> t, out |-> Cardinality(Hits(t, stale))]
    /\ UNCHANGED <<recipient, attVars>>

\* SMTPData::empty
Empty ==
    /\ ~broken
    /\ recipient' = <<>> /\ Free
    /\ op' = [call |-> "empty"]

\* Attachment i of a mail, for every i < _index: data as it is; a file when
\* the storage is mounted by then (sendMail tries again at every file until
\* it is, `from` on) and holds a file of that name, else it is skipped.  A
\* slot past the end may look like a file that is there, or like data, whose
\* first byte is fetched through a vector that is gone.
InMailNeedsStorage(i, from, exists) ==
    i >= from /\ (att[i + 1].type = "data" \/ att[i + 1].name \in exists)
InMail(i, from, exists) ==
    att[i + 1].type = "data" \/ (i >= from /\ att[i + 1].name \in exists)
Carried(from, exists, stale) ==
    {i \in Slots : IF i < Len(att) THEN InMail(i, from, exists) ELSE i \in stale}
Send ==
    /\ ~broken
    /\ \E from \in 0..index, exists \in SUBSET Names, stale \in Garbage :
         /\ broken' \in {FALSE, \E i \in stale : i >= Len(att)}
         /\ op' = [call |-> "sendMail", from |-> from, exists |-> exists,
                   sent |-> Carried(from, exists, stale)]
    /\ UNCHANGED <<recipient, att, index, removed>>

Next ==
    \/ \E n \in Names : AddRecipient(n) \/ RemoveRecipient(n)
    \/ \E i \in 0..(MaxStrings - 1) : RemoveRecipientAt(i)
    \/ ClearRecipient
    \/ \E n \in Names, t \in Types : Add(n, t) \/ RemoveByName(t, n)
    \/ \E t \in Types, k \in 0..(MaxAdds - 1) : RemoveByIndex(t, k)
    \/ \E t \in Types : ClearType(t) \/ Count(t)
    \/ ClearAttachment \/ Empty \/ Send

Spec == Init /\ [][Next]_vars

-----------------------------------------------------------------------------
Attachment == [name : Names, type : Types]

TypeOK ==
    /\ recipient \in Seq(Names)
    /\ att \in Seq(Attachment)
    /\ index \in 0..(IndexMod - 1)
    /\ removed \in Nat /\ broken \in BOOLEAN

\* No loop leaves the vectors as long as nothing was removed since they were
\* last freed, however many attachments were added.
SoundUntilRemoval == broken => removed > 0

\* The attachments of a type, in their order.
OfType(list, t) ==
    LET of[n \in 0..Len(list)] ==
            IF n = 0 THEN <<>>
            ELSE IF list[n].type = t THEN Append(of[n - 1], list[n]) ELSE of[n - 1]
    IN of[Len(list)]

\* A removal, by name, by number or of all of a type, leaves the attachments
\* of the other type and their order alone, whatever a stale count makes the
\* loop look at, unless the loop erases past the end: then anything may go.
OtherTypeKept ==
    [][op'.call \in {"removeByName", "removeByIndex", "clear"} /\ ~broken' =>
           \A t \in Types \ {op'.type} : OfType(att', t) = OfType(att, t)]_vars

\* Removal by number takes the attachment the caller counted, or none when
\* fewer exist, as long as _index did not wrap around; it goes wrong only by
\* erasing what is not there.
RemovesTheKth ==
    [][op'.call = "removeByIndex" /\ index = Len(att) + removed /\ ~broken' =>
           LET mine == OfType(att, op'.type)
           IN OfType(att', op'.type) =
                  IF op'.k < Len(mine) THEN RemoveAt(mine, op'.k + 1) ELSE mine]_vars

\* A mail carries every attachment of the list once, but the files whose
\* storage was not mounted by their turn or does not hold them, and nothing
\* else, when fewer than 2^8 were added and none was removed since the list
\* was freed.
SendsAll ==
    [][op'.call = "sendMail" /\ removed = 0 /\ Len(att) < IndexMod =>
           /\ op'.sent = {i \in 0..(Len(att) - 1) :
                            \/ att[i + 1].type = "data"
                            \/ i >= op'.from /\ att[i + 1].name \in op'.exists}
           /\ ~broken']_vars
=============================================================================
