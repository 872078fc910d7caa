----------------------------- MODULE MailCalls ------------------------------
(***************************************************************************)
(* Several calls on one ESP32_MailClient and one IMAPData object, one      *)
(* after the other: what a call leaves behind for the next one and for the *)
(* getters.                                                                *)
(*                                                                         *)
(* The calls share the flag _sdOk and the storages behind it, the pins of  *)
(* the card, the reason _imapStatus, and the vectors of IMAPData.  The     *)
(* dialogues are in ImapSession, ImapFlags and SmtpSession; here a stage   *)
(* of a dialogue succeeds or fails.                                        *)
(***************************************************************************)
EXTENDS Integers, Sequences, FiniteSets

CONSTANTS
    Mails,   \* mails, each the sequence of its parts
    Limit,   \* _emailNumMax
    MaxCalls \* calls in a behaviour

\* A part is a text, plain or html, or a file attached, of one of these types
\* or another.
Texts == {"plain", "html"}
Parts == [type : Texts \cup {"other"}, attached : BOOLEAN]
ASSUME MailsAssumption == \A m \in Mails : m \in Seq(Parts)
ASSUME BoundsAssumption == Limit \in Nat /\ MaxCalls \in Nat

VARIABLES
    pc,      \* "rest" between calls, or the stage of the current one
    call,    \* the current or last call, and what it returned
    n,       \* calls so far
    sdOk,    \* _sdOk
    pinsSet, \* _sdConfigSet
    card,    \* how the SD card is mounted: "off", with the "default" pins or the caller's
    flash,   \* SPIFFS is mounted
    told,    \* the call that set _imapStatus last
    silent,  \* the last IMAP call failed in its last connect() only
    nums,    \* the length of _msgNum
    rows,    \* the vectors with one element for each mail: the parts of each
    session, \* what the last call returned that emptied these vectors
    wish,    \* the pins the caller asked for last
    used,    \* the kinds of storage the calls were given so far
    missed   \* a file was looked for on a storage that was not mounted

storage == <<sdOk, pinsSet, card, flash>>
data == <<nums, rows, session>>
history == <<wish, used, missed>>
vars == <<pc, call, n, storage, told, silent, data, history>>

Storages == {"SD", "SPIFFS"}

Init ==
    /\ pc = "rest" /\ n = 0
    /\ call = [op |-> "none", id |-> 0, store |-> "SD", saves |-> FALSE, one |-> FALSE, result |-> "none"]
    /\ sdOk = FALSE /\ pinsSet = FALSE /\ card = "off" /\ flash = FALSE
    /\ told = 0 /\ silent = FALSE
    /\ nums = 0 /\ rows = <<>> /\ session = "none"
    /\ wish = "default" /\ used = {} /\ missed = FALSE

-----------------------------------------------------------------------------
\* The storage.

\* SD.begin() leaves a mounted card as it is, and fails without a card.
BeginCard(pins) == card' \in IF card = "off" THEN {"off", pins} ELSE {card}

PinsOf(set) == IF set THEN "pins" ELSE "default"

\* sdBegin(sck, miso, mosi, ss), or sdBegin(), called by the program.
SdBegin(pins) ==
    /\ pc = "rest" /\ n < MaxCalls
    /\ n' = n + 1
    /\ BeginCard(pins) /\ pinsSet' = (pins = "pins") /\ wish' = pins
    /\ UNCHANGED <<pc, call, sdOk, flash, told, silent, data, used, missed>>

\* sdTest: it may also fail with the card mounted.
SdTest ==
    /\ BeginCard(PinsOf(pinsSet)) /\ pinsSet' = (PinsOf(pinsSet) = "pins")
    /\ sdOk' \in {FALSE, card' # "off"}
    /\ UNCHANGED flash

BeginFlash ==
    /\ flash' \in {flash, TRUE} /\ sdOk' = flash'
    /\ UNCHANGED <<pinsSet, card>>

\* _sdOk stands for whichever storage was mounted last.
Mount == IF sdOk THEN UNCHANGED storage
         ELSE IF call.store = "SD" THEN SdTest ELSE BeginFlash

Mounted == IF call.store = "SD" THEN card # "off" ELSE flash

-----------------------------------------------------------------------------
\* A call and its end.

Start(op, stage) ==
    /\ pc = "rest" /\ n < MaxCalls
    /\ n' = n + 1 /\ pc' = stage
    /\ \E store \in Storages, saves, one \in BOOLEAN :
          /\ call' = [op |-> op, id |-> n', store |-> store, saves |-> saves, one |-> one,
                      result |-> "none"]
          /\ used' = IF op = "flags" THEN used ELSE used \cup {store}
    /\ UNCHANGED <<storage, told, silent, data, wish, missed>>

StartRead == Start("read", "connect")
StartFlags == Start("flags", "connect")
StartSend == Start("send", "send")

Return(result) == pc' = "rest" /\ call' = [call EXCEPT !.result = result]

\* A failure names its reason.
FailSilently == Return("false") /\ told' = told
Fail == Return("false") /\ told' = call.id

-----------------------------------------------------------------------------
\* readMail and _setFlag.

\* Up to ten tries name the reason if they fail; one more connect() after
\* them does not.
ConnectFails ==
    /\ pc = "connect"
    /\ Return("false")
    /\ told' \in {told, call.id} /\ silent' = (told' # call.id)
    /\ UNCHANGED <<n, storage, data, history>>

ConnectKeepsRows ==
    /\ pc = "connect"
    /\ told' \in {told, call.id} /\ silent' = FALSE
    /\ nums' = 0 /\ rows' = rows /\ session' = "none"
    /\ pc' = IF call.op = "read" THEN "search" ELSE "flags"
    /\ UNCHANGED <<call, n, storage, history>>

\* clearMessageData.
ConnectSucceeds ==
    /\ pc = "connect"
    /\ told' \in {told, call.id} /\ silent' = FALSE
    /\ nums' = 0 /\ rows' = <<>> /\ session' = "none"
    /\ pc' = IF call.op = "read" THEN "search" ELSE "flags"
    /\ UNCHANGED <<call, n, storage, history>>

\* LOGIN, SELECT, STORE, LOGOUT; LIST may fail.
FlagsEnd ==
    /\ pc = "flags"
    /\ \/ Return("true") /\ told' \in {told, call.id} /\ session' = "true"
       \/ Fail /\ session' = "false"
    /\ UNCHANGED <<n, storage, silent, nums, rows, history>>

\* LOGIN, EXAMINE, SEARCH; a SEARCH that fails may have found numbers.
SearchFails ==
    /\ pc = "search"
    /\ Fail /\ session' = "false"
    /\ nums' \in 0 .. Limit
    /\ UNCHANGED <<n, storage, silent, rows, history>>

\* One number for a UID; LIST may fail.
SearchSucceeds ==
    /\ pc = "search"
    /\ nums' \in IF call.one THEN {1} ELSE 0 .. Limit
    /\ told' \in {told, call.id} /\ pc' = "mails"
    /\ UNCHANGED <<call, n, storage, silent, rows, session, history>>

\* A row is there before its header is fetched.
HeaderFails ==
    /\ pc = "mails" /\ Len(rows) < nums
    /\ rows' = Append(rows, <<>>)
    /\ Fail /\ session' = "false"
    /\ UNCHANGED <<n, storage, silent, nums, history>>

HeaderFetched ==
    /\ pc = "mails" /\ Len(rows) < nums
    /\ rows' = Append(rows, <<>>)
    /\ pc' = IF call.one THEN "parts" ELSE "mails"
    /\ UNCHANGED <<call, n, storage, told, silent, nums, session, history>>

FindParts ==
    /\ pc = "parts"
    /\ \E m \in Mails : rows' = [rows EXCEPT ![Len(rows)] = m]
    /\ pc' = "mount"
    /\ UNCHANGED <<call, n, storage, told, silent, nums, session, history>>

MountForRead ==
    /\ pc = "mount"
    /\ IF call.saves THEN Mount ELSE UNCHANGED storage
    /\ pc' = "bodies"
    /\ UNCHANGED <<call, n, told, silent, data, history>>

\* Texts and attachments: files are written if _sdOk; a body that cannot be
\* fetched names a reason and ends nothing.
FetchBodies ==
    /\ pc = "bodies"
    /\ missed' = (missed \/ (call.saves /\ sdOk /\ ~Mounted))
    /\ told' \in {told, call.id} /\ pc' = "unmount"
    /\ UNCHANGED <<call, n, storage, silent, data, wish, used>>

UnmountKeepsFlag ==
    /\ pc = "unmount"
    /\ sdOk' = sdOk /\ pc' = "mails"
    /\ card' = IF sdOk /\ call.store = "SD" THEN "off" ELSE card
    /\ flash' = (flash /\ ~(sdOk /\ call.store = "SPIFFS"))
    /\ UNCHANGED <<call, n, pinsSet, told, silent, data, history>>

\* SD.end() or SPIFFS.end(), as this call's storage type says.
Unmount ==
    /\ pc = "unmount"
    /\ sdOk' = FALSE /\ pc' = "mails"
    /\ card' = IF sdOk /\ call.store = "SD" THEN "off" ELSE card
    /\ flash' = (flash /\ ~(sdOk /\ call.store = "SPIFFS"))
    /\ UNCHANGED <<call, n, pinsSet, told, silent, data, history>>

ReadEnds ==
    /\ pc = "mails" /\ Len(rows) = nums
    /\ \/ Return("true") /\ told' = told /\ session' = "true"
       \/ Fail /\ session' = "false"
    /\ UNCHANGED <<n, storage, silent, nums, rows, history>>

-----------------------------------------------------------------------------
\* sendMail: a file to attach mounts the storage, which stays mounted.

MountForSend ==
    /\ pc = "send"
    /\ Mount
    /\ pc' = IF sdOk' THEN "file" ELSE "send"
    /\ UNCHANGED <<call, n, told, silent, data, history>>

LookForFile ==
    /\ pc = "file"
    /\ missed' = (missed \/ ~Mounted)
    /\ pc' = "send"
    /\ UNCHANGED <<call, n, storage, told, silent, data, wish, used>>

SendEnds ==
    /\ pc = "send"
    /\ Return("true") \/ Return("false")
    /\ UNCHANGED <<n, storage, told, silent, data, history>>

-----------------------------------------------------------------------------
\* IMAPData::empty and clearMessageData, called by the program.
Empty ==
    /\ pc = "rest" /\ n < MaxCalls
    /\ n' = n + 1
    /\ nums' = 0 /\ rows' = <<>> /\ session' = "none"
    /\ UNCHANGED <<pc, call, storage, told, silent, history>>

\* The getters check an index against _msgNum and read the row.
Row(i) == CASE i >= nums -> "empty"
            [] i < nums /\ i < Len(rows) -> "row"
            [] OTHER -> "beyond"

\* The part that the getters of attachments take for number j, 0 for none.
NthOfAllParts(m, j) ==
    LET found == {k \in DOMAIN m : m[k].attached /\ k - 1 = j}
    IN  IF found = {} THEN 0 ELSE CHOOSE k \in found : TRUE
NthAttachment(m, j) ==
    LET id(k) == Cardinality({l \in 1 .. k - 1 : m[l].attached})
        found == {k \in DOMAIN m : m[k].attached /\ id(k) = j}
    IN  IF found = {} THEN 0 ELSE CHOOSE k \in found : TRUE

\* The part getTextMessage or getHTMLMessage takes its text from: the first
\* one of the type, attached or not.
TextPart(m, type) ==
    LET found == {k \in DOMAIN m : m[k].type = type}
    IN  IF found = {} THEN 0 ELSE CHOOSE k \in found : \A l \in found : k <= l

-----------------------------------------------------------------------------
Next ==
    \/ SdBegin("pins") \/ SdBegin("default") \/ Empty
    \/ StartRead \/ StartFlags \/ StartSend
    \/ ConnectFails \/ ConnectSucceeds \/ FlagsEnd
    \/ SearchFails \/ SearchSucceeds \/ HeaderFails \/ HeaderFetched \/ FindParts
    \/ MountForRead \/ FetchBodies \/ Unmount \/ ReadEnds
    \/ MountForSend \/ LookForFile \/ SendEnds

Spec == Init /\ [][Next]_vars

-----------------------------------------------------------------------------
\* The type invariant.  The vectors never have more rows than numbers.
TypeOK ==
    /\ pc \in {"rest", "connect", "flags", "search", "mails", "parts", "mount",
               "bodies", "unmount", "send", "file"}
    /\ call \in [op : {"none", "read", "flags", "send"}, id : 0 .. n, store : Storages,
                 saves : BOOLEAN, one : BOOLEAN, result : {"none", "true", "false"}]
    /\ n \in 0 .. MaxCalls
    /\ sdOk \in BOOLEAN /\ pinsSet \in BOOLEAN /\ flash \in BOOLEAN
    /\ card \in {"off", "default", "pins"} /\ wish \in {"default", "pins"}
    /\ told \in 0 .. n /\ silent \in BOOLEAN
    /\ nums \in 0 .. Limit \cup {1}
    /\ rows \in Seq(Mails \cup {<<>>}) /\ Len(rows) <= nums
    /\ session \in {"none", "true", "false"}
    /\ used \subseteq Storages /\ missed \in BOOLEAN

\* A getter reads past the end of its vector only if the last session that
\* got a connection returned false.  Within its row, the indices below the
\* number of attachments name each attachment once, in their order, and no
\* index beyond names one; and a text message is no attachment, unless one of
\* its type comes before.
InRange == pc = "rest" => \A i \in 0 .. Limit : Row(i) = "beyond" => session = "false"
ByIndex(m) ==
    LET files == {k \in DOMAIN m : m[k].attached}
        nth == [j \in 0 .. Cardinality(files) - 1 |-> NthAttachment(m, j)]
    IN  /\ {nth[j] : j \in DOMAIN nth} = files
        /\ \A j \in DOMAIN nth : j > 0 => nth[j - 1] < nth[j]
        /\ NthAttachment(m, Cardinality(files)) = 0
ByType(m) ==
    \A t \in Texts : \A k \in DOMAIN m :
       /\ m[k] = [type |-> t, attached |-> FALSE]
       /\ ~\E l \in 1 .. k - 1 : m[l] = [type |-> t, attached |-> TRUE]
       => ~m[TextPart(m, t)].attached
GettersAnswer == InRange /\ \A i \in DOMAIN rows : ByIndex(rows[i]) /\ ByType(rows[i])

\* After false from readMail or setFlag, the reason that imapErrorReason gives
\* was set by this very call, unless it was the last connect() alone that
\* failed: then it is that of an earlier call, or none.
ReasonIsOwn ==
    pc = "rest" /\ call.op \in {"read", "flags"} /\ call.result = "false" /\ ~silent =>
       told = call.id

\* Files are looked for only on a storage that is mounted, as long as all
\* calls are given the same kind; and however often the library mounts and
\* ends it, the card keeps the pins the caller asked for last.
StorageReady ==
    /\ Cardinality(used) <= 1 => ~missed
    /\ pinsSet = (wish = "pins")
=============================================================================
