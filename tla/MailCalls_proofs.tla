-------------------------- MODULE MailCalls_proofs --------------------------
(***************************************************************************)
(* Calls in a row, however many and on whatever mails: the reason of a     *)
(* failure is that of the call that failed, the storage is mounted when a  *)
(* file is looked for, and the getters' vectors have a row for each number *)
(* unless the last session failed.                                         *)
(***************************************************************************)
EXTENDS MailCalls, FiniteSetTheorems, SequenceTheorems, TLAPS

\* Which call is in which stage.
InStage ==
    /\ pc \in {"send", "file"} => call.op = "send"
    /\ pc \in {"search", "mails", "parts", "mount", "bodies", "unmount"} => call.op = "read"
    /\ pc = "flags" => call.op = "flags"
    /\ pc = "connect" => call.op \in {"read", "flags"}

\* While every call was given the same kind of storage, _sdOk means that this
\* storage is mounted.
Ready(store) == IF store = "SD" THEN card # "off" ELSE flash
Given ==
    /\ pc # "rest" /\ call.op # "flags" => call.store \in used
    /\ pc = "file" => sdOk
    /\ sdOk => used # {}
    /\ \A s \in Storages : used \subseteq {s} => ~missed /\ (sdOk => Ready(s))

\* _sdConfigSet tells whether the caller asked for pins.
PinsKept == pinsSet = (wish = "pins")

\* A session that did not fail leaves a row for each number.
Filled ==
    /\ pc = "flags" => nums = 0
    /\ pc = "search" => rows = <<>>
    /\ pc \in {"rest", "connect", "send", "file"} /\ session # "false" => nums <= Len(rows)

IInv == TypeOK /\ InStage /\ Given /\ PinsKept /\ Filled /\ ReasonIsOwn

\* The steps that leave the storage and its history alone.
Elsewhere ==
    \/ Empty
    \/ ConnectFails \/ ConnectSucceeds \/ FlagsEnd \/ SearchFails \/ SearchSucceeds
    \/ HeaderFails \/ HeaderFetched \/ FindParts \/ ReadEnds \/ SendEnds

Starts == StartRead \/ StartFlags \/ StartSend
SdBegins == SdBegin("pins") \/ SdBegin("default")

LEMMA NextSplit ==
    [Next]_vars =>
       \/ SdBegins \/ Starts \/ Elsewhere \/ MountForRead \/ MountForSend
       \/ FetchBodies \/ LookForFile \/ Unmount \/ UNCHANGED vars
BY DEF Next, SdBegins, Starts, Elsewhere

-----------------------------------------------------------------------------
\* The storage.

\* Begin leaves the card mounted if it was.
LEMMA CardBegins ==
    ASSUME TypeOK, NEW pins \in {"default", "pins"}, BeginCard(pins)
    PROVE  card' \in {"off", "default", "pins"} /\ (card # "off" => card' # "off")
BY DEF TypeOK, BeginCard

\* A kind of storage is mounted if _sdOk says so and it is the only one that
\* calls were given; the pins are those of before.
LEMMA Mounts ==
    ASSUME IInv, Mount, call.store \in used
    PROVE  /\ sdOk' \in BOOLEAN /\ pinsSet' \in BOOLEAN /\ flash' \in BOOLEAN
           /\ card' \in {"off", "default", "pins"}
           /\ pinsSet' = pinsSet
           /\ \A s \in Storages : used \subseteq {s} /\ sdOk' => Ready(s)'
<1>1. /\ sdOk \in BOOLEAN /\ pinsSet \in BOOLEAN /\ flash \in BOOLEAN
      /\ card \in {"off", "default", "pins"} /\ call.store \in Storages
      /\ \A s \in Storages : used \subseteq {s} => (sdOk => Ready(s))
  BY DEF IInv, TypeOK, Given
<1>2. CASE sdOk
  <2>1. UNCHANGED <<sdOk, pinsSet, card, flash>>
    BY <1>2 DEF Mount, storage
  <2>2. \A s \in Storages : Ready(s)' = Ready(s)
    BY <2>1 DEF Ready
  <2> QED
    BY <1>1, <2>1, <2>2
<1>3. CASE ~sdOk /\ call.store = "SD"
  <2>1. SdTest
    BY <1>3 DEF Mount
  <2>2. PinsOf(pinsSet) \in {"default", "pins"}
    BY DEF PinsOf
  <2>3. card' \in {"off", "default", "pins"}
    BY <2>1, <2>2, CardBegins DEF SdTest, IInv
  <2>4. pinsSet' = pinsSet
    <3>1. CASE pinsSet = TRUE
      BY <2>1, <3>1 DEF SdTest, PinsOf
    <3>2. CASE pinsSet = FALSE
      BY <2>1, <3>2 DEF SdTest, PinsOf
    <3> QED
      BY <1>1, <3>1, <3>2
  <2>5. sdOk' \in BOOLEAN /\ (sdOk' => card' # "off") /\ flash' = flash
    BY <2>1 DEF SdTest
  <2>6. \A s \in Storages : used \subseteq {s} => s = "SD"
    BY <1>3
  <2>7. \A s \in Storages : used \subseteq {s} /\ sdOk' => Ready(s)'
    BY <2>5, <2>6 DEF Ready
  <2> QED
    BY <1>1, <2>3, <2>4, <2>5, <2>7
<1>4. CASE ~sdOk /\ call.store = "SPIFFS"
  <2>1. BeginFlash
    BY <1>4 DEF Mount
  <2>2. /\ flash' \in BOOLEAN /\ sdOk' = flash' /\ UNCHANGED <<pinsSet, card>>
    BY <1>1, <2>1 DEF BeginFlash
  <2>3. \A s \in Storages : used \subseteq {s} => s = "SPIFFS"
    BY <1>4
  <2>4. \A s \in Storages : used \subseteq {s} /\ sdOk' => Ready(s)'
    BY <2>2, <2>3 DEF Ready
  <2> QED
    BY <1>1, <2>2, <2>4
<1> QED
  BY <1>1, <1>2, <1>3, <1>4 DEF Storages

\* What Given needs of a step that leaves the storage alone and starts nothing.
LEMMA GivenKept ==
    ASSUME IInv, UNCHANGED <<storage, used, missed>>, pc' # "file",
           pc' # "rest" => pc # "rest" /\ call' = call
    PROVE  Given'
<1>1. UNCHANGED <<sdOk, card, flash, used, missed>>
  BY DEF storage
<1>2. \A s \in Storages : Ready(s)' = Ready(s)
  BY <1>1 DEF Ready
<1> QED
  BY <1>1, <1>2 DEF IInv, Given

LEMMA GivenStep == ASSUME IInv, [Next]_vars PROVE Given'
<1>1. CASE SdBegins
  <2>1. PICK pins \in {"pins", "default"} : SdBegin(pins)
    BY <1>1 DEF SdBegins
  <2>2. pc = "rest" /\ UNCHANGED <<pc, call, sdOk, flash, used, missed>> /\ BeginCard(pins)
    BY <2>1 DEF SdBegin
  <2>3. \A s \in Storages : Ready(s) => Ready(s)'
    BY <2>2, CardBegins DEF Ready, IInv
  <2> QED
    BY <2>2, <2>3 DEF IInv, Given
<1>2. CASE Starts
  <2>1. PICK op, stage : Start(op, stage) /\ stage \in {"connect", "send"}
    BY <1>2 DEF Starts, StartRead, StartFlags, StartSend
  <2>2. PICK store \in Storages, saves \in BOOLEAN, one \in BOOLEAN :
          /\ call' = [op |-> op, id |-> n', store |-> store, saves |-> saves, one |-> one,
                      result |-> "none"]
          /\ used' = IF op = "flags" THEN used ELSE used \cup {store}
    BY <2>1 DEF Start
  <2>3. call'.op = op /\ call'.store = store /\ used \subseteq used'
    BY <2>2
  <2>4. UNCHANGED <<sdOk, card, flash, missed>> /\ pc' = stage
    BY <2>1 DEF Start, storage
  <2>5. \A s \in Storages : Ready(s)' = Ready(s)
    BY <2>4 DEF Ready
  <2>6. call'.op # "flags" => call'.store \in used'
    BY <2>2, <2>3
  <2> QED
    BY <2>1, <2>3, <2>4, <2>5, <2>6 DEF IInv, Given
<1>3. CASE Elsewhere
  <2>1. UNCHANGED <<storage, used, missed>>
    BY <1>3 DEF Elsewhere, Empty, ConnectFails, ConnectSucceeds, FlagsEnd, SearchFails,
                SearchSucceeds, HeaderFails, HeaderFetched, FindParts, ReadEnds, SendEnds,
                history
  <2>2. pc' # "file" /\ (pc' # "rest" => pc # "rest" /\ call' = call)
    BY <1>3 DEF Elsewhere, Empty, ConnectFails, ConnectSucceeds, FlagsEnd, SearchFails,
                SearchSucceeds, HeaderFails, HeaderFetched, FindParts, ReadEnds, SendEnds,
                Fail, Return
  <2> QED
    BY <2>1, <2>2, GivenKept
<1>4. CASE MountForRead
  <2>1. /\ pc = "mount" /\ pc' = "bodies" /\ UNCHANGED <<call, used, missed>>
    BY <1>4 DEF MountForRead, history
  <2>2. call.store \in used
    BY <2>1 DEF IInv, InStage, Given
  <2>3. CASE call.saves
    <3>1. \A s \in Storages : used \subseteq {s} /\ sdOk' => Ready(s)'
      BY <1>4, <2>2, <2>3, Mounts DEF MountForRead
    <3> QED
      BY <2>1, <2>2, <3>1 DEF IInv, Given
  <2>4. CASE ~call.saves
    <3>1. UNCHANGED <<storage, used, missed>>
      BY <1>4, <2>1, <2>4 DEF MountForRead
    <3> QED
      BY <2>1, <3>1, GivenKept
  <2> QED
    BY <2>3, <2>4
<1>5. CASE MountForSend
  <2>1. /\ pc = "send" /\ Mount /\ UNCHANGED <<call, used, missed>>
        /\ pc' = IF sdOk' THEN "file" ELSE "send"
    BY <1>5 DEF MountForSend, history
  <2>2. call.store \in used
    BY <2>1 DEF IInv, InStage, Given
  <2>3. \A s \in Storages : used \subseteq {s} /\ sdOk' => Ready(s)'
    BY <2>1, <2>2, Mounts
  <2> QED
    BY <2>1, <2>2, <2>3 DEF IInv, Given
<1>6. CASE FetchBodies
  <2>1. /\ pc = "bodies" /\ pc' = "unmount" /\ UNCHANGED <<call, sdOk, card, flash, used>>
        /\ missed' = (missed \/ (call.saves /\ sdOk /\ ~Mounted))
    BY <1>6 DEF FetchBodies, storage
  <2>2. call.store \in used
    BY <2>1 DEF IInv, InStage, Given
  <2>3. \A s \in Storages : used \subseteq {s} /\ sdOk => Mounted
    BY <2>2 DEF IInv, Given, Ready, Mounted
  <2>4. \A s \in Storages : used \subseteq {s} => ~missed'
    BY <2>1, <2>3 DEF IInv, Given
  <2>5. \A s \in Storages : Ready(s)' = Ready(s)
    BY <2>1 DEF Ready
  <2> QED
    BY <2>1, <2>2, <2>4, <2>5 DEF IInv, Given
<1>7. CASE LookForFile
  <2>1. /\ pc = "file" /\ pc' = "send" /\ UNCHANGED <<call, sdOk, card, flash, used>>
        /\ missed' = (missed \/ ~Mounted)
    BY <1>7 DEF LookForFile, storage
  <2>2. call.store \in used /\ sdOk
    BY <2>1 DEF IInv, InStage, Given
  <2>3. \A s \in Storages : used \subseteq {s} => Mounted
    BY <2>2 DEF IInv, Given, Ready, Mounted
  <2>4. \A s \in Storages : used \subseteq {s} => ~missed'
    BY <2>1, <2>3 DEF IInv, Given
  <2>5. \A s \in Storages : Ready(s)' = Ready(s)
    BY <2>1 DEF Ready
  <2> QED
    BY <2>1, <2>2, <2>4, <2>5 DEF IInv, Given
<1>8. CASE Unmount
  <2>1. /\ pc = "unmount" /\ pc' = "mails" /\ sdOk' = FALSE /\ UNCHANGED <<call, used, missed>>
    BY <1>8 DEF Unmount, history
  <2> QED
    BY <2>1 DEF IInv, Given
<1>9. CASE UNCHANGED vars
  <2>1. UNCHANGED <<pc, call, sdOk, card, flash, used, missed>>
    BY <1>9 DEF vars, storage, history
  <2>2. \A s \in Storages : Ready(s)' = Ready(s)
    BY <2>1 DEF Ready
  <2> QED
    BY <2>1, <2>2 DEF IInv, Given
<1> QED
  BY <1>1, <1>2, <1>3, <1>4, <1>5, <1>6, <1>7, <1>8, <1>9, NextSplit

\* The pins the caller asked for survive every mount: sdTest passes on those
\* that _sdConfigSet stands for.
LEMMA PinsStep == ASSUME IInv, [Next]_vars PROVE PinsKept'
<1>1. CASE SdBegins
  BY <1>1 DEF SdBegins, SdBegin, PinsKept
<1>2. CASE MountForRead
  <2>1. pc = "mount" /\ wish' = wish
    BY <1>2 DEF MountForRead, history
  <2>2. call.store \in used
    BY <2>1 DEF IInv, InStage, Given
  <2>3. pinsSet' = pinsSet
    BY <1>2, <2>2, Mounts DEF MountForRead, storage
  <2> QED
    BY <2>1, <2>3 DEF IInv, PinsKept
<1>3. CASE MountForSend
  <2>1. pc = "send" /\ wish' = wish /\ Mount
    BY <1>3 DEF MountForSend, history
  <2>2. call.store \in used
    BY <2>1 DEF IInv, InStage, Given
  <2>3. pinsSet' = pinsSet
    BY <2>1, <2>2, Mounts
  <2> QED
    BY <2>1, <2>3 DEF IInv, PinsKept
<1>4. CASE Starts \/ Elsewhere \/ FetchBodies \/ LookForFile \/ Unmount \/ UNCHANGED vars
  <2>1. UNCHANGED <<pinsSet, wish>>
    BY <1>4 DEF Starts, StartRead, StartFlags, StartSend, Start, Elsewhere, Empty,
                ConnectFails, ConnectSucceeds, FlagsEnd, SearchFails, SearchSucceeds,
                HeaderFails, HeaderFetched, FindParts, ReadEnds, SendEnds,
                FetchBodies, LookForFile, Unmount, vars, storage, history
  <2> QED
    BY <2>1 DEF IInv, PinsKept
<1> QED
  BY <1>1, <1>2, <1>3, <1>4, NextSplit

-----------------------------------------------------------------------------
\* The stages of a call, its reason and its vectors.

LEMMA InStageStep == ASSUME IInv, [Next]_vars PROVE InStage'
<1>1. CASE Starts
  <2>1. CASE StartSend
    BY <2>1 DEF StartSend, Start, InStage
  <2>2. CASE StartRead
    BY <2>2 DEF StartRead, Start, InStage
  <2>3. CASE StartFlags
    BY <2>3 DEF StartFlags, Start, InStage
  <2> QED
    BY <1>1, <2>1, <2>2, <2>3 DEF Starts
<1>2. CASE SdBegins \/ UNCHANGED vars
  BY <1>2 DEF SdBegins, SdBegin, vars, IInv, InStage
<1>3. CASE Elsewhere
  <2>1. CASE Empty \/ SearchSucceeds \/ HeaderFetched \/ FindParts
    BY <2>1 DEF Empty, SearchSucceeds, HeaderFetched, FindParts, IInv, InStage
  <2>2. CASE ConnectSucceeds
    BY <2>2 DEF ConnectSucceeds, IInv, InStage
  <2>3. CASE ConnectFails \/ FlagsEnd \/ SearchFails \/ HeaderFails \/ ReadEnds
    <3>1. pc' = "rest"
      BY <2>3 DEF ConnectFails, FlagsEnd, SearchFails, HeaderFails, ReadEnds, Fail, Return
    <3> QED
      BY <3>1 DEF InStage
  <2>4. CASE SendEnds
    <3>1. pc' = "rest"
      BY <2>4 DEF SendEnds, Return
    <3> QED
      BY <3>1 DEF InStage
  <2> QED
    BY <1>3, <2>1, <2>2, <2>3, <2>4 DEF Elsewhere
<1>4. CASE MountForRead \/ MountForSend \/ FetchBodies \/ LookForFile \/ Unmount
  BY <1>4 DEF MountForRead, MountForSend, FetchBodies, LookForFile, Unmount, IInv, InStage
<1> QED
  BY <1>1, <1>2, <1>3, <1>4, NextSplit

\* Every return of false but that of ConnectFails goes through Fail, and a
\* connect() that names no reason is `silent'.
LEMMA ReasonStep == ASSUME IInv, [Next]_vars PROVE ReasonIsOwn'
<1>1. CASE SdBegins \/ Empty \/ UNCHANGED vars
  <2>1. UNCHANGED <<pc, call, told, silent>>
    BY <1>1 DEF SdBegins, SdBegin, Empty, vars
  <2> QED
    BY <2>1 DEF IInv, ReasonIsOwn
<1>2. CASE ConnectFails
  <2>1. call'.id = call.id
    BY <1>2 DEF ConnectFails, Return, IInv, TypeOK
  <2>2. silent' = (told' # call.id)
    BY <1>2 DEF ConnectFails
  <2> QED
    BY <2>1, <2>2 DEF ReasonIsOwn
<1>3. CASE FlagsEnd \/ SearchFails \/ HeaderFails \/ ReadEnds
  <2>1. Return("true") \/ Fail
    BY <1>3 DEF FlagsEnd, SearchFails, HeaderFails, ReadEnds
  <2>2. CASE Return("true")
    <3>1. call'.result = "true"
      BY <2>2 DEF Return, IInv, TypeOK
    <3> QED
      BY <3>1 DEF ReasonIsOwn
  <2>3. CASE Fail
    <3>1. told' = call.id /\ call'.id = call.id
      BY <2>3 DEF Fail, Return, IInv, TypeOK
    <3> QED
      BY <3>1 DEF ReasonIsOwn
  <2> QED
    BY <2>1, <2>2, <2>3
<1>4. CASE SendEnds
  <2>1. call.op = "send" /\ call'.op = call.op
    BY <1>4 DEF SendEnds, Return, IInv, TypeOK, InStage
  <2> QED
    BY <2>1 DEF ReasonIsOwn
<1>5. CASE \/ Starts \/ ConnectSucceeds \/ SearchSucceeds \/ HeaderFetched \/ FindParts
           \/ MountForRead \/ MountForSend \/ FetchBodies \/ LookForFile \/ Unmount
  <2>1. pc' # "rest"
    BY <1>5 DEF Starts, StartRead, StartFlags, StartSend, Start, ConnectSucceeds,
                SearchSucceeds, HeaderFetched, FindParts, MountForRead, MountForSend,
                FetchBodies, LookForFile, Unmount
  <2> QED
    BY <2>1 DEF ReasonIsOwn
<1> QED
  BY <1>1, <1>2, <1>3, <1>4, <1>5, NextSplit DEF Elsewhere

LEMMA FilledStep == ASSUME IInv, [Next]_vars PROVE Filled'
<1>0. nums \in Nat /\ rows \in Seq(Mails \cup {<<>>}) /\ Len(rows) \in Nat /\ Len(<<>>) = 0
  BY BoundsAssumption DEF IInv, TypeOK
<1>1. CASE \/ SdBegins \/ Starts \/ LookForFile \/ MountForSend \/ SendEnds
           \/ ConnectFails \/ UNCHANGED vars
  <2>1. UNCHANGED <<nums, rows, session>>
    BY <1>1 DEF SdBegins, SdBegin, Starts, StartRead, StartFlags, StartSend, Start,
                LookForFile, MountForSend, SendEnds, ConnectFails, vars, data
  <2>2. \/ pc' = pc
        \/ /\ pc \in {"rest", "connect", "send", "file"}
           /\ pc' \in {"rest", "connect", "send", "file"}
    BY <1>1 DEF SdBegins, SdBegin, Starts, StartRead, StartFlags, StartSend, Start,
                LookForFile, MountForSend, SendEnds, ConnectFails, Return, vars
  <2> QED
    BY <2>1, <2>2 DEF IInv, Filled
<1>2. CASE Empty
  BY <1>0, <1>2 DEF Empty, IInv, Filled
<1>3. CASE ConnectSucceeds
  BY <1>0, <1>3 DEF ConnectSucceeds, Filled
<1>4. CASE FlagsEnd
  <2>1. pc = "flags" /\ pc' = "rest" /\ UNCHANGED <<nums, rows>>
    BY <1>4 DEF FlagsEnd, Fail, Return
  <2>2. nums' = 0 /\ Len(rows') \in Nat
    BY <1>0, <2>1 DEF IInv, Filled
  <2> QED
    BY <2>1, <2>2 DEF Filled
<1>5. CASE SearchFails \/ HeaderFails
  <2>1. pc' = "rest" /\ session' = "false"
    BY <1>5 DEF SearchFails, HeaderFails, Fail, Return
  <2> QED
    BY <2>1 DEF Filled
<1>6. CASE ReadEnds
  <2>1. pc' = "rest" /\ UNCHANGED <<nums, rows>> /\ Len(rows) = nums
    BY <1>6 DEF ReadEnds, Fail, Return
  <2> QED
    BY <1>0, <2>1 DEF Filled
<1>7. CASE \/ SearchSucceeds \/ HeaderFetched \/ FindParts
           \/ MountForRead \/ FetchBodies \/ Unmount
  <2>1. pc' \in {"mails", "parts", "mount", "bodies", "unmount"}
    BY <1>7 DEF SearchSucceeds, HeaderFetched, FindParts, MountForRead, FetchBodies, Unmount
  <2> QED
    BY <2>1 DEF Filled
<1> QED
  BY <1>1, <1>2, <1>3, <1>4, <1>5, <1>6, <1>7, NextSplit DEF Elsewhere

-----------------------------------------------------------------------------
\* The types, part by part.
Calls(k) ==
    [op : {"none", "read", "flags", "send"}, id : 0 .. k, store : Storages,
     saves : BOOLEAN, one : BOOLEAN, result : {"none", "true", "false"}]
CallType ==
    /\ pc \in {"rest", "connect", "flags", "search", "mails", "parts", "mount",
               "bodies", "unmount", "send", "file"}
    /\ call \in Calls(n) /\ n \in 0 .. MaxCalls
    /\ told \in 0 .. n /\ silent \in BOOLEAN
StorageType ==
    /\ sdOk \in BOOLEAN /\ pinsSet \in BOOLEAN /\ flash \in BOOLEAN
    /\ card \in {"off", "default", "pins"}
DataType ==
    /\ nums \in 0 .. Limit \cup {1}
    /\ rows \in Seq(Mails \cup {<<>>}) /\ Len(rows) <= nums
    /\ session \in {"none", "true", "false"}
HistoryType == wish \in {"default", "pins"} /\ used \subseteq Storages /\ missed \in BOOLEAN

LEMMA TypeParts == TypeOK <=> CallType /\ StorageType /\ DataType /\ HistoryType
BY DEF TypeOK, CallType, StorageType, DataType, HistoryType, Calls

LEMMA TypeInit == Init => TypeOK
<1> SUFFICES ASSUME Init PROVE TypeOK
  OBVIOUS
<1>1. CallType
  <2>1. n = 0 /\ told = 0 /\ pc = "rest" /\ silent = FALSE
    BY DEF Init
  <2>2. 0 \in 0 .. 0 /\ 0 \in 0 .. MaxCalls
    BY BoundsAssumption
  <2>3. call \in Calls(0)
    BY <2>2 DEF Init, Calls, Storages
  <2> QED
    BY <2>1, <2>2, <2>3 DEF CallType
<1>2. StorageType /\ HistoryType
  BY DEF Init, StorageType, HistoryType
<1>3. DataType
  <2>1. <<>> \in Seq(Mails \cup {<<>>}) /\ Len(<<>>) = 0
    OBVIOUS
  <2> QED
    BY <2>1, BoundsAssumption DEF Init, DataType
<1> QED
  BY <1>1, <1>2, <1>3, TypeParts

\* A return keeps everything of the call but its result.
LEMMA Returns ==
    ASSUME CallType, NEW result \in {"true", "false"}, Return(result), n' = n,
           told' \in {told, call.id}, silent' \in BOOLEAN
    PROVE  CallType'
<1>1. call' \in Calls(n)
  BY DEF CallType, Calls, Return
<1>2. told' \in 0 .. n
  BY DEF CallType, Calls
<1> QED
  BY <1>1, <1>2 DEF CallType, Return

LEMMA CallTypeStep == ASSUME CallType, [Next]_vars PROVE CallType'
<1>0. told \in 0 .. n /\ call.id \in 0 .. n /\ n \in 0 .. MaxCalls /\ MaxCalls \in Nat
  BY BoundsAssumption DEF CallType, Calls
<1>1. CASE SdBegins \/ Empty
  <2>1. n' = n + 1 /\ n < MaxCalls /\ UNCHANGED <<pc, call, told, silent>>
    BY <1>1 DEF SdBegins, SdBegin, Empty
  <2>2. n' \in 0 .. MaxCalls /\ told' \in 0 .. n' /\ 0 .. n \subseteq 0 .. n'
    BY <1>0, <2>1
  <2>3. call' \in Calls(n')
    BY <2>1, <2>2 DEF CallType, Calls
  <2> QED
    BY <2>1, <2>2, <2>3 DEF CallType
<1>2. CASE Starts
  <2>1. PICK op, stage :
          /\ Start(op, stage)
          /\ op \in {"read", "flags", "send"} /\ stage \in {"connect", "send"}
    BY <1>2 DEF Starts, StartRead, StartFlags, StartSend
  <2>2. n' = n + 1 /\ n < MaxCalls /\ pc' = stage /\ UNCHANGED <<told, silent>>
    BY <2>1 DEF Start
  <2>3. n' \in 0 .. MaxCalls /\ told' \in 0 .. n' /\ n' \in 0 .. n'
    BY <1>0, <2>2
  <2>4. call' \in Calls(n')
    BY <2>1, <2>3 DEF Start, Calls
  <2> QED
    BY <2>1, <2>2, <2>3, <2>4 DEF CallType
<1>3. CASE ConnectFails
  <2>1. silent' \in BOOLEAN
    BY <1>3 DEF ConnectFails
  <2> QED
    BY <1>3, <2>1, Returns DEF ConnectFails
<1>4. CASE FlagsEnd \/ SearchFails \/ HeaderFails \/ ReadEnds \/ SendEnds
  <2>1. /\ Return("true") \/ Return("false")
        /\ n' = n /\ silent' = silent /\ told' \in {told, call.id}
    BY <1>4 DEF FlagsEnd, SearchFails, HeaderFails, ReadEnds, SendEnds, Fail
  <2>2. silent' \in BOOLEAN
    BY <2>1 DEF CallType
  <2> QED
    BY <2>1, <2>2, Returns
<1>5. CASE \/ ConnectSucceeds \/ SearchSucceeds \/ HeaderFetched \/ FindParts
           \/ MountForRead \/ MountForSend \/ FetchBodies \/ LookForFile \/ Unmount
           \/ UNCHANGED vars
  <2>1. UNCHANGED <<call, n>> /\ told' \in {told, call.id} /\ silent' \in {silent, FALSE}
    BY <1>5 DEF ConnectSucceeds, SearchSucceeds, HeaderFetched, FindParts, MountForRead,
                MountForSend, FetchBodies, LookForFile, Unmount, vars
  <2>2. pc' \in {"flags", "search", "mails", "parts", "mount", "bodies", "unmount",
                 "send", "file", pc}
    BY <1>5 DEF ConnectSucceeds, SearchSucceeds, HeaderFetched, FindParts, MountForRead,
                MountForSend, FetchBodies, LookForFile, Unmount, vars
  <2>3. told' \in 0 .. n
    BY <1>0, <2>1
  <2> QED
    BY <2>1, <2>2, <2>3 DEF CallType
<1> QED
  BY <1>1, <1>2, <1>3, <1>4, <1>5, NextSplit DEF Elsewhere

LEMMA StorageTypeStep == ASSUME IInv, [Next]_vars PROVE StorageType'
<1>0. StorageType
  BY TypeParts DEF IInv
<1>1. CASE SdBegins
  <2>1. PICK pins \in {"pins", "default"} : SdBegin(pins)
    BY <1>1 DEF SdBegins
  <2>2. BeginCard(pins) /\ pinsSet' \in BOOLEAN /\ UNCHANGED <<sdOk, flash>>
    BY <2>1 DEF SdBegin
  <2>3. card' \in {"off", "default", "pins"}
    BY <2>2, CardBegins DEF IInv
  <2> QED
    BY <1>0, <2>2, <2>3 DEF StorageType
<1>2. CASE MountForRead \/ MountForSend
  <2>1. call.store \in used
    BY <1>2 DEF MountForRead, MountForSend, IInv, InStage, Given
  <2>2. CASE Mount
    BY <2>1, <2>2, Mounts DEF StorageType
  <2>3. CASE UNCHANGED storage
    BY <1>0, <2>3 DEF StorageType, storage
  <2> QED
    BY <1>2, <2>2, <2>3 DEF MountForRead, MountForSend
<1>3. CASE Unmount
  <2>1. sdOk' = FALSE /\ card' \in {"off", card} /\ pinsSet' = pinsSet
    BY <1>3 DEF Unmount
  <2>2. flash' \in BOOLEAN
    BY <1>3 DEF Unmount
  <2> QED
    BY <1>0, <2>1, <2>2 DEF StorageType
<1>4. CASE Starts \/ Elsewhere \/ FetchBodies \/ LookForFile \/ UNCHANGED vars
  <2>1. UNCHANGED <<sdOk, pinsSet, card, flash>>
    BY <1>4 DEF Starts, StartRead, StartFlags, StartSend, Start, Elsewhere, Empty,
                ConnectFails, ConnectSucceeds, FlagsEnd, SearchFails, SearchSucceeds,
                HeaderFails, HeaderFetched, FindParts, ReadEnds, SendEnds,
                FetchBodies, LookForFile, vars, storage
  <2> QED
    BY <1>0, <2>1 DEF StorageType
<1> QED
  BY <1>1, <1>2, <1>3, <1>4, NextSplit

LEMMA DataTypeStep == ASSUME IInv, [Next]_vars PROVE DataType'
<1> DEFINE R == Mails \cup {<<>>}
<1>0. /\ nums \in 0 .. Limit \cup {1} /\ Limit \in Nat
      /\ rows \in Seq(R) /\ Len(rows) <= nums
      /\ session \in {"none", "true", "false"}
  BY BoundsAssumption DEF IInv, TypeOK
<1>1. <<>> \in Seq(R) /\ Len(<<>>) = 0 /\ <<>> \in R /\ Mails \subseteq R
  OBVIOUS
<1> SUFFICES /\ nums' \in 0 .. Limit \cup {1} /\ rows' \in Seq(R) /\ Len(rows') <= nums'
             /\ session' \in {"none", "true", "false"}
  BY DEF DataType
<1> HIDE DEF R
<1>2. CASE Empty \/ ConnectSucceeds
  <2>1. nums' = 0 /\ rows' = <<>> /\ session' = "none"
    BY <1>2 DEF Empty, ConnectSucceeds
  <2> QED
    BY <1>0, <1>1, <2>1
<1>3. CASE FlagsEnd \/ ReadEnds
  <2>1. UNCHANGED <<nums, rows>> /\ session' \in {"true", "false"}
    BY <1>3 DEF FlagsEnd, ReadEnds
  <2> QED
    BY <1>0, <2>1
<1>4. CASE SearchFails \/ SearchSucceeds
  <2>1. /\ nums' \in 0 .. Limit \cup {1} /\ rows' = rows /\ session' \in {session, "false"}
    BY <1>4 DEF SearchFails, SearchSucceeds
  <2>2. rows = <<>>
    BY <1>4 DEF SearchFails, SearchSucceeds, IInv, Filled
  <2> QED
    BY <1>0, <1>1, <2>1, <2>2
<1>5. CASE HeaderFails \/ HeaderFetched
  <2>1. /\ Len(rows) < nums /\ rows' = Append(rows, <<>>) /\ nums' = nums
        /\ session' \in {session, "false"}
    BY <1>5 DEF HeaderFails, HeaderFetched
  <2>2. rows' \in Seq(R) /\ Len(rows') = Len(rows) + 1 /\ Len(rows) \in Nat
    BY <1>0, <1>1, <2>1
  <2> QED
    BY <1>0, <2>1, <2>2
<1>6. CASE FindParts
  <2>1. UNCHANGED <<nums, session>>
    BY <1>6 DEF FindParts
  <2>2. PICK m \in Mails : rows' = [rows EXCEPT ![Len(rows)] = m]
    BY <1>6 DEF FindParts
  <2>3. rows' \in Seq(R) /\ Len(rows') = Len(rows)
    <3>1. rows \in [1 .. Len(rows) -> R] /\ Len(rows) \in Nat
      BY <1>0, LenProperties
    <3>2. rows' \in [1 .. Len(rows) -> R] /\ DOMAIN rows' = 1 .. Len(rows)
      BY <1>1, <2>2, <3>1
    <3>3. rows' \in Seq(R)
      BY <3>1, <3>2, SeqDef
    <3> QED
      BY <3>1, <3>2, <3>3, LenProperties
  <2> QED
    BY <1>0, <2>1, <2>3
<1>7. CASE \/ SdBegins \/ Starts \/ ConnectFails \/ SendEnds \/ MountForRead \/ MountForSend
           \/ FetchBodies \/ LookForFile \/ Unmount \/ UNCHANGED vars
  <2>1. UNCHANGED <<nums, rows, session>>
    BY <1>7 DEF SdBegins, SdBegin, Starts, StartRead, StartFlags, StartSend, Start,
                ConnectFails, SendEnds, MountForRead, MountForSend, FetchBodies,
                LookForFile, Unmount, vars, data
  <2> QED
    BY <1>0, <2>1
<1> QED
  BY <1>2, <1>3, <1>4, <1>5, <1>6, <1>7, NextSplit DEF Elsewhere

LEMMA HistoryTypeStep == ASSUME HistoryType, CallType, [Next]_vars PROVE HistoryType'
<1>0. call.store \in Storages
  BY DEF CallType, Calls
<1>1. CASE Starts
  <2>1. PICK op, stage : Start(op, stage)
    BY <1>1 DEF Starts, StartRead, StartFlags, StartSend
  <2>2. used' \subseteq Storages /\ UNCHANGED <<wish, missed>>
    BY <2>1 DEF Start, HistoryType
  <2> QED
    BY <2>2 DEF HistoryType
<1>2. CASE SdBegins
  <2>1. wish' \in {"default", "pins"} /\ UNCHANGED <<used, missed>>
    BY <1>2 DEF SdBegins, SdBegin
  <2> QED
    BY <2>1 DEF HistoryType
<1>3. CASE FetchBodies \/ LookForFile
  <2>1. missed' \in BOOLEAN /\ UNCHANGED <<wish, used>>
    BY <1>3 DEF FetchBodies, LookForFile
  <2> QED
    BY <2>1 DEF HistoryType
<1>4. CASE Elsewhere \/ MountForRead \/ MountForSend \/ Unmount \/ UNCHANGED vars
  <2>1. UNCHANGED <<wish, used, missed>>
    BY <1>4 DEF Elsewhere, Empty, ConnectFails, ConnectSucceeds, FlagsEnd, SearchFails,
                SearchSucceeds, HeaderFails, HeaderFetched, FindParts, ReadEnds, SendEnds,
                MountForRead, MountForSend, Unmount, vars, history
  <2> QED
    BY <2>1 DEF HistoryType
<1> QED
  BY <1>1, <1>2, <1>3, <1>4, NextSplit

-----------------------------------------------------------------------------
LEMMA InvInit == Init => IInv
<1>0. Init => Given
  BY DEF Init, Given
<1>1. Init => InStage /\ PinsKept /\ ReasonIsOwn
  <2> SUFFICES ASSUME Init PROVE InStage /\ PinsKept /\ ReasonIsOwn
    OBVIOUS
  <2>1. pc = "rest" /\ call.op = "none" /\ pinsSet = FALSE /\ wish = "default"
    BY DEF Init
  <2>2. InStage
    BY <2>1 DEF InStage
  <2>3. PinsKept
    BY <2>1 DEF PinsKept
  <2>4. ReasonIsOwn
    BY <2>1 DEF ReasonIsOwn
  <2> QED
    BY <2>2, <2>3, <2>4
<1>2. Init => Filled
  <2>1. Len(<<>>) = 0
    OBVIOUS
  <2> QED
    BY <2>1 DEF Init, Filled
<1> QED
  BY <1>0, <1>1, <1>2, TypeInit DEF IInv

LEMMA InvNext == IInv /\ [Next]_vars => IInv'
<1> SUFFICES ASSUME IInv, [Next]_vars PROVE IInv'
  OBVIOUS
<1>1. CallType /\ HistoryType
  BY TypeParts DEF IInv
<1>2. TypeOK'
  <2>1. CallType'
    BY <1>1, CallTypeStep
  <2>2. StorageType'
    BY StorageTypeStep
  <2>3. DataType'
    BY DataTypeStep
  <2>4. HistoryType'
    BY <1>1, HistoryTypeStep
  <2> QED
    BY <2>1, <2>2, <2>3, <2>4 DEF TypeOK, CallType, StorageType, DataType, HistoryType, Calls
<1> QED
  BY <1>2, InStageStep, GivenStep, PinsStep, FilledStep, ReasonStep DEF IInv

\* What is true between and within calls, for any number of them.
THEOREM Inductive == Spec => []IInv
<1> QED
  BY InvInit, InvNext, PTL DEF Spec

\* The types, with the vectors never longer than _msgNum.
THEOREM TypeCorrect == Spec => []TypeOK
<1>1. IInv => TypeOK
  BY DEF IInv
<1> QED
  BY <1>1, Inductive, PTL

\* imapErrorReason after false speaks of the call that failed, unless its last
\* connect() alone failed.
THEOREM ReasonsAreOwn == Spec => []ReasonIsOwn
<1>1. IInv => ReasonIsOwn
  BY DEF IInv
<1> QED
  BY <1>1, Inductive, PTL

\* One kind of storage at most: then all calls were given the same.
LEMMA OneKind ==
    ASSUME used \subseteq Storages, Cardinality(used) <= 1
    PROVE  \E s \in Storages : used \subseteq {s}
<1> SUFFICES ASSUME \A s \in Storages : ~(used \subseteq {s}) PROVE FALSE
  OBVIOUS
<1>1. used = {"SD"} \cup {"SPIFFS"}
  BY DEF Storages
<1>2. IsFiniteSet({"SD"}) /\ Cardinality({"SD"}) = 1
  BY FS_Singleton
<1>3. Cardinality({"SD"} \cup {"SPIFFS"}) = 2
  BY <1>2, FS_AddElement
<1> QED
  BY <1>1, <1>3

\* No file is looked for on a storage that is not mounted while all calls are
\* given the same kind, and the card keeps the pins the caller asked for.
THEOREM StorageIsReady == Spec => []StorageReady
<1>1. IInv => StorageReady
  <2> SUFFICES ASSUME IInv PROVE StorageReady
    OBVIOUS
  <2>1. used \subseteq Storages
    BY DEF IInv, TypeOK
  <2>2. Cardinality(used) <= 1 => ~missed
    BY <2>1, OneKind DEF IInv, Given
  <2> QED
    BY <2>2 DEF IInv, PinsKept, StorageReady
<1> QED
  BY <1>1, Inductive, PTL

\* A getter stays within its vector unless the last session that got a
\* connection returned false.
THEOREM GettersInRange == Spec => []InRange
<1>1. IInv => InRange
  <2> SUFFICES ASSUME IInv, pc = "rest", NEW i \in 0 .. Limit, Row(i) = "beyond",
                      session # "false"
               PROVE  FALSE
    BY DEF InRange
  <2>1. i < nums /\ ~(i < Len(rows))
    <3>1. nums \in Int
      BY BoundsAssumption DEF IInv, TypeOK
    <3> QED
      BY <3>1 DEF Row
  <2>2. nums <= Len(rows) /\ nums \in Int /\ Len(rows) \in Int
    BY BoundsAssumption DEF IInv, TypeOK, Filled
  <2> QED
    BY <2>1, <2>2
<1> QED
  BY <1>1, Inductive, PTL

-----------------------------------------------------------------------------
\* The getters of attachments: a part has as its number how many attachments
\* stand before it, which takes them one to one to the numbers below their own.

Attached(m) == {k \in DOMAIN m : m[k].attached}
Before(m, k) == {l \in 1 .. k - 1 : m[l].attached}
Number(m, k) == Cardinality(Before(m, k))

LEMMA AttachedAre ==
    ASSUME NEW m \in Seq(Parts)
    PROVE  /\ IsFiniteSet(Attached(m)) /\ Cardinality(Attached(m)) \in Nat
           /\ Attached(m) \subseteq Nat \ {0}
           /\ \A k \in Attached(m) : Before(m, k) = {l \in Attached(m) : l < k}
<1>1. DOMAIN m = 1 .. Len(m) /\ Len(m) \in Nat
  BY LenProperties
<1>2. Attached(m) \in SUBSET (1 .. Len(m)) /\ IsFiniteSet(1 .. Len(m))
  BY <1>1, FS_Interval DEF Attached
<1>3. ASSUME NEW k \in Attached(m)
      PROVE  Before(m, k) = {l \in Attached(m) : l < k}
  <2>1. k \in 1 .. Len(m) /\ 1 .. k - 1 = {l \in 1 .. Len(m) : l < k}
    BY <1>1, <1>2
  <2> QED
    BY <1>1, <2>1 DEF Before, Attached
<1> QED
  BY <1>2, <1>3, FS_Subset, FS_CardinalityType

LEMMA NumbersRise ==
    ASSUME NEW m \in Seq(Parts)
    PROVE  /\ \A k \in Attached(m) : Number(m, k) \in 0 .. Cardinality(Attached(m)) - 1
           /\ \A j, k \in Attached(m) : j < k => Number(m, j) < Number(m, k)
<1> DEFINE A == Attached(m)
<1>1. /\ IsFiniteSet(A) /\ Cardinality(A) \in Nat /\ A \subseteq Nat
      /\ \A k \in A : Before(m, k) = {l \in A : l < k}
  BY AttachedAre
<1> HIDE DEF A
<1>2. ASSUME NEW k \in A
      PROVE  /\ IsFiniteSet(Before(m, k)) /\ Number(m, k) \in Nat
             /\ k \notin Before(m, k)
             /\ Cardinality(Before(m, k) \cup {k}) = Number(m, k) + 1
             /\ IsFiniteSet(Before(m, k) \cup {k})
  <2>1. Before(m, k) \in SUBSET A /\ k \notin Before(m, k)
    BY <1>1, <1>2
  <2>2. IsFiniteSet(Before(m, k))
    BY <1>1, <2>1, FS_Subset
  <2> QED
    BY <2>1, <2>2, FS_CardinalityType, FS_AddElement DEF Number
<1>3. ASSUME NEW k \in A PROVE Number(m, k) \in 0 .. Cardinality(A) - 1
  <2>1. Before(m, k) \cup {k} \in SUBSET A
    BY <1>1, <1>3
  <2>2. Number(m, k) + 1 <= Cardinality(A)
    <3>1. Cardinality(Before(m, k) \cup {k}) <= Cardinality(A)
      BY <1>1, <2>1, FS_Subset
    <3> QED
      BY <1>2, <1>3, <3>1
  <2>3. Number(m, k) \in Nat
    BY <1>2, <1>3
  <2> QED
    BY <1>1, <2>2, <2>3
<1>4. ASSUME NEW j \in A, NEW k \in A, j < k PROVE Number(m, j) < Number(m, k)
  <2>1. Before(m, j) \cup {j} \in SUBSET Before(m, k)
    <3>1. Before(m, j) = {l \in A : l < j} /\ Before(m, k) = {l \in A : l < k}
      BY <1>1, <1>4
    <3>2. ASSUME NEW l \in A, l < j PROVE l < k
      <4>1. l \in Nat /\ j \in Nat /\ k \in Nat
        BY <1>1, <1>4
      <4> QED
        BY <1>4, <3>2, <4>1
    <3> QED
      BY <1>4, <3>1, <3>2
  <2>2. Cardinality(Before(m, j) \cup {j}) <= Cardinality(Before(m, k))
    BY <1>2, <1>4, <2>1, FS_Subset
  <2>3. /\ Cardinality(Before(m, j) \cup {j}) = Number(m, j) + 1
        /\ Number(m, j) \in Nat /\ Number(m, k) \in Nat
    BY <1>2, <1>4
  <2> QED
    BY <2>2, <2>3 DEF Number
<1> QED
  BY <1>3, <1>4 DEF A

\* So the numbers below that of all attachments are those of one each.
LEMMA NumbersMeet ==
    ASSUME NEW m \in Seq(Parts), NEW j \in 0 .. Cardinality(Attached(m)) - 1
    PROVE  \E k \in Attached(m) : Number(m, k) = j
<1> DEFINE A == Attached(m)
           T == 0 .. Cardinality(A) - 1
           number == [k \in A |-> Number(m, k)]
<1>1. IsFiniteSet(A) /\ Cardinality(A) \in Nat /\ A \subseteq Nat
  BY AttachedAre
<1>2. /\ \A k \in A : Number(m, k) \in T
      /\ \A k, l \in A : k < l => Number(m, k) < Number(m, l)
  BY NumbersRise
<1>3. IsFiniteSet(T) /\ Cardinality(T) = Cardinality(A)
  <2>1. Cardinality(A) - 1 \in Int
    BY <1>1
  <2>2. IsFiniteSet(T) /\ Cardinality(T) =
          IF 0 > Cardinality(A) - 1 THEN 0 ELSE (Cardinality(A) - 1) - 0 + 1
    BY <2>1, FS_Interval
  <2> QED
    BY <1>1, <2>2
<1>4. \A k, l \in A : Number(m, k) = Number(m, l) => k = l
  <2> SUFFICES ASSUME NEW k \in A, NEW l \in A, Number(m, k) = Number(m, l), k # l
               PROVE  FALSE
    OBVIOUS
  <2>1. k < l \/ l < k
    BY <1>1
  <2>2. Number(m, k) \in Int
    BY <1>2
  <2> QED
    BY <1>2, <2>1, <2>2
<1> HIDE DEF A, T
<1>5. number \in Injection(A, T)
  BY <1>2, <1>4 DEF Injection, IsInjective
<1>6. number \in Surjection(A, T)
  BY <1>3, <1>5, FS_Injection
<1>7. PICK k \in A : number[k] = j
  BY <1>6 DEF Surjection, T, A
<1> QED
  BY <1>7 DEF A

LEMMA NthIs ==
    ASSUME NEW m \in Seq(Parts), NEW j \in Nat
    PROVE  /\ j < Cardinality(Attached(m)) =>
                 NthAttachment(m, j) \in Attached(m) /\ Number(m, NthAttachment(m, j)) = j
           /\ j = Cardinality(Attached(m)) => NthAttachment(m, j) = 0
<1> DEFINE found == {k \in Attached(m) : Number(m, k) = j}
<1>1. NthAttachment(m, j) = IF found = {} THEN 0 ELSE CHOOSE k \in found : TRUE
  BY DEF NthAttachment, Attached, Number, Before
<1>2. Cardinality(Attached(m)) \in Nat
  BY AttachedAre
<1>3. ASSUME j < Cardinality(Attached(m))
      PROVE  NthAttachment(m, j) \in Attached(m) /\ Number(m, NthAttachment(m, j)) = j
  <2>1. found # {}
    BY <1>2, <1>3, NumbersMeet
  <2>2. NthAttachment(m, j) \in found
    BY <1>1, <2>1
  <2> QED
    BY <2>2
<1>4. ASSUME j = Cardinality(Attached(m)) PROVE NthAttachment(m, j) = 0
  <2>1. \A k \in Attached(m) : Number(m, k) # j
    BY <1>2, <1>4, NumbersRise
  <2>2. found = {}
    BY <2>1
  <2> QED
    BY <1>1, <2>2
<1> QED
  BY <1>3, <1>4

LEMMA IndexAnswers ==
    ASSUME NEW m \in Seq(Parts) PROVE ByIndex(m)
<1> DEFINE A == Attached(m)
           C == Cardinality(A)
           nth == [j \in 0 .. C - 1 |-> NthAttachment(m, j)]
<1>1. IsFiniteSet(A) /\ C \in Nat /\ A \subseteq Nat
  BY AttachedAre
<1>2. \A k \in A : Number(m, k) \in 0 .. C - 1
  BY NumbersRise
<1>3. \A k, l \in A : k < l => Number(m, k) < Number(m, l)
  BY NumbersRise
<1>4. ASSUME NEW j \in 0 .. C - 1
      PROVE  nth[j] = NthAttachment(m, j) /\ nth[j] \in A /\ Number(m, nth[j]) = j
  <2>1. j \in Nat /\ j < C
    BY <1>1
  <2> QED
    BY <2>1, NthIs
<1>5. NthAttachment(m, C) = 0
  BY <1>1, NthIs
<1>6. DOMAIN nth = 0 .. C - 1
  OBVIOUS
<1> HIDE DEF A, C, nth
<1>7. ASSUME NEW k \in A PROVE \E j \in DOMAIN nth : nth[j] = k
  <2>1. PICK j \in 0 .. C - 1 : Number(m, k) = j
    BY <1>2, <1>7
  <2>2. nth[j] \in A /\ Number(m, nth[j]) = j
    BY <1>4
  <2>3. ~(nth[j] < k) /\ ~(k < nth[j])
    <3>1. j \in Int
      OBVIOUS
    <3> QED
      BY <1>3, <1>7, <2>1, <2>2, <3>1
  <2>4. nth[j] = k
    <3>1. nth[j] \in Nat /\ k \in Nat
      BY <1>1, <1>7, <2>2
    <3> QED
      BY <2>3, <3>1
  <2> QED
    BY <1>6, <2>4
<1>8. {nth[j] : j \in DOMAIN nth} = A
  BY <1>4, <1>6, <1>7
<1>9. ASSUME NEW j \in DOMAIN nth, j > 0 PROVE nth[j - 1] < nth[j]
  <2>1. j \in 0 .. C - 1 /\ j - 1 \in 0 .. C - 1 /\ j - 1 < j
    BY <1>1, <1>6, <1>9
  <2>2. /\ nth[j] \in A /\ Number(m, nth[j]) = j
        /\ nth[j - 1] \in A /\ Number(m, nth[j - 1]) = j - 1
    BY <1>4, <2>1
  <2>3. nth[j] # nth[j - 1]
    BY <2>1, <2>2
  <2>4. ~(nth[j] < nth[j - 1])
    <3>1. j \in Int
      BY <2>1
    <3>2. ~(j < j - 1)
      BY <3>1
    <3> QED
      BY <1>3, <2>2, <3>2
  <2> QED
    <3>1. nth[j] \in Nat /\ nth[j - 1] \in Nat
      BY <1>1, <2>2
    <3> QED
      BY <2>3, <2>4, <3>1
<1> QED
  BY <1>5, <1>8, <1>9 DEF ByIndex, Attached, A, C, nth

-----------------------------------------------------------------------------
\* The getters of texts take the first part of their type.

\* The first part of its type is the one with the number 0 among them.
LEMMA FirstExists ==
    ASSUME NEW m \in Seq(Parts), NEW t, NEW k \in DOMAIN m, m[k].type = t
    PROVE  \E f \in DOMAIN m : /\ m[f].type = t
                              /\ \A l \in DOMAIN m : m[l].type = t => f <= l
<1> DEFINE marked == [l \in 1 .. Len(m) |-> [type |-> "other", attached |-> m[l].type = t]]
<1>1. DOMAIN m = 1 .. Len(m) /\ Len(m) \in Nat
  BY LenProperties
<1>2. marked \in Seq(Parts) /\ DOMAIN marked = 1 .. Len(m)
  <2>1. \A l \in 1 .. Len(m) : [type |-> "other", attached |-> m[l].type = t] \in Parts
    BY DEF Parts
  <2>2. marked \in [1 .. Len(m) -> Parts]
    BY <2>1
  <2> QED
    BY <1>1, <2>2, SeqDef
<1>3. Attached(marked) = {l \in DOMAIN m : m[l].type = t}
  BY <1>1, <1>2 DEF Attached
<1> HIDE DEF marked
<1>4. 0 \in 0 .. Cardinality(Attached(marked)) - 1
  <2>1. IsFiniteSet(Attached(marked)) /\ Cardinality(Attached(marked)) \in Nat
    BY <1>2, AttachedAre
  <2>2. Cardinality(Attached(marked)) # 0
    BY <1>3, <2>1, FS_EmptySet
  <2> QED
    BY <2>1, <2>2
<1>5. PICK f \in Attached(marked) : Number(marked, f) = 0
  BY <1>2, <1>4, NumbersMeet
<1>6. \A l \in Attached(marked) : ~(l < f)
  <2> SUFFICES ASSUME NEW l \in Attached(marked), l < f PROVE FALSE
    OBVIOUS
  <2>1. Number(marked, l) \in Nat /\ Number(marked, l) < Number(marked, f)
    BY <1>2, NumbersRise
  <2> QED
    BY <1>5, <2>1
<1> QED
  BY <1>1, <1>3, <1>5, <1>6

LEMMA TypeAnswers ==
    ASSUME NEW m \in Seq(Parts) PROVE ByType(m)
<1> SUFFICES ASSUME NEW t \in Texts, NEW k \in DOMAIN m,
                    m[k] = [type |-> t, attached |-> FALSE],
                    ~\E l \in 1 .. k - 1 : m[l] = [type |-> t, attached |-> TRUE]
             PROVE  ~m[TextPart(m, t)].attached
  BY DEF ByType
<1> DEFINE found == {l \in DOMAIN m : m[l].type = t}
           first == TextPart(m, t)
<1>1. DOMAIN m = 1 .. Len(m) /\ Len(m) \in Nat /\ \A l \in DOMAIN m : m[l] \in Parts
  BY LenProperties, ElementOfSeq
<1>2. k \in found
  OBVIOUS
<1>3. \E f \in found : \A l \in found : f <= l
  <2>1. PICK f \in DOMAIN m : m[f].type = t /\ \A l \in DOMAIN m : m[l].type = t => f <= l
    <3>1. m[k].type = t
      OBVIOUS
    <3> QED
      BY <3>1, FirstExists
  <2> QED
    BY <2>1
<1>4. first = CHOOSE f \in found : \A l \in found : f <= l
  BY <1>2 DEF TextPart
<1>5. first \in found /\ first <= k
  BY <1>2, <1>3, <1>4
<1> HIDE DEF first
<1>6. CASE first = k
  BY <1>6 DEF first
<1>7. CASE first # k
  <2>1. first \in 1 .. k - 1
    BY <1>1, <1>5, <1>7
  <2>2. m[first] \in Parts /\ m[first].type = t
    BY <1>1, <1>5
  <2>3. m[first] = [type |-> t, attached |-> m[first].attached] /\ m[first].attached \in BOOLEAN
    BY <2>2 DEF Parts
  <2>4. m[first].attached # TRUE
    BY <2>1, <2>3
  <2> QED
    BY <2>3, <2>4 DEF first
<1> QED
  BY <1>6, <1>7

\* A getter stays within its vector unless the last session failed; within a
\* row the numbers below that of the attachments name each of them once, in
\* their order, and no other names one; and the text is that of no attachment,
\* unless one of its type comes first.  For mails of any number of parts.
THEOREM GettersAreRight == Spec => []GettersAnswer
<1>1. IInv => \A i \in DOMAIN rows : ByIndex(rows[i]) /\ ByType(rows[i])
  <2> SUFFICES ASSUME IInv, NEW i \in DOMAIN rows PROVE ByIndex(rows[i]) /\ ByType(rows[i])
    OBVIOUS
  <2>1. rows[i] \in Mails \cup {<<>>}
    BY LenProperties, ElementOfSeq DEF IInv, TypeOK
  <2>2. rows[i] \in Seq(Parts)
    <3>1. <<>> \in Seq(Parts)
      OBVIOUS
    <3> QED
      BY <2>1, <3>1, MailsAssumption
  <2> QED
    BY <2>2, IndexAnswers, TypeAnswers
<1> QED
  BY <1>1, Inductive, GettersInRange, PTL DEF GettersAnswer
=============================================================================
