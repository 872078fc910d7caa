---------------------------- MODULE ImapSearchMC ----------------------------
(* Replies for ImapSearch: the matches of a mailbox of few messages.       *)
EXTENDS ImapSearch, FiniteSets

CONSTANT Mailbox   \* number of messages in the folder

Word(kind) == [kind |-> kind, value |-> 0]
Number(n) == [kind |-> "number", value |-> n]

Ascending(S) ==
    CHOOSE s \in [1 .. Cardinality(S) -> S] :
        \A i, j \in 1 .. Cardinality(S) : i < j => s[i] < s[j]

Found(S) ==
    <<Word("star"), Word("search")>>
      \o [i \in 1 .. Cardinality(S) |-> Number(Ascending(S)[i])]

Tagged == <<Word("other"), Word("other"), Word("other")>>
Exists == <<Word("star"), Number(Mailbox), Word("other")>>
Refused == <<Word("other"), Word("bad"), Word("other")>>

MCReplies ==
    {<<Found(S), Tagged>> : S \in SUBSET (1 .. Mailbox)}
      \cup {<<Append(Found(S), Word("empty")), Tagged>> : S \in SUBSET (1 .. Mailbox)}
      \cup {<<Exists, Found(1 .. Mailbox), Tagged>>, <<Tagged>>, <<Refused>>}
=============================================================================
