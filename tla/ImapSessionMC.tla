--------------------------- MODULE ImapSessionMC ---------------------------
(***************************************************************************)
(* ImapSession on two searches, a mailbox read without criteria, and a few *)
(* mails: texts and attachments in and beside a multipart, leaves whose    *)
(* content type has no parameter, at the top and first in a multipart, an  *)
(* inline text, and (for the counter-claim) two multiparts.                *)
(***************************************************************************)
EXTENDS ImapSession

Leaf(type, disp) == [type |-> type, disp |-> disp]
Text == Leaf("text", "")
Html == Leaf("html", "")
Att == Leaf("file", "att")
Alone(leaf) == [type |-> leaf.type, disp |-> leaf.disp, subs |-> <<>>]
Multi(subs) == [type |-> "multi", disp |-> "", subs |-> subs]
All == [download |-> TRUE, save |-> TRUE, text |-> TRUE, html |-> TRUE]
TextOnly == [download |-> FALSE, save |-> FALSE, text |-> TRUE, html |-> FALSE]

Search(n, criteria) == [uid |-> FALSE, criteria |-> criteria, opts |-> TextOnly,
                        mail |-> <<>>, found |-> n]
Mail(opts, mail) == [uid |-> TRUE, criteria |-> TRUE, opts |-> opts,
                     mail |-> mail, found |-> 1]

MCAsks == {Search(2, TRUE), Search(0, FALSE),
           Mail(TextOnly, <<Multi(<<Text, Html>>), Alone(Att)>>),
           Mail(All, <<Alone(Att), Alone(Leaf("", ""))>>),
           Mail(All, <<Multi(<<Leaf("", ""), Leaf("text", "inline"), Text>>)>>),
           Mail(All, <<Alone(Leaf("file", "big")), Multi(<<Text, Att>>)>>)}

TwoMultis == {Mail(TextOnly, <<Multi(<<Text, Html>>), Multi(<<Att>>)>>)}
=============================================================================
