----------------------------- MODULE MailCallsMC -----------------------------
\* Small mails for MailCalls: one text, both texts and two files, a text file
\* attached before the text and after it.
EXTENDS MailCalls

Part(type, attached) == [type |-> type, attached |-> attached]
Plain == Part("plain", FALSE)
MCMails ==
    {<<Plain>>,
     <<Part("other", TRUE), Plain, Part("html", FALSE), Part("other", TRUE)>>,
     <<Part("plain", TRUE), Plain>>,
     <<Plain, Part("plain", TRUE)>>}
=============================================================================
