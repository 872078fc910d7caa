# ESP32 Mail Client in TLA+

A specification of mobizt/ESP32-Mail-Client, an Arduino library that sends mail
over SMTP and reads mail over IMAP from an ESP32: TLA+ modules translated from
`src/src/*.cpp`, TLC configurations that check them on small instances, and
TLAPS proofs that hold for every instance. `PROJECT.json` ties every definition
to the lines it models, every property to a run and to a plausible mistake in
the code (a mutant) that breaks it, and lists the hazards that motivated the
properties. Line numbers below are those of `src/src/ESP32_MailClient.cpp`
unless another file is named.

## 1. The system and its parts

Everything runs on the task that calls the library; there is no second thread.
What makes the program hard is the other side: a server whose replies are late,
split, refused or lost, a link that may break between any two steps, and calls
that leave state behind for the next call.

| Component | State it keeps | Operations | Module |
|---|---|---|---|
| SMTP session, `sendMail` (1323-1907) and `waitSMTPResponse` (2110-2157) | position in the dialogue, loop counters, `_smtpStatus`, `_sdOk` | connect, STARTTLS, EHLO/HELO, AUTH LOGIN, MAIL, RCPT, DATA, body, wait for a reply, stop | `SmtpSession`, promise in `MailTransfer` |
| Message lists, `SMTPData` and `attachmentData` | `_recipient`, `_cc`, `_bcc`, `_customMessageHeader`; six attachment vectors and the `uint8_t` `_index` | add, remove by name and by number, clear, count, free | `SmtpData` |
| Base64 streams, `send_base64_encode_mime_data` / `_file` | chunk buffer, line length | encode, flush, pad | `Base64Stream` |
| IMAP search window (`readMail`, `waitIMAPResponse`, `setSearchLimit`, `setRecentSort`) | `_emailNumMax`, `_recentSort`, `_msgNum`, `_searchCount` | search, read a word, end the line and sort | `ImapSearch` |
| IMAP response wait, `waitIMAPResponse` (2195-3265) | line counter, announced payload, validity, completion; `_text`, the file, `downloadedByte`, `_size`, `_error` of a part | take one line, store it, give up | `ImapWait`; the body of a part in `ImapBody` |
| IMAP read session, `readMail` (66-901) | dialogue, `_msgNum`, headers, `_messageDataInfo`, `_partID`, `messageDataIndex`, `_attachmentCount`, `_sdOk`, `_imapStatus` | connect, login, list, examine, search, fetch headers, scan MIME parts, fetch texts and attachments, logout | `ImapSession` |
| IMAP flags, `_setFlag` (918-1245) and `getIMAPResponse` (2159-2193) | dialogue, `_imapStatus` | login, list, select, store, logout | `ImapFlags` |
| Storage: `sdTest`, `sdBegin`, `createDirs`, download files | `_sdOk`, `_sdConfigSet`, pins, the mounted storages | mount, test, look for a file, end | `MailCalls`; the bytes of a file in `ImapBody` |
| HTTP transport, `ESP32MailHTTPClient` | the TCP client pointer | `begin`, `connect`, `connected`, `getStreamPtr` | `TlsClient`; `getStreamPtr` inside the session modules |
| TLS client, `WiFiClientSecureESP32` and `ssl_client32` | mbedtls contexts, socket, `_connected` | start, STARTTLS, read, write, stop | `TlsClient`, promise in `MailLink` |
| Message getters (`IMAPData`, `messageBodyData`) | the vectors the session fills | an index check and a read; clear | `MailCalls` |
| `RFC2047` decoder | none between calls | decode a string | not modelled: character-level string work |
| `ESP32TimeHelper` | the C library's clock | `configTime`, read | not modelled: no protocol state |

How they interact: a caller fills an `SMTPData` or `IMAPData` object (plain
calls, no locks); `sendMail`, `readMail` and `_setFlag` run a whole session
through `ESP32MailHTTPClient`, whose stream is the TLS client; each command is
followed by one call of a wait function; `sendMail` hands attachments to the
base64 streams; `readMail` hands lines to the decoders and files to the storage.
`_sdOk`, `_smtpStatus` and `_imapStatus` are shared by all calls.

What is hard, and the property each part owes:

- *Matching replies to commands.* SMTP replies carry no tag, IMAP commands all
  carry the tag `$`. Whether a reply is taken for that of another command
  depends on when waits are given up and when replies arrive
  (`ReplyMatchesCommand`, `EarlierGranted`, `OwnReplies`).
- *What a return value means.* Silence, lost links and half-read replies all
  end in `true` or `false` (`RetrySafe`, `KeepsPromise`, `TrueMeansAccepted`,
  `TrueMeansStored`, `NothingMissing`).
- *Coming to an end.* Loops without a timeout, requests that are repeated
  (`Terminates`, `EndsOrPolls`).
- *Counters that shadow containers.* `_index`, `_partID`, `messageDataIndex`,
  `_searchCount`, `dByte` (`SoundUntilRemoval`, `EveryLeaf`,
  `CountCovers`, `LineFits`).
- *Limits.* The search window, the chunk buffer, 8-bit counters, an `int`
  compared with a `size_t` (`WithinLimit`, `GroupFits`, `SendsAll`).
- *Which bytes are the message.* The lines of a reply are framing or content by
  counting characters, for each kind of part by another rule (`TextIsOwn`,
  `FileIsPart`, `SizeIsFile`, `CutIsTold`).
- *What a call leaves behind.* Rows, reasons, mounted storages and pins
  (`GettersAnswer`, `ReasonIsOwn`, `StorageReady`); sockets and contexts of a
  connection that failed halfway (`Released`).
- *A link that ends in three ways.* Data received before the end must be
  readable after it, and a write arrives whole or not at all (`IsLink`).

The full list, each at its line, is under `hazards` in `PROJECT.json`.

## 2. The modules

    MailTransfer      promise of sendMail           <- refined by SmtpSession
    SmtpSession       sendMail, server, network        SmtpSessionMC, SmtpSession_proofs
    SmtpData          the lists sendMail reads         Attachments_proofs
    Base64Stream      an attachment on the wire        Base64StreamMC, Attachments_proofs
    ImapSearch        a SEARCH reply, word by word     ImapSearchMC, ImapSearch_proofs
    ImapWait          waitIMAPResponse, line by line (operators only)
      <- ImapSession  readMail, server, network        ImapSessionMC, ImapSession_proofs
      <- ImapFlags    _setFlag, server, network        ImapFlags_proofs
    ImapBody          waitIMAPResponse for the body     ImapBodyMC, ImapBody_proofs
                      of a part, byte by byte
    MailCalls         several calls on one client,      MailCallsMC, MailCalls_proofs
                      storage, getters
    MailLink          the link the sessions assume   <- refined by TlsClient
    TlsClient         start_ssl_client to stop, peer    TlsClientMC, TlsClient_proofs

Some definitions stand next to a plausible slip of the same operation (for
example `NextIndex` and `NextIndexWide`, `Accepts` and `AcceptsNoSilence`). They are not part
of any specification; `PROJECT.json` substitutes each of them for the definition it resembles
to show that the property named there depends on it.

### SmtpSession and MailTransfer

The client is `pc` and `cmd` (the command being sent or waited for), `part` for
the body, and what the caller sees (`status`, `result`). The connection is a
pipeline of three queues: commands on their way (`toSrv`), pieces of replies on
their way (`net`), and what the client can read (`inbox`). Every piece carries
the command it answers; the code cannot see that, the properties can.

- `ReadReply` and `GiveUp` are `waitSMTPResponse`: with something to read, all
  of it is read and the number that starts the first line is the answer; with
  nothing, the answer is -1000 (`NoCode`) after `tcpTimeout` or when the peer
  is gone. A wait may give up at any moment it has nothing to read, which
  covers every order of a timeout and a late reply.
- `Handle` is what `sendMail` does with the code: `StageAccepted`,
  `FallBackToHelo` (a refused EHLO is followed by HELO, with EHLO's reply
  perhaps still to come), `StageFailed`. `Accepts` has the comparison of line
  1855, which lets silence pass for the end of the message.
- `RcptFrom` is the three recipient loops with their `uint8_t` counters.
- `WriteOnDeadLink` is the write through the null pointer that `getStreamPtr()`
  returns on a dead link: the device resets (`crashed`).
- With STARTTLS the handshake reads the greeting, but only on ports 25 and 587
  (`HandshakeReadsGreeting`); `sendMail` skips its own wait on every port.
- The server (external) grants or refuses anything; a yes carries the code RFC
  5321 gives it, a no another; either may be unreadable. A reply to GREET,
  EHLO and HELO may take several lines, each of which may arrive on its own.

`MailTransfer` is the abstract promise with two variables: what became of the
message at the server, and what the caller was told. `true` only says that the
whole message was handed over; `false` says the server does not hold it and
never will. `SmtpSession` refines it under `fate <- Fate`, `answer <- Answer`.

### SmtpData

`att` stands for the six parallel vectors, `index` for `_index`, `removed` is a
history count. `remove()` leaves `_index` as it is, so every loop over the
attachments runs past the end of the vectors afterwards: what it finds there is
any answer (`stale`, a set chosen nondeterministically). `vector::erase` past the
end (4389-4397) is undefined: it may destroy or overwrite any element, of either
type. `Erase` then says that nothing is known, and `Install` leaves any list that
is no longer than before (`Ruins`) and sets `broken`, after which the object is not
used again. A loop that goes on after a removal is a recursive function over the
slots (`RemoveEach`); one that stops at the k-th match erases the slot with k
matches before it (`EraseKth`). `Send` is the attachment loop of `sendMail`: data is
sent as it is, a file only if the storage is mounted by its turn (1803; each file
tries again, `from` is the first that succeeds) and holds a file of that name
(1806, `exists`). One list of strings stands for the four, whose code is the same;
`removeRecipient(email)` compares the pointers of two objects (4539) and removes
nothing.

### Base64Stream

Both functions are one loop over three bytes. Characters are counted: `byteAdd`
(in the buffer), `dByte` (the code's line length), `written`, and, for the
property, `col`, the true length of the line. A line feed that does not fit is
dropped in the code and in the model. `Stream` in the names of its specification
and type invariant lets one module of proofs extend this one and `SmtpData`.

### ImapSearch

The code reads characters; a word and the blank or line feed after it is one
step here. `Top` is `int max` compared with a `size_t`; `Collected`, `Counted`
and `Keep` are lines 2271-2295 and 2622-2630; `EndFirstLine` contains the sort (2633). `Return` goes
back to `idle`, so settings can change between searches. `Complete` is the
second line, which ends the wait whatever it says. After a reply of a single
line the loop polls for ever; `LinkCloses` is how that ends.

### ImapWait

`Take(t, w, line)` is one line of `waitIMAPResponse` for a wait of type `t`:
validity (`ValidAfter`) and completion (`CompleteAfter`) as the code computes
them from the literal it was promised and the tagged line; `Stores` says
whether the line's content is stored. A line is known by what it says, how
many lines of literal it announces and, for the properties, what it answers.
The granularity is a line: a line that has begun to arrive is read to its end.

### ImapSession

`ask` is the request and the mail the server holds. Without a UID: LIST,
EXAMINE, SEARCH (or the newest message), one header after the other. With one:
the header, then `MIME` requests for part 1, 2, ... until one is refused,
descending into multiparts (`PartAnswered`, `SubAnswered`, `NextSub`,
`LeaveMulti`), then texts and attachments (`PickPart`, `BodyAnswered`), then
LOGOUT. A part has a type and a disposition. What its header gives overwrites what
is in the slot (`NewSlot`), and what it leaves out stays there (`Over`): the first
part of a multipart takes over the multipart's slot (603-630), and if its
Content-Type has no parameter (2479-2487), the multipart's type with it. A text
is fetched only when its part has no disposition (703, `TextWanted`): an inline
text is neither fetched nor reported. Each action carries its lines in `PROJECT.json`. `late` records that a
wait was given up while the link was up, or that a SEARCH reply had a line more
than the code reads: from then on lines of an old reply may be read by a later
wait. `refused` records that the server turned down something it holds.

### ImapFlags

The same dialogue for `_setFlag`; STORE is read by `getIMAPResponse`
(`ReadStored`), which takes what has arrived for the whole reply and any
` OK ` in it for a yes.

### ImapBody

One wait for a text or an attachment, and the bytes in it. A line is the number
of its characters and the positions of the body it stands for, 0 for a byte
that is none of the body; `text` and `file` are sequences of positions, so that
a byte that is lost, doubled or foreign shows. The last line of a literal carries
no line end: the closing parenthesis of the FETCH reply follows on the same line.
That is how the literal of a MIME part comes whose line end belongs to the boundary;
one that ends with a line end of its own has a blank last line. `WaitAfter` is the framing
(`charCount`, `payloadLength`, validity, completion). `StorePlain` (2302-2379),
`StoreDecoded` (2890-2979) and `StoreAttachment` (2981-3104) are the three ways
a line is stored, with the two characters before the end of a plain literal that
are never stored (2305 compares a count that already includes the character), a
base64 text that is saved decoded or as it came (`Saved`), the buffer limit, the
declared size of an attachment and `outputLength`, which starts as garbage and keeps the length of an earlier line
when one does not decode. `SlowText` is the timeout inside a text (2381), in
the middle of a line; `EndWait` and `Errors` are what follows the loop.

### MailCalls

`readMail`, `_setFlag`, `sendMail`, `sdBegin` and `empty` in any order on the
same objects. The dialogues are cut down to their outcomes; kept are `_sdOk`,
`_sdConfigSet`, the two storages, who set `_imapStatus` last, and the vectors:
`nums` for `_msgNum`, `rows` for the ones with an element per message whose
header was asked for. The getters are the operators `Row`, `NthAttachment` and
`TextPart`. SD.begin and SPIFFS.begin may fail; a mounted card stays as it is.

### TlsClient and MailLink

`pc` walks through `start_ssl_client`: socket, host, TCP, the plain dialogue of
STARTTLS, seed, config, CA chain, hostname, setup, handshake; every step may
fail, and `StartFails` is the return together with the `stop()` that
`WiFiClientSecureESP32::connect` calls then. `held` are the contexts that hold
memory, `lost` counts CA chains whose object was deleted, `wild` the contexts
that were freed while they were not initialised. In use, the connection ends by
a `close_notify` ("closed"), a FIN alone ("eof") or a reset, and `Fails` is when
`data_to_read` reports it: after all that came before was read, or never.
`connect()` on a live connection is `Ask` and `Read`. The verification result
(430), after which `connect()` would report success on a stopped client, is
never bad there: with a CA the handshake itself fails, without one nothing is
verified.

`MailLink` is the link as the sessions model it: up or down, pieces read in
their order, a write that arrives whole up to a record, and `answer`, their
`Connected`. `TlsClient` refines it under `conn <- ...`, `unread <- ...`: a peer
that sent a FIN alone counts as up and silent. One difference to the session
modules remains: a write that fails makes the client drop what was received
and not yet read, which they keep.

## 3. The runs

`tlc -config <cfg> <module>` in this directory. Deadlock is not checked where a
call ends (or takes the device down): a finished call has no next step.

| Run | Module, configuration | Question | Answer |
|---|---|---|---|
| `smtp_session` | `SmtpSessionMC`, `SmtpSession.cfg` | Does `sendMail` act on the right replies, skip no refusal, stay retryable after `false`, keep `MailTransfer`, and end? | yes, from AUTH on; 301,414 states |
| `smtp_success` | `SmtpSessionMC`, `SmtpSuccess.cfg` | Does `true` mean the server took the message? | no: silence after the final dot counts as success (1855) |
| `smtp_data` | `SmtpData`, `SmtpData.cfg` | What survives a count that removals do not update and that wraps around? | the listed properties, while nothing is erased past the end; 160,201 states |
| `base64_stream` | `Base64StreamMC`, `Base64Stream.cfg` | Is the buffer respected, are lines short enough, is everything written? | yes; 6,522 states |
| `imap_search` | `ImapSearchMC`, `ImapSearch.cfg` | Does the window hold the right numbers in the right order? | yes, for limits from 1 on, and with the recent sort for 0; 3,040 states |
| `imap_session` | `ImapSessionMC`, `ImapSession.cfg` | Are replies put where they belong, is every part found and nothing missing, are requests not repeated for ever? | yes, with the provisos of the properties; 332,936 states |
| `imap_parts` | `ImapSessionMC`, `ImapParts.cfg` | Is every attachment counted? | no: `_partID` is not reset, so the parts of a second multipart are missed (565) |
| `imap_flags` | `ImapFlags`, `ImapFlags.cfg` | Does `true` mean the flags were stored, and does a call end? | yes, while no wait is given up; or it polls; 1,505 states |
| `imap_body` | `ImapBodyMC`, `ImapBody.cfg` | Which bytes reach the text and the file, and is a cut told? | their own, with the provisos of the properties; 327,496 states |
| `imap_body_text` | `ImapBodyMC`, `ImapBodyText.cfg` | Is a text made of its message only? | no: the tagged line is decoded behind a base64 text (2901) |
| `mail_calls` | `MailCallsMC`, `MailCalls.cfg` | What can the next call and the getters rely on? | the listed properties; 377,309 states |
| `tls_client` | `TlsClientMC`, `TlsClient.cfg` | Is the TLS client the link the sessions assume, and is everything released? | yes, but for the CA chain of a failed start; 115,771 states |

The three runs that answer "no" each check one claim of the library's header and
are quoted with it under `findings`. Some other claims of the header have no run
of their own, because what happens instead is what a passing property states:

- "Clear all attachment data" (`ESP32_MailClient.h` 1740): the loop removes while it
  counts up (4668), so of two attachments of its type in a row the second stays.
  `OtherTypeKept` is what holds of it.
- "Remove recipient" (1469): `removeRecipient(email)` removes nothing (4539).
- The attachment size "in byte" (1251): without a progress report it becomes 0 after a
  complete download, whatever the part's header said, because `_size` is replaced
  by what the report counted (3167). `SizeIsFile` is about downloads with a report.
- The text of a message (957): one that is not base64 loses its last two characters
  unless the literal ends with a line end (2305). `TextIsOwn` and `FileIsPart` say
  what is kept. An inline text is not fetched at all (703); `NothingMissing` is
  about the others.
- The "download/saved text message error status" (1098): a text that was cut on its
  way to a file has an error only if it is the last part of its mail (3141).
  `CutIsTold` says which are told.

### What the properties say

- **ReplyMatchesCommand.** SMTP replies are matched by position only, and a
  given-up EHLO can leave its reply for HELO, HELO's for AUTH, and so on. From
  AUTH on no reply let the session go on but the command's own; 334, which no
  earlier command is answered with, puts both sides back in step. Before AUTH
  the property is false, and no harm follows from that.
- **EarlierGranted.** Every recipient, and every command, before the current
  one was granted by the server: none is passed over on a stray 250.
- **RetrySafe.** After `false` the server does not and never will hold the
  message. The other direction is `TrueMeansAccepted`, which fails.
- **SoundUntilRemoval, OtherTypeKept, RemovesTheKth, SendsAll.**
  What a caller of the attachment functions can rely on, given the stale
  `_index`: no access out of bounds until something is removed; in every call that
  does not erase past the end, the other type is not touched and the attachment
  counted is the one removed; and a mail carries, of a list from which nothing was
  removed and below 256 additions, all data, and all files but those whose storage
  is not mounted by their turn or does not hold them.
- **GroupFits, LineFits, AllWritten.** 936, 76 and 932 have to fall together so
  that no group is written past the end and no line feed is dropped.
- **WithinLimit, LatestFirst, ServerOrder, CountCovers.** The window while the
  line is read and after the sort, and its relation to `_searchCount`.
- **OwnReplies.** IMAP replies are kept apart by the completion rules alone:
  while no reply outlived its wait, a header, text or file holds lines of its
  own reply only. Without the proviso a late reply becomes the text of another
  part: a timeout of a text or MIME header does not end the session (721).
- **EveryLeaf.** After an undisturbed session the slots are the leaves of the
  mail, in order, with their dispositions and the types their headers give, and
  the attachments are counted. It is about mails with one multipart at most;
  `AllAttachmentsCounted` drops that and fails.
- **NothingMissing.** After `true` all headers are there if nothing was late or
  refused; and, whatever was late, refused or lost, every text without a disposition
  that was asked for is there or the status says that one is not.
- **TrueMeansStored.** What `true` from `setFlag` and its siblings is worth.
  `false` is worth less: a reply read in part or late, or a LOGOUT that fails,
  gives `false` for flags that are stored (2173).
- **TextIsOwn, FileIsPart.** What the wait keeps of a text (`Wanted`) is all of a
  base64 one, and all but the last two characters of another, which are its line
  end only if it has one. A text in memory is a beginning of that, all of it if it
  fits; a saved text is all of it whatever its length. A base64 text that leaves
  room for the tagged line, or is empty, takes in what that line decodes to
  (`TextOnly`, which fails, denies that), and one that is saved as it came the closing
  parenthesis. An attachment is its own bytes up to its declared size, and all of
  them unless a blank line stands among its lines, which is counted as the line
  before it.
- **SizeIsFile.** After a download with a progress report `getAttachmentFileSize` is
  the size of the file.
- **CutIsTold.** A text cut by a slow server is an error of its mail, or, if it
  went to a file, of its part, but then only of the last part. A text that is
  whole is not called an error.
- **GettersAnswer.** A getter is past the end of its vector only after a session
  that returned `false`; attachment n is the n-th attachment, and the text is
  none, unless an attachment of its type comes first.
- **ReasonIsOwn.** After `false` the reason is that of this call, unless only the
  last `connect()` failed (144).
- **StorageReady.** Files are looked for on a mounted storage while all calls
  name the same kind, and remounting keeps the caller's pins.
- **Released.** A start that fails at any step leaves no socket and no context
  but the CA chain, and only the entropy context is freed uninitialised.
- **IsLink.** The refinement of `MailLink`.

### Bounds

- `SmtpSession`: three recipients in lists of 2, 0 and 1 (a step inside a list,
  over an empty list and to the last list), one attachment in memory and one in
  a file, at most `MaxSegments` = 2 extra lines under way, `IndexMod` = 4 for
  256. Two pieces are enough for a reply to be overtaken by two commands; the
  theorems cover every value. The lists stay shorter than the counter's
  range, beyond which the code's loop does not end.
- `SmtpData`: two names, `IndexMod` = 4 and `MaxAdds` = 5, so that `_index`
  wraps with attachments of both types present; one string, since the four
  lists do not interact with the attachments. `MaxAdds` counts additions since
  the vectors were freed.
- `Base64Stream`: 0 to 4 bytes and the sizes around one and two lines (57, 114)
  and one and two buffers (684, 1368). Constants are those of the code.
- `ImapSearch`: every subset of a mailbox of 4 as matches, with and without a
  trailing blank, a reply that begins with something else, one that consists of
  a single line, a refusal; limits 0 to 3 and 5, which is above `LimitMax` = 3
  and therefore ignored. `SizeMax` = 1000 is any number larger than a reply.
- `ImapSession`: a search with two hits, a mailbox read without criteria and
  empty, and four mails: two texts in a multipart beside an attachment; an
  attachment beside a leaf whose Content-Type has no parameter; a multipart whose
  first part has none, followed by an inline text and a text; an attachment above
  the size limit beside a multipart of a text and an attachment; with everything
  asked for, or text only. `TwoMultis` has a mail with two multiparts. A literal is one
  line; the second `body` line of a text is what follows the literal before the
  tagged line, which must not be stored. `tries` is bounded by the code's own limit.
- `ImapFlags` has no constants.
- `ImapBody`: an empty part, one of a single character, parts of one, two and three
  lines, ended by a line end (a blank last line) and not, with a blank line first,
  in the middle, twice at the end and not at all; declared sizes below, at and above
  the true ones; a buffer that is smaller than the longest part and larger than the
  shortest; a tagged line that decodes to three bytes; garbage of 0 and of some length.
- `MailCalls`: four calls, enough for one to leave a state, two to change it
  and one to meet it; two numbers kept; mails with attachments before, between
  and behind texts.
- `TlsClient`: two connections, so that the second meets what the first left;
  two pieces and two writes on each; a record of 2 and a `uint16_t` of 8
  values, with writes of 1, 2, 3 and 9.

### Fairness

`WF` of the client's own steps, and nothing of the server or the network: the
library runs as a loop on a task that the scheduler returns to, and takes the
next step whenever it has one, a timeout included. The server may be silent,
stop in the middle of a reply or hang up. The modules
without a liveness property state no fairness.

`EndsOrPolls` names the one way a session can stay for ever: `Polling`, the
`read() < 0 ... continue` of `waitIMAPResponse` (2263), which has no timeout
when a reply stops before it is complete. `imap_session` exempts mails with a
part whose Content-Type line has no parameter (`HasBare`): `readMail` asks for
such a part again for ever (599).

## 4. The proofs

Run `tlapm` on the eight `*_proofs` modules. They hold for every value of the
constants that satisfies the named assumptions.

**SmtpSession_proofs** proves `TypeOK`, `ReplyMatchesCommand`, `EarlierGranted`,
`RetrySafe` and the refinement `KeepsPromise`. None of these but the type
invariant is inductive: each depends on what may be on its way. `IInv` says

- `Places`: what each place in the program knows about the connection;
- `Pipeline`: a late command, or its reply, is the last thing in `toSrv`,
  `net`, `inbox`; once AUTH is passed nothing early is left in them; a piece
  carries its command's code or none that is a yes, and a yes was given;
- `Judgement`: the message is judged once, after the dot was sent, and after
  `false` no verdict is still to come;
- what was granted so far: the property `EarlierGranted` itself.

The key step is a wait for AUTH that reads 334: a piece with that code is the
reply to AUTH, it is last, so the pipeline is empty after it (`AcceptedReply`).
The invariant is shown action by action (`ConnectStep` to `DisconnectStep`), and
the refinement maps each step to a step of `MailTransfer` or a stutter
(`PromiseStep`). Assumptions: `ReplyAssumption` (only GREET, EHLO and HELO are
answered over several lines; with more, a refused recipient could be passed
over), `IndexAssumption`, `ListsAssumption`, `AttachmentsAssumption`,
`BoundAssumption`.

**Attachments_proofs** proves `TypeOK`, `SoundUntilRemoval` and the action
properties `OtherTypeKept`, `RemovesTheKth` and `SendsAll` of `SmtpData`. A loop
runs to `_index`, and what it erases behind the vectors sets `broken`; that this
needs an earlier removal is not inductive. `Counted` adds that `_index` is at most
`Len(att) + removed`, and equal to it while that is below 2^8. `Left` says what any
number of rounds of a removal keeps: the sum of the elements left and gone, that an
erase past the end needs one that is gone already, and, while none happened, the
attachments of the other type. It holds after one round (`EraseLeft`) and by induction after all (`RemoveEachLeft`). A removal by
number needs the rank of a match: the list is cut at the element (`Cut`,
`CutOfType`, `Middle`), the matches before it are as many as the attachments of the
type before it (`BeforeIs`, `PlacesAreHits`), and one with k before it exists
whenever there are more than k (`KthExists`). Assumptions: `IndexAssumption`,
`BoundAssumption`.

It also proves `StreamTypeOK`, `GroupFits`, `LineFits` and `AllWritten` of
`Base64Stream` for every size. The
invariant says that the buffer holds q whole lines of 78 bytes and m groups of
the current one, `byteAdd = 78 q + 4 m` with `dByte = 4 m`, q at most 11 and m at
most 18 (`InStep`): 936 is twelve such lines, so `HasRoom` never fails, `dByte`
is the true length of the line, and the buffer is written out when a line ends.
`Accounted` adds up what was encoded, buffered and written; `Ended` carries it
through the padded tail. Assumption: `SizesAssumption`.

**ImapSearch_proofs** proves `TypeOK`, `WithinLimit`, `LatestFirst`,
`ServerOrder` and `CountCovers` for every reply and limit. The invariant,
`Window`, says after each word that `_msgNum` holds the last (or first) numbers
of the words so far; `WindowSlides` and `WindowFills` show that a word keeps it so,
`SortKeeps` that the sort loses nothing. Assumptions: `ReplyAssumption`,
`LimitAssumption`.

**TlsClient_proofs** proves `TypeOK`, `Released` and the refinement `IsLink` of
`MailLink`, for any number of pieces, writes and connections. `Released` alone
is not inductive: a step that fails frees what the steps before it filled, so
the invariant `Starting` says at each step of `start_ssl_client` that nothing is
connected, whether the socket is open and which contexts are filled (`HeldAt`).
`Stopped` is the one argument about `stop()`, whoever calls it. `Safe` says that
a connection has no plain text to come, which is why the link never reads any.
For the refinement, a start and its steps are stutters, `Handshake` opens the
link, a stop breaks it (`LinkBreaks`), and `AskLink` shows that `connected()`
answers as the link does. `CarriedBounds` is the arithmetic of a write: all of
it up to a record, though its length is cut to 16 bits. Assumption:
`NumbersAssumption`.

**ImapFlags_proofs** proves `TypeOK` and `TrueMeansStored`. Every command has the
same tag and `getIMAPResponse` takes any " OK " for a yes, so nothing in a line
tells what it answers; what does is that nothing else is under way. `Current`
says so, as long as no wait was given up: a command is sent when neither
commands nor lines are left (`Quiet`), and until the next one only it or its
reply is there, whose tagged line comes last (`Answering`). So a wait that ends
has read all of its reply (`ReadLineCurrent`), and the " OK " that ends STORE is
the store's (`StoredStep`). There are no constants: the theorem is for any
number of steps, as the type invariant bounds no queue.

**MailCalls_proofs** proves `TypeOK`, `ReasonIsOwn`, `StorageReady` and
`GettersAnswer`, for any number of calls and mails of any number of parts. `Given`
is the reason why `StorageReady` holds: as long as all calls were given the same kind
of storage, `_sdOk` implies that this one is mounted, because only a mount sets
the flag (`Mounts`) and the end of a storage clears it. `Filled` says that a
session that did not fail leaves a row for each number; it must hold while the
next call connects as well, since a connect that fails keeps the vectors. The
getters number an attachment by how many stand before it: the numbers rise
(`NumbersRise`), so they take n attachments one to one to n numbers, and every
number below n is one's (`NumbersMeet`, by the pigeonhole principle).
Assumptions: `MailsAssumption`, `BoundsAssumption`.

**ImapSession_proofs** proves `TypeOK`, `OwnReplies`, `NothingMissing` and
`EveryLeaf`, for any mail and any number of messages. All commands carry the tag `$`, so, as in
`_setFlag`, a line tells nothing of the command it answers. `Current` says what
does: until a wait is given up, only the command that is waited for, or its
reply, is under way, with its tagged line last, and a wait that is complete has
left nothing behind (`Quiet`). The SEARCH reply ends a wait with its first line,
when one more may still be to come; `Current` therefore counts its lines.
The type invariant alone needs more, and without the proviso that nothing was
late: `messageDataIndex` stays below the number of slots because a literal is
always followed by a line of it (`Literals`, `Filled`) and a line that describes
a part is of a part that exists (`Describes`); `j` does because of what `readMail`
has fetched where (`Progress`). `NothingMissing` has two halves. That a text is there
or the status says so needs no proviso: `Texts` says it of every slot up to the
current one, and it is kept because a valid wait has stored a line (`Filled`), whose
line ever that was, and an invalid one sets the status. For the headers a second
invariant, `Undisturbing`, follows a reply line by line while nothing was late or
refused: after n lines of it what was counted and stored is that of n lines
(`Coming`), and every message but the current one has its header (`Headed`), unless
the link is down, in which case the next command crashes and never returns `true`.
`EveryLeaf` needs a third, `Scanned`, for a mail with at most one multipart: when
`readMail` asks for a part, the slots below `messageDataIndex` describe the leaves
before that part, no more and no fewer (`Scanning`: `Listed(Passed(part))`), and
at most one slot stands behind them, which describes the part as soon as its line was
read (`Described`, with the multipart's type under it if it is the multipart's first)
and no attachment before that (`Open`); so the line that counts an attachment
counts it once. A valid answer to a part means that its line was read (`PartMeans`),
an invalid one that there is no such part, since the server refused nothing it holds:
the scan neither skips nor repeats a part, and ends behind the last. `subID`, which
`readMail` never resets, is 1 when the one multipart is entered. What `Passed` is after
each part follows from what `FlattenSeq` does with one more sequence (`FlattenMore`).
Assumption: `AsksAssumption`.

**ImapBody_proofs** proves `TypeOK`, `TextIsOwn`, `FileIsPart`, `SizeIsFile` and
`CutIsTold`, for parts of any number of lines of any length and any buffer and
declared size. The inductive invariant names the number n of lines read (`Reading`).
Of a reply that brings the part (`Granted`): the lines to come are those after n
(`ToCome`), what was counted and whether the wait is valid and complete follow
from n (`Framed`), and so does what was kept, by three rules (`Kept`): a plain
text by the characters counted, up to two before the end (`PlainKept`), a base64
text by the lines before the first that no longer fits, with the parenthesis in
the file if it is saved as it came (`DecodedKept`, `SavedUpTo`), an attachment by the
lines before the first that exceeds the declared size, a blank line counted as the
one before it (`AttachmentKept`, `Twice`). Of a reply that refuses the fetch
nothing is kept (`Denied`). A slow text ends within a line; what it keeps of
that line is again the beginning of the part (`SlowTextKeeps`). When the wait
is over only the promises remain. Assumptions: `BodiesAssumption`,
`NumbersAssumption`; of the latter that letters decode to no more bytes than
there are letters (`TagBytes \in 0 .. TagChars`) is what base64 does.
The proof corrected two statements that the checked instance had been too small to
refute. An empty base64 part is never counted, so what the tagged line decodes to is put
behind it however small the buffer is (`TagFits`); and for the same reason the text
of an empty part is not bounded by the buffer (`TypeOK`).

Three modules need to count along a list. The library's induction theorems take
an operator as a parameter, which no installed prover can instantiate;
`SetInduction` says the same of sets of numbers and is proved from the pigeonhole
principle (`FS_Injection`): a number that is missing would let the numbers up to
it be mapped one to one to fewer. With it `EndsExist` shows that the recursive function
`Ends`, the ends of the lines of a part, satisfies its equation, `JoinsExist` the
same of the one inside `FlattenSeq`, and `Recursion` of `OfType` and `RemoveEach`.

Model-checked only: liveness (`Terminates`, `EndsOrPolls`), which rests on fairness
and ENABLED and is beyond the prover. Every invariant and every action property that
a passing run checks, and both refinements, are proved.

## 5. What is left out

- Text: headers, encodings, RFC 2047, dates, file names, debug output,
  callbacks. The SMTP code of a reply is that of its first line; the rest of
  the reply is read and dropped, as the code does.
- Time: no clock. Waits give up at any moment there is nothing to read, and
  inside a slow text at any character (`ImapBody`; in `ImapSession` a text is
  read to its end or not at all).
- The greeting of an IMAP server, which is read and thrown away.
- Several mails in one IMAP session with their texts: with a UID the code
  fetches one, and without one only headers are read here.
- Client certificates, pre-shared keys and fingerprints, which a mail session
  never gives; the inside of mbedtls and lwip, whose calls succeed or fail.
- The names of files and directories (`createDirs`), the header file of a mail
  but for whether it is asked for, quoted-printable text, and the progress callback.
- `getStreamPtr` in `TlsClient`: the sessions have the null pointer it may return.
- `RFC2047.cpp` and `ESP32TimeHelper.cpp`: string work taken over from another
  project, and calls of the C library's clock; neither keeps a state that a
  sequence of calls could break.
- Several calls in a row are in `MailCalls` only, with dialogues cut down to
  their outcomes; in the session modules the flags that outlive a call start
  with any value they can have.

## 6. Plan

Done: the modules above, in the order SMTP session, base64, message lists,
search window, response wait, read session, flags, bodies, several calls with
the storage, TLS client.

Left: abstract promises for `_setFlag` and `readMail`, like `MailTransfer`.
