----------------------------- MODULE ImapBodyMC -----------------------------
\* Small parts for ImapBody, some that end with a line end (a blank last line)
\* and some that do not: an empty one, a part of one character, one line, two,
\* a blank line at the end, one in the middle, one at the beginning, three
\* lines.
EXTENDS ImapBody

MCBodies == {<<0>>, <<1>>, <<3>>, <<3, 0>>, <<6, 4>>, <<6, 4, 0>>, <<6, 0, 0>>,
             <<3, 0, 3>>, <<0, 3, 0>>, <<6, 6, 6, 0>>}
=============================================================================
