---------------------------- MODULE TlsClientMC -----------------------------
\* Small numbers for TlsClient: writes below, at and above the length of a
\* record, and one of a length whose low bits are those of a short one.
EXTENDS TlsClient

MCSizes == {1, 2, 3, 9}
=============================================================================
