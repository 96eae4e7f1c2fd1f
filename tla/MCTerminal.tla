----------------------------- MODULE MCTerminal -----------------------------
\* Terminal: two commands on up to two connections; the second of three bytes
\* begins a character that the third ends.
EXTENDS Terminal

TheWide == {2}
TheCalls == {<<1, "write">>, <<2, "terminate">>}
=============================================================================
