-------------------------- MODULE MCClipboardPaste --------------------------
EXTENDS ClipboardPaste

CONSTANTS c1, c2, c3, c4

\* A client of each kind: all targets, one of the two that the fallbacks reach,
\* no text at all.
MCSupports ==
    [c \in Client |-> CASE c = c1 -> Target
                        [] c = c2 -> {"UTF8_STRING"}
                        [] c = c3 -> {"STRING"}
                        [] OTHER  -> {}]
=============================================================================
