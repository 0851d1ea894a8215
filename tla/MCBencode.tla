----------------------------- MODULE MCBencode -----------------------------
EXTENDS BencodeSending

\* Two digits, and the bytes that mean something, in the order of ASCII.
MCDigits == <<"0", "1">>
MCBytes  == <<"+", "-", "0", "1", ":", "d", "e", "i", "l">>

\* Every byte, and pieces that would take many: the heads of strings of no
\* and of one byte, an entry of a dictionary, and the magnitude of the
\* smallest integer of five bits.
MCPieces == {<<byte>> : byte \in ToSet(MCBytes)}
            \cup {<<"0", ":">>, <<"1", ":">>, <<"0", ":", "0", ":">>,
                  <<"1", "0", "0", "0", "0">>}

=============================================================================
