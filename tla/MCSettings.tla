----------------------------- MODULE MCSettings -----------------------------
EXTENDS Settings

\* Bit 1 is one settings_init looks at, bits 2 and 3 tell two settings apart.
MCBits == 1 .. 3
MCRecords == {{1, 2}, {1, 3}}
MCTornSlots == {{}, {1}, {1, 2, 3}}
MCDefaults == {1, 2}
MCCheckedBits == {1}
=============================================================================
