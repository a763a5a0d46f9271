------------------------------ MODULE MCRadio ------------------------------
EXTENDS Radio

\* Two receive bands; the gap between them and what lies outside is not
\* calibrated.
MCBands == {<<2, 2>>, <<4, 4>>}
MCTxAllowed == {2, 4}
MCSubmode == [f \in AirFreqs |-> IF f >= 4 THEN 1 ELSE 0]
MCEntryFreqs == {3}
MCChannelFreqs == {4}
=============================================================================
