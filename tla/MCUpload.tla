------------------------------ MODULE MCUpload ------------------------------
EXTENDS Upload

MCHandshake ==
  <<"P", "R", "O", "G", "R", "A", "M", "B", "T", "9", "0", "0", "0", "U">>
MCUpdate == <<"U", "P", "D", "A", "T", "E">>

\* Every byte of the words, and one that is in neither.
MCNoise == {MCHandshake[i] : i \in 1 .. 14} \cup {"D", "E", "other"}
=============================================================================
