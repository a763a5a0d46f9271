--------------------------- MODULE MCMarkerSector ---------------------------
EXTENDS MarkerSector

\* Slot 0 in the first sector, slot 1 across the boundary, slots 2 to 4 in
\* the second; the first sector is erased when slot 3 replaces slot 2.
MCBits == {1, 2}
MCHeadBits == {1}
MCRecords == {{1}, {2}}
=============================================================================
