----------------------------- MODULE MCMainLoop -----------------------------
EXTENDS MainLoop

\* encoder, keypad, buttons, display, ui, in units of 5 ms.
MCInterval == <<1, 4, 4, 4, 2>>
MCStored == {0, 1, 2}
=============================================================================
