------------------------------ MODULE NorFlash ------------------------------
(***************************************************************************)
(* The serial NOR flash behind spi.c, seen as sets of programmed bits.     *)
(*                                                                         *)
(* A cell is the set of its bits that have been programmed to 0: an erased *)
(* cell is {} (all 0xFF), programming can only add bits (a program command *)
(* ANDs its data into the cell), and only an erase takes them away.  A     *)
(* command that loses its supply half way leaves a part of its effect.     *)
(***************************************************************************)

\* A cell after spi_flash_erase_4k: every bit reads 1.
Erased == {}

\* spi_flash_write_page: the programmed bits of the data are added.
Program(cell, data) == cell \cup data

\* A page program cut short: some of the bits of the data got programmed.
TornProgram(cell, data) ==
  {c \in SUBSET Program(cell, data) : cell \subseteq c}

=============================================================================
