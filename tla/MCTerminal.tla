----------------------------- MODULE MCTerminal -----------------------------
(***************************************************************************)
(* Two readers; a letter, return and backspace, a shift key, two control   *)
(* keys and an arrow; rings so short that they overflow.                   *)
(***************************************************************************)
EXTENDS Terminal, TLC
CONSTANTS r1, r2
MCReaders == {r1, r2}
MCSymmetry == Permutations(MCReaders)
MCLetters == {"c"}
MCOthers == {"enter", "bs"}
MCShifts == {"shift"}
MCArrows == {"left"}
=============================================================================
