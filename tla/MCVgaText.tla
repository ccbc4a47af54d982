----------------------------- MODULE MCVgaText ------------------------------
(***************************************************************************)
(* A font of one line per code, and texts short enough for rows of four    *)
(* characters.                                                             *)
(***************************************************************************)
EXTENDS VgaText

\* Neighbouring pixels, lines and codes differ.
MCFont == [code \in 0..127 |-> [line \in 0..CharHeight - 1 |->
            [x \in 0..CharWidth - 1 |-> (code + line + x) % 2]]]

\* The bytes' halves are indices of the first two palette registers.
MCGreen     == <<18, 35, 0>>
MCRed       == <<33, 0>>
MCBlue      == <<50, 0>>
MCInverted  == <<48, 35, 0>>
MCCompleted == <<19, 3, 32, 0>>

MCPaletteWrites == {<<0, 1, 2>>, <<1, 4, 5>>}
=============================================================================
