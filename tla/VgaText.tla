------------------------------ MODULE VgaText -------------------------------
(***************************************************************************)
(* The text screen of lab 7: vga_text_avl_interface.sv, whose memory the   *)
(* processor writes over the Avalon bus while the beam reads it, and the   *)
(* test program textVGATest of text_mode_vga.c as the bus master.  A step  *)
(* is an edge of CLK (two to a pixel), or the moment RESET is asserted.    *)
(***************************************************************************)
EXTENDS Integers, Sequences

CONSTANTS
  ROWS, COLUMNS,                \* of characters (30, 80)
  CharWidth, CharHeight,        \* pixels of a character (8, 16)
  HBlank, VBlank,               \* pixels and lines that are not displayed (160, 45)
  Font,                         \* font_rom: Font[code][line][pixel] is 0 or 1
  Green, Red, Blue, Inverted, Completed,  \* the texts: bytes, the last one 0
  PaletteWrites,                \* of another program: register, and its two colours
  MaxResets                     \* bound: resets after the first

Byte  == 0..255
Lanes == 0..3
Cells == 0..ROWS * COLUMNS - 1
Rows  == 0..ROWS - 1

REG_PER_ROW == COLUMNS \div 2   \* two characters of 16 bits to a register
Lines   == ROWS * CharHeight + VBlank
Pixels  == COLUMNS * CharWidth + HBlank
CTRL    == (ROWS * COLUMNS) \div 4  \* the word after VRAM[ROWS * COLUMNS]
WHITE   == 4095
BLACK   == 0

\* The register of a pixel, and the registers the beam and the bus can reach.
IndexOf(x, y) == (y \div CharHeight) * REG_PER_ROW + x \div (2 * CharWidth)
Words == 0..IndexOf(Pixels - 1, Lines - 1)

\* A register has two characters, a word four bytes, and what the test writes is a byte.
ASSUME ScreenAssumption ==
  /\ {ROWS, COLUMNS, CharWidth, CharHeight} \subseteq Nat \ {0}
  /\ {HBlank, VBlank, MaxResets} \subseteq Nat
  /\ COLUMNS % 2 = 0 /\ (ROWS * COLUMNS) % 4 = 0 /\ ROWS + COLUMNS <= 257

ASSUME FontAssumption ==
  Font \in [0..127 -> [0..CharHeight - 1 -> [0..CharWidth - 1 -> {0, 1}]]]

VARIABLES
  RESET,
  clkdiv, hc, vc,       \* of vga_controller: the beam
  rgb,                  \* the registered colour, BLACK when blanked
  ocm, VGA_READDATA,    \* the memory, as bytes of words, and its second port
  palette_content,      \* pairs: the colours of an even and of an odd index
  at, i, j,             \* the program: its step and the variables of its loops
  checksum, readsum,
  written,              \* history: the word the bus wrote at the last edge
  resets                \* bound: number of resets so far

beam    == <<clkdiv, hc, vc, rgb, VGA_READDATA>>
program == <<at, i, j, checksum, readsum>>
vars    == <<RESET, beam, ocm, palette_content, program, written, resets>>

-----------------------------------------------------------------------------
(* textVGATest, as its sequence of calls and loops.                        *)

color(background, foreground) == [op |-> "color", value |-> foreground * 8192 + background * 2]
clear == [op |-> "clear"]
pause == [op |-> "pause"]  \* usleep

\* memcpy of a text into each of n rows, some columns from its left edge.
copy(n, text, column) == [op |-> "copy", rows |-> n, text |-> text, column |-> column]

inverted == [c \in DOMAIN Inverted |-> (Inverted[c] % 128) + 128]  \* |= 0x80

\* GREEN, RED and the others are colours of twelve bits.
textVGATest ==
  << color(BLACK, WHITE), clear, [op |-> "fill"], [op |-> "check"], pause,
     color(112, 240), clear, copy(ROWS, [r \in Rows |-> Green], [r \in Rows |-> r]), pause,
     color(1792, 3840), clear, copy(ROWS, [r \in Rows |-> Red], [r \in Rows |-> ROWS - r]), pause,
     color(7, 15), clear, copy(ROWS, [r \in Rows |-> Blue], [r \in Rows |-> 0]), pause,
     clear, color(112, 240),
     copy(ROWS, [r \in Rows |-> IF r % 2 = 0 THEN Green ELSE inverted], [r \in Rows |-> r]), pause,
     color(BLACK, WHITE), clear, copy(1, [r \in {0} |-> Completed], [r \in {0} |-> 0]), pause >>

Ended    == Len(textVGATest) + 1  \* returned
Mismatch == 0                     \* while (1) {} after a checksum that differs

\* The texts are texts, and each fits into the rows it is copied to.
ASSUME TextAssumption ==
  /\ {Green, Red, Blue, Inverted, Completed} \subseteq Seq(Byte) \ {<< >>}
  /\ \A s \in DOMAIN textVGATest : textVGATest[s].op = "copy" =>
       \A r \in DOMAIN textVGATest[s].text :
         textVGATest[s].column[r] + Len(textVGATest[s].text[r]) <= COLUMNS

Doing(op) == at \in DOMAIN textVGATest /\ textVGATest[at].op = op
GoOn      == at' = at + 1 /\ i' = 0 /\ j' = 0

-----------------------------------------------------------------------------
(* The bus at an edge.                                                     *)

\* The byte at VRAM[cell], over a 32-bit bus with byte enables.
VRAM(cell) == ocm[cell \div 4][cell % 4]

\* data: the enabled lanes' bytes.
AvalonWrite(word, data) ==
  /\ ocm' = [ocm EXCEPT ![word] = [l \in Lanes |-> IF l \in DOMAIN data THEN data[l] ELSE @[l]]]
  /\ written' = word

\* mutant: the byte enables are not used.
StoreWholeWord(cell, b) == AvalonWrite(cell \div 4, [l \in Lanes |-> b])

Store(cell, b) == AvalonWrite(cell \div 4, [l \in {cell % 4} |-> b])

NoWrite == UNCHANGED ocm /\ written' = -1

textVGASetColor ==
  /\ Doing("color")
  /\ AvalonWrite(CTRL, [l \in Lanes |-> (textVGATest[at].value \div 256 ^ l) % 256])
  /\ GoOn /\ UNCHANGED <<checksum, readsum>>

\* mutant: the last row is left as it was.
textVGAClrLess ==
  /\ Doing("clear")
  /\ Store(i, 0)
  /\ IF i = (ROWS - 1) * COLUMNS - 1 THEN GoOn ELSE i' = i + 1 /\ UNCHANGED <<at, j>>
  /\ UNCHANGED <<checksum, readsum>>

\* mutant: the counter is too narrow for the number of characters.
textVGAClrNarrow ==
  /\ Doing("clear")
  /\ Store(i, 0)
  /\ IF i = ROWS * COLUMNS - 1 THEN GoOn ELSE i' = (i + 1) % COLUMNS /\ UNCHANGED <<at, j>>
  /\ UNCHANGED <<checksum, readsum>>

textVGAClr ==
  /\ Doing("clear")
  /\ Store(i, 0)
  /\ IF i = ROWS * COLUMNS - 1 THEN GoOn ELSE i' = i + 1 /\ UNCHANGED <<at, j>>
  /\ UNCHANGED <<checksum, readsum>>

\* The inner loop's next turn, of n, or the outer's, of m.
NextTurn(n, m) ==
  IF i < n - 1 THEN i' = i + 1 /\ UNCHANGED <<at, j>>
  ELSE IF j < m - 1 THEN i' = 0 /\ j' = j + 1 /\ UNCHANGED at
  ELSE GoOn

Fill ==
  /\ Doing("fill")
  /\ Store(j * COLUMNS + i, (i + j) % 256)
  /\ checksum' = [checksum EXCEPT ![j] = (IF i = 0 THEN 0 ELSE @) + i + j]
  /\ NextTurn(COLUMNS, ROWS) /\ UNCHANGED readsum

\* A byte is read; at the end of a row the sums are compared.
Check ==
  /\ Doing("check")
  /\ NoWrite
  /\ readsum' = (IF i = 0 THEN 0 ELSE readsum) + VRAM(j * COLUMNS + i)
  /\ IF i = COLUMNS - 1 /\ readsum' # checksum[j] THEN at' = Mismatch /\ UNCHANGED <<i, j>>
     ELSE NextTurn(COLUMNS, ROWS)
  /\ UNCHANGED checksum

memcpy ==
  /\ Doing("copy")
  /\ LET step == textVGATest[at] IN
       /\ Store(j * COLUMNS + step.column[j] + i, step.text[j][i + 1])
       /\ NextTurn(Len(step.text[j]), step.rows)
  /\ UNCHANGED <<checksum, readsum>>

Usleep == Doing("pause") /\ NoWrite /\ GoOn /\ UNCHANGED <<checksum, readsum>>

\* The bus is idle, or another program than this one writes a palette register
\* (and with it a word of the memory above those the beam reaches).
Idle == NoWrite /\ UNCHANGED <<program, palette_content>>

WritePalette ==
  /\ \E w \in PaletteWrites : palette_content' = [palette_content EXCEPT ![w[1]] = <<w[2], w[3]>>]
  /\ NoWrite /\ UNCHANGED program

Run ==
  /\ \/ textVGASetColor \/ textVGAClr \/ Fill \/ Check \/ memcpy \/ Usleep
  /\ UNCHANGED palette_content

-----------------------------------------------------------------------------
(* The beam at an edge, and the colour it draws.                           *)

vram_code   == (hc \div CharWidth) % 2
attribute   == VGA_READDATA[2 * vram_code]
vram_codeN  == VGA_READDATA[2 * vram_code + 1] % 128
flipcode    == VGA_READDATA[2 * vram_code + 1] \div 128
bitpx       == Font[vram_codeN][vc % CharHeight][hc % CharWidth]
color_index == IF bitpx # flipcode THEN attribute \div 16 ELSE attribute % 16

display == hc < COLUMNS * CharWidth /\ vc < ROWS * CharHeight

Drawn == IF display THEN palette_content[color_index \div 2][1 + (color_index % 2)] ELSE BLACK

\* mutant: the memory answers an edge later, and the pixel has moved on.
ReadPortLate ==
  VGA_READDATA' = IF clkdiv = 1 THEN VGA_READDATA ELSE ocm[IndexOf(hc, vc)]

\* A word that is being written is read with any of its bytes old or new.
ReadPort ==
  LET word == IndexOf(hc, vc) IN
  VGA_READDATA' \in IF written' # word THEN {ocm[word]}
                    ELSE {[l \in Lanes |-> IF l \in new THEN ocm'[word][l] ELSE ocm[word][l]] :
                            new \in SUBSET Lanes}

\* mutant: a line is a pixel too long.
PixelClockLonger ==
  IF clkdiv = 1 THEN clkdiv' = 0 /\ UNCHANGED <<hc, vc, rgb>>
  ELSE /\ clkdiv' = 1
       /\ hc' = IF hc = Pixels THEN 0 ELSE hc + 1
       /\ vc' = IF hc = Pixels THEN (vc + 1) % Lines ELSE vc
       /\ rgb' = Drawn

PixelClock ==
  IF clkdiv = 1 THEN clkdiv' = 0 /\ UNCHANGED <<hc, vc, rgb>>
  ELSE /\ clkdiv' = 1
       /\ hc' = (hc + 1) % Pixels
       /\ vc' = IF hc = Pixels - 1 THEN (vc + 1) % Lines ELSE vc
       /\ rgb' = Drawn

-----------------------------------------------------------------------------
NoSums == [r \in Rows |-> 0]

Init ==
  /\ RESET = TRUE
  /\ clkdiv = 0 /\ hc = 0 /\ vc = 0 /\ rgb = BLACK
  /\ ocm = [w \in Words |-> [l \in Lanes |-> 0]] /\ VGA_READDATA = ocm[0]
  /\ palette_content = [p \in 0..7 |-> <<BLACK, BLACK>>]
  /\ at = 1 /\ i = 0 /\ j = 0 /\ checksum = NoSums /\ readsum = 0
  /\ written = -1 /\ resets = 0

Clock ==
  /\ ~RESET
  /\ Run \/ Idle \/ WritePalette
  /\ ReadPort /\ PixelClock
  /\ UNCHANGED <<RESET, resets>>

\* The memory and the palette keep their contents; the program is to start again.
AssertReset ==
  /\ ~RESET /\ resets < MaxResets
  /\ RESET' = TRUE /\ resets' = resets + 1
  /\ clkdiv' = 0 /\ hc' = 0 /\ vc' = 0
  /\ at' = 1 /\ i' = 0 /\ j' = 0 /\ checksum' = NoSums /\ readsum' = 0
  /\ UNCHANGED <<rgb, ocm, VGA_READDATA, palette_content, written>>

ClockInReset ==
  /\ RESET /\ RESET' \in BOOLEAN
  /\ NoWrite /\ ReadPort
  /\ UNCHANGED <<clkdiv, hc, vc, rgb, palette_content, program, resets>>

Next == Clock \/ AssertReset \/ ClockInReset

Spec == Init /\ [][Next]_vars

\* The processor goes on with its program, and a reset ends.
FairSpec == Spec /\ WF_vars(Clock /\ Run) /\ WF_vars(ClockInReset /\ ~RESET')

-----------------------------------------------------------------------------
(* Properties.                                                             *)

\* Types.  The program writes no word beyond the CTRL it takes for its last.
TypeOK ==
  /\ RESET \in BOOLEAN
  /\ clkdiv \in 0..1 /\ hc \in 0..Pixels - 1 /\ vc \in 0..Lines - 1
  /\ ocm \in [Words -> [Lanes -> Byte]] /\ VGA_READDATA \in [Lanes -> Byte]
  /\ at \in Mismatch..Ended /\ i \in 0..ROWS * COLUMNS /\ j \in Rows
  /\ written \in -1..CTRL /\ resets \in 0..MaxResets

\* The colour drawn for a pixel is that of the character it lies in, as the bytes
\* of the memory stand at that moment, unless the bus has written the character's
\* register at the edge it was read at.
Shown(x, y) ==
  LET cell == (y \div CharHeight) * COLUMNS + x \div CharWidth
      byte(b) == ocm[b \div 4][b % 4]
      ink  == Font[byte(2 * cell + 1) % 128][y % CharHeight][x % CharWidth] = 1
      inverse == byte(2 * cell + 1) >= 128
      index == IF ink # inverse THEN byte(2 * cell) \div 16 ELSE byte(2 * cell) % 16
  IN  palette_content[index \div 2][IF index % 2 = 0 THEN 1 ELSE 2]

PixelShowsItsCell ==
  [][~RESET' /\ clkdiv' > clkdiv /\ display /\ written # IndexOf(hc, vc) => rgb' = Shown(hc, vc)]_vars

\* The test's write and readback never differ, whatever a reset left behind and
\* while the beam reads.
ReadBackAgrees == at # Mismatch

\* At each pause the characters are those of the text that was written last, each
\* in its row, and nothing is left of those before.
Picture(step, cell) ==
  LET r == cell \div COLUMNS
      c == cell % COLUMNS
  IN  IF step.op = "check" THEN r + c
      ELSE IF r \in DOMAIN step.text /\ c - step.column[r] + 1 \in DOMAIN step.text[r]
           THEN step.text[r][c - step.column[r] + 1] ELSE 0

PictureAtPause ==
  Doing("pause") => \A cell \in Cells : VRAM(cell) = Picture(textVGATest[at - 1], cell)

\* The test ends, however often it was interrupted by a reset.
TestEnds == []<>(at = Ended)
=============================================================================
