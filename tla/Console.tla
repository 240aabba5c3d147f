------------------------------ MODULE Console ------------------------------
(***************************************************************************)
(* The text console of the kernel: the framebuffer that set_resolution     *)
(* negotiates with VideoCore, the terminal of io.cpp that draws on it, and *)
(* the line editor and parser of the shell that write to the terminal.     *)
(*                                                                         *)
(* A screen position is a cell of eight by eight pixels.  The terminal is  *)
(* only used by the boot core, outside interrupts, so a command and a      *)
(* keystroke are one step each.  A write to a cell or a byte that does not *)
(* exist is undefined behaviour: it is recorded in term.stray, and the     *)
(* model says nothing of what follows it.                                  *)
(***************************************************************************)
EXTENDS Integers, Sequences, FiniteSets, SequencesExt

CONSTANTS
    MaxRows, MaxCols,   \* MAX_TERM_ROWS, MAX_TERM_COLS
    Byte,               \* how many values a uint8_t has
    Modes,              \* the grids VideoCore may answer, [rows, cols]
    Bases,              \* the pages a framebuffer may start at
    Keys,               \* the bytes that arrive on the UART
    Prompts,            \* the lengths of the prompts, cwd and "$ "
    MaxLine, MaxArgs,   \* MAX_LINE, MAX_ARGS
    Keystrokes, Commands \* bounds: bytes typed, commands run

ASSUME GridAssumption ==
    /\ MaxRows \in Nat \ {0} /\ MaxCols \in Nat \ {0} /\ Byte \in Nat
    /\ MaxRows < Byte /\ MaxCols < Byte

\* Characters; "a" stands for every printable one but the blank and the dollar
\* sign, "nul" for what term_buffer holds at first.
Blank == "sp"
Chars == {"a", Blank, "bs", "del", "cr", "lf", "dollar", "nul"}

\* VideoCore never answers with a framebuffer at 0, which set_resolution takes
\* for none; a line has room for one byte and its end.
ASSUME InputAssumption ==
    /\ Modes \subseteq [rows : Nat, cols : Nat] /\ Bases \subseteq Nat \ {0}
    /\ Keys \subseteq Chars \ {"nul"} /\ Prompts \subseteq Nat
    /\ MaxLine \in Nat /\ MaxLine >= 2 /\ MaxArgs \in Nat
    /\ Keystrokes \in Nat /\ Commands \in Nat

VARIABLES
    fb,         \* framebuffer_base, and its size in cells
    mapped,     \* pages of framebuffers in the kernel's address space
    term,       \* the terminal: its globals and what the screen shows
    line,       \* buf[0 .. i-1] of read_line
    prompt,     \* the column at which the line starts
    phase,      \* "boot", "edit" a line, "run" a command, or "off"
    typed, ran, \* bounds
    misfit,     \* set_resolution has left a grid or a cursor that do not fit
    resized,    \* the mode has changed since the terminal was last cleared
    garbled     \* the line on the screen is no longer the line in memory

vars == <<fb, mapped, term, line, prompt, phase, typed, ran,
          misfit, resized, garbled>>

-----------------------------------------------------------------------------
(* Cells, glyphs and the terminal's buffer.                                 *)

Block == "block"        \* the cursor: a blank with its colours swapped
Unknown == "unknown"    \* what the framebuffer held before it was drawn on
Cells == MaxRows * MaxCols
Index(r, c) == r * MaxCols + c

\* Bytes outside 32 .. 126 have no glyph and are all drawn as a hollow box.
Glyph(ch) == IF ch \in {"bs", "del"} THEN "box" ELSE ch

draw_char(t, r, c, glyph) ==
    IF r \in DOMAIN t.scr /\ c \in DOMAIN t.scr[r]
    THEN [t EXCEPT !.scr[r][c] = glyph]
    ELSE [t EXCEPT !.stray = TRUE]

Store(t, r, c, ch) ==
    IF Index(r, c) \in DOMAIN t.buf
    THEN [t EXCEPT !.buf[Index(r, c)] = ch]
    ELSE [t EXCEPT !.stray = TRUE]

DrawCursor(t) == draw_char(t, t.row, t.col, Block)

-----------------------------------------------------------------------------
(* The terminal.                                                            *)

\* One row up, in the buffer and on the screen; the last row is blanked.
Scrolled(t, stride) ==
    LET last == Index(t.rows - 1, 0)
    IN  [t EXCEPT
          !.buf = [i \in DOMAIN t.buf |->
                     IF i < last THEN t.buf[i + stride]
                     ELSE IF i < last + t.cols THEN Blank ELSE t.buf[i]],
          !.scr = [r \in DOMAIN t.scr |->
                     IF r < t.rows - 1 THEN t.scr[r + 1]
                     ELSE IF r = t.rows - 1
                          THEN [c \in DOMAIN t.scr[r] |-> Blank]
                          ELSE t.scr[r]]]

\* What is moved and what is blanked must lie in the buffer, and in the framebuffer.
CanScroll(t) ==
    /\ t.rows > 0
    /\ Index(t.rows, 0) <= Cells /\ Index(t.rows - 1, t.cols) <= Cells
    /\ t.rows - 1 \in DOMAIN t.scr

\* Fault: the buffer is moved by the width of the grid, not by its stride.
ScrollByWidth(t) ==
    IF CanScroll(t) THEN Scrolled(t, t.cols) ELSE [t EXCEPT !.stray = TRUE]

_term_scroll(t) ==
    IF CanScroll(t) THEN Scrolled(t, MaxCols) ELSE [t EXCEPT !.stray = TRUE]

\* Fault: the last row is taken for one that still fits.
NextRowLate(t) ==
    LET down == [t EXCEPT !.row = @ + 1, !.col = 0]
    IN  IF down.row > t.rows
        THEN [_term_scroll(down) EXCEPT !.row = t.rows - 1]
        ELSE down

NextRow(t) ==
    LET down == [t EXCEPT !.row = @ + 1, !.col = 0]
    IN  IF down.row >= t.rows
        THEN [_term_scroll(down) EXCEPT !.row = t.rows - 1]
        ELSE down

\* Fault: the column after the prompt is protected as well.
ErasesLate(t, ch) == ch \in {"del", "bs"} /\ t.col > 4

\* The prompt of the root directory ends at column 3.
Erases(t, ch) == ch \in {"del", "bs"} /\ t.col > 3

term_putc(t, ch) ==
    LET bare == draw_char(t, t.row, t.col, Blank)
        moved ==
          IF ch \in {"cr", "lf"} THEN NextRow(bare)
          ELSE IF Erases(t, ch)
               THEN Store([bare EXCEPT !.col = @ - 1], t.row, t.col - 1, Blank)
               ELSE LET put == [draw_char(Store(bare, t.row, t.col, ch),
                                          t.row, t.col, Glyph(ch))
                                  EXCEPT !.col = @ + 1]
                    IN  IF put.col >= t.cols THEN NextRow(put) ELSE put
    IN  IF t.stray THEN t ELSE DrawCursor(moved)

term_puts(t, str) == FoldLeft(term_putc, t, str)

term_clear(t) ==
    [t EXCEPT !.buf = [i \in DOMAIN @ |-> Blank],
              !.scr = [r \in DOMAIN @ |-> [c \in DOMAIN @[r] |-> Blank]],
              !.row = 0, !.col = 0]

-----------------------------------------------------------------------------
(* The framebuffer.                                                         *)

NoBuffer == [base |-> 0, rows |-> 0, cols |-> 0]
Pages(f) == f.base .. f.base + f.rows - 1   \* one page for a row of cells
NoScreen == [r \in {} |-> <<>>]

\* A buffer VideoCore has just allocated, not drawn on yet.
Fresh(f) == [r \in 0 .. f.rows - 1 |-> [c \in 0 .. f.cols - 1 |-> Unknown]]

\* Fault: the size of the new framebuffer is used.
UnmappedBySize(old, new) ==
    IF old.base # 0 THEN mapped \ (old.base .. old.base + new.rows - 1)
    ELSE mapped

\* unmap of the previous framebuffer, before its globals are overwritten.
Unmapped(old, new) == IF old.base # 0 THEN mapped \ Pages(old) ELSE mapped

\* The grid of the terminal, truncated to eight bits, for a screen of f.
\* The cursor stays where it is.
Regrid(t, f, isMapped) ==
    [t EXCEPT !.rows = f.rows % Byte, !.cols = f.cols % Byte,
              !.scr = IF isMapped THEN Fresh(f) ELSE NoScreen]

Fits(t) == t.rows \in 1 .. MaxRows /\ t.cols \in 1 .. MaxCols
           /\ t.row < t.rows /\ t.col < t.cols

\* set_resolution when VideoCore answers f; the result of map is ignored.
Adopt(f, isMapped) ==
    /\ fb' = f
    /\ mapped' = Unmapped(fb, f) \cup (IF isMapped THEN Pages(f) ELSE {})
    /\ misfit' = ~(isMapped /\ Fits(Regrid(term, f, isMapped)))
    /\ resized' = (phase # "boot")

Answers == {[base |-> b, rows |-> m.rows, cols |-> m.cols] :
              b \in Bases, m \in Modes}

-----------------------------------------------------------------------------
(* The shell: reading a line, splitting it, running a command.              *)

PromptText(n) == [k \in 1 .. n |-> IF k = n THEN Blank ELSE "dollar"]
NewLine == <<"cr", "lf">>
Rubout == <<"bs", Blank, "bs">>     \* printf("\b \b")

\* print_banner, after shell_run's line break.
Banner == NewLine \o <<"a">> \o NewLine

\* Fault: one word more than there are slots.
ParseByteLate(p, ch) ==
    IF ch = Blank THEN [p EXCEPT !.inWord = FALSE]
    ELSE IF p.inWord
         THEN [p EXCEPT !.words[Len(p.words)] = Append(@, ch)]
    ELSE IF Len(p.words) <= MaxArgs /\ ~p.full
         THEN [p EXCEPT !.words = Append(@, <<ch>>), !.inWord = TRUE]
    ELSE [p EXCEPT !.full = TRUE]

\* parse_args: a byte either begins a word, extends one or separates words;
\* after the last slot is taken the rest of the line is not looked at.
ParseByte(p, ch) ==
    IF ch = Blank THEN [p EXCEPT !.inWord = FALSE]
    ELSE IF p.inWord
         THEN [p EXCEPT !.words[Len(p.words)] = Append(@, ch)]
    ELSE IF Len(p.words) < MaxArgs /\ ~p.full
         THEN [p EXCEPT !.words = Append(@, <<ch>>), !.inWord = TRUE]
    ELSE [p EXCEPT !.full = TRUE]

parse_args(l) ==
    FoldLeft(ParseByte, [words |-> <<>>, inWord |-> FALSE, full |-> FALSE], l).words

\* join_args: the words from the k-th on, a blank between them.
join_args(words, k) ==
    FoldLeft(LAMBDA text, w : IF text = <<>> THEN w ELSE text \o <<Blank>> \o w,
             <<>>, SubSeq(words, k, Len(words)))

NewPrompt(t, n) ==
    /\ term' = term_puts(t, PromptText(n))
    /\ prompt' = term'.col
    /\ line' = <<>>
    /\ garbled' = FALSE
    /\ phase' = "edit"

\* kernel_main up to the first prompt: set_resolution(1920, 1080), which may
\* fail and leave framebuffer_base zero, then shell_run's banner.
Start(t) == \E n \in Prompts : NewPrompt(term_puts(t, Banner), n)

Boot ==
    /\ phase = "boot"
    /\ \/ /\ misfit' = TRUE
          /\ Start(term)
          /\ UNCHANGED <<fb, mapped, resized>>
       \/ \E f \in Answers, ok \in BOOLEAN :
            Adopt(f, ok) /\ Start(Regrid(term, f, ok))
    /\ UNCHANGED <<typed, ran>>

\* A line that fills the buffer ends without a line break.
Full(l) == Len(l) = MaxLine - 1

\* read_line: a line break ends the line.
Enter(ch) ==
    /\ ch \in {"cr", "lf"}
    /\ term' = term_puts(term, NewLine)
    /\ phase' = "run"
    /\ UNCHANGED <<line, garbled>>

\* read_line: backspace and DEL delete the last byte.
Rub(ch) ==
    /\ ch \in {"bs", "del"} /\ line # <<>>
    /\ line' = Front(line)
    /\ term' = term_puts(term, Rubout)
    /\ garbled' = (garbled \/ term.col < 4)
    /\ UNCHANGED phase

\* read_line: any other byte from 32 on is stored and echoed; so is a DEL
\* that finds nothing to delete.
Type(ch) ==
    /\ ch \notin {"cr", "lf", "bs"} /\ (ch = "del" => line = <<>>)
    /\ line' = Append(line, ch)
    /\ term' = term_putc(term, ch)
    /\ garbled' = (garbled \/ Erases(term, ch) \/ term'.col = 0)
    /\ phase' = IF Full(line') THEN "run" ELSE "edit"

\* The remaining bytes below 32, and a backspace in an empty line.
Ignore(ch) ==
    /\ ch = "bs" /\ line = <<>>
    /\ UNCHANGED <<line, term, garbled, phase>>

Key ==
    /\ phase = "edit" /\ ~term.stray
    /\ typed < Keystrokes
    /\ typed' = typed + 1
    /\ \E ch \in Keys : Enter(ch) \/ Rub(ch) \/ Type(ch) \/ Ignore(ch)
    /\ UNCHANGED <<fb, mapped, prompt, ran, misfit, resized>>

\* A line without a word is read and forgotten.
Nothing == \E n \in Prompts : NewPrompt(term, n)

\* "<argv[0]>: command not found", and every command that prints a line.
Say(word) == \E n \in Prompts : NewPrompt(term_puts(term, word \o NewLine), n)

\* cmd_cd, cmd_resolution and the other commands that print nothing here.
Quiet == \E n \in Prompts : NewPrompt(term, n)

cmd_clear ==
    /\ \E n \in Prompts : NewPrompt(term_clear(term), n)
    /\ resized' = FALSE
    /\ UNCHANGED <<fb, mapped, misfit>>

\* cmd_setres with two positive numbers; VideoCore may refuse the request.
cmd_setres ==
    \/ Quiet /\ UNCHANGED <<fb, mapped, misfit, resized>>
    \/ \E f \in Answers, ok \in BOOLEAN :
         Adopt(f, ok) /\ \E n \in Prompts : NewPrompt(Regrid(term, f, ok), n)

\* cmd_shutdown masks every exception and waits for ever.
cmd_shutdown ==
    /\ term' = term_puts(term, <<"a">> \o NewLine)
    /\ phase' = "off"
    /\ UNCHANGED <<line, prompt, garbled>>

Run ==
    /\ phase = "run" /\ ~term.stray
    /\ ran < Commands
    /\ ran' = ran + 1
    /\ LET words == parse_args(line)
       IN  \/ words = <<>> /\ Nothing /\ UNCHANGED <<fb, mapped, misfit, resized>>
           \/ /\ words # <<>>
              /\ \/ /\ Say(words[1]) \/ Quiet \/ cmd_shutdown
                    /\ UNCHANGED <<fb, mapped, misfit, resized>>
                 \/ cmd_clear
                 \/ cmd_setres
    /\ UNCHANGED typed

Init ==
    /\ fb = NoBuffer /\ mapped = {}
    /\ term = [rows |-> MaxRows, cols |-> MaxCols, row |-> 0, col |-> 0,
               buf |-> [i \in 0 .. Cells - 1 |-> "nul"],
               scr |-> NoScreen, stray |-> FALSE]
    /\ line = <<>> /\ prompt = 0 /\ phase = "boot"
    /\ typed = 0 /\ ran = 0
    /\ misfit = FALSE /\ resized = FALSE /\ garbled = FALSE

Next == Boot \/ Key \/ Run

Spec == Init /\ [][Next]_vars

-----------------------------------------------------------------------------
(* Properties.                                                              *)

\* The type invariant: the terminal's globals are bytes, its buffer holds
\* characters, and a line fits the buffer of shell_run (io.cpp, shell.cpp).
TypeOK ==
    /\ term.rows \in 0 .. Byte - 1 /\ term.cols \in 0 .. Byte - 1
    /\ term.buf \in [0 .. Cells - 1 -> Chars \ {"cr", "lf"}]
    /\ term.stray \in BOOLEAN
    /\ phase \in {"boot", "edit", "run", "off"}
    /\ Len(line) < MaxLine
    /\ prompt \in 0 .. Byte - 1
    /\ typed \in 0 .. Keystrokes /\ ran \in 0 .. Commands

\* put_pixel and the stores to term_buffer have no bounds of their own: the
\* cursor that term_putc keeps must stay on the grid through every wrap,
\* scroll, erasure and line break.  Only a mode set_resolution has adopted
\* without looking at the cursor, at the size of the arrays or at map's
\* result takes a write out of range.
StaysOnTheGrid ==
    /\ TypeOK
    /\ phase # "boot" /\ ~misfit =>
         /\ ~term.stray
         /\ term.row < term.rows /\ term.col < term.cols

\* What render.h says of the callers of put_pixel, without the exception:
\* "callers are responsible for staying in range".
CallersStayInRange == ~term.stray

\* The terminal keeps its text twice, in term_buffer and as pixels, and
\* scrolls the two by different strides: every cell drawn on since the mode
\* was set shows the byte the buffer holds, but for the cursor's.
ScreenShowsBuffer ==
    phase # "boot" /\ ~misfit /\ ~resized =>
        \A r \in 0 .. term.rows - 1, c \in 0 .. term.cols - 1 :
            \/ term.scr[r][c] = Unknown
            \/ term.scr[r][c] = Glyph(term.buf[Index(r, c)])
            \/ term.scr[r][c] = Blank /\ term.buf[Index(r, c)] = "nul"
            \/ r = term.row /\ c = term.col /\ term.scr[r][c] = Block

\* What follows the prompt on the cursor's row.
Echo == [k \in 1 .. Len(line) |-> term.buf[Index(term.row, prompt + k - 1)]]

InStep == term.col = prompt + Len(line) /\ Echo = line

\* The user edits what the screen shows, the shell runs what read_line has
\* stored: until the line wraps or an erasure reaches column 3, they agree.
EchoIsTheLine == phase = "edit" /\ ~garbled /\ ~misfit => InStep

\* set_resolution takes the old framebuffer's pages out of the address
\* space by the old framebuffer's size: none of a buffer VideoCore has
\* released stays mapped, wherever the new one starts.
OnlyTheFramebufferMapped == mapped \subseteq (IF fb.base = 0 THEN {} ELSE Pages(fb))

\* Reference for parse_args: where words begin, and what each one is.
Begins(l) == {k \in 1 .. Len(l) : l[k] # Blank /\ (k > 1 => l[k - 1] = Blank)}
IsWordAt(w, l, k) ==
    /\ SubSeq(l, k, k + Len(w) - 1) = w
    /\ Blank \notin {w[n] : n \in 1 .. Len(w)}
    /\ k + Len(w) <= Len(l) => l[k + Len(w)] = Blank

\* How many words begin at the k-th byte or before it.
Ordinal(l, k) == Cardinality({b \in Begins(l) : b <= k})

\* parse_args finds the words of the line, in order and whole, and drops
\* those beyond its last slot; what join_args makes of them never outgrows
\* the buffer of cmd_write.
WordsAreTheLine ==
    phase = "run" =>
        LET words == parse_args(line)
            n == Ordinal(line, Len(line))
        IN  /\ Len(words) = IF n < MaxArgs THEN n ELSE MaxArgs
            /\ \A b \in Begins(line) :
                 Ordinal(line, b) <= MaxArgs => IsWordAt(words[Ordinal(line, b)], line, b)
            /\ Len(join_args(words, 1)) <= Len(line)

=============================================================================
