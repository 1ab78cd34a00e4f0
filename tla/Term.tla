-------------------------------- MODULE Term --------------------------------
(***************************************************************************)
(* What the user sees and types: the terminal emulation on top of the      *)
(* BIOS's and the firmware's screen, the pager and the line editor.        *)
(*                                                                         *)
(* A character is a string; a screen is TmCols by TmRows cells (80 by 25   *)
(* under the BIOS), each a character with the colours it was written in.   *)
(***************************************************************************)
EXTENDS Integers, Sequences, SequencesExt, FiniteSets

CONSTANTS TmCols, TmRows,
          TmInputs          \* what is put on the screen, paged or typed
VARIABLES tmIn, tmOut
tmVars == <<tmIn, tmOut>>

Positions == (0 .. TmCols - 1) \X (0 .. TmRows - 1)
MAXARGS == 8
DEFAULT_FGCOLOR == 7
DEFAULT_BGCOLOR == 0
Digits == <<"0", "1", "2", "3", "4", "5", "6", "7", "8", "9">>
DigitOf(c) == CHOOSE d \in 0 .. 9 : Digits[d + 1] = c
IsDigit(c) == \E d \in 0 .. 9 : Digits[d + 1] = c
\* "%d"
Decimal(n) == IF n < 10 THEN <<Digits[n + 1]>> ELSE <<Digits[(n \div 10) + 1], Digits[(n % 10) + 1]>>
\* Blank for the eye, and what an unprinted control character is to a BIOS
Controls == {"ESC", "NUL"}

-----------------------------------------------------------------------------
(* The devices: a cursor at [hx, hy] and cells.                            *)

Cell(c, f, b) == [c |-> c, fg |-> f, bg |-> b]
Put(t, c) == IF <<t.hx, t.hy>> \in Positions THEN [t EXCEPT !.cell[<<t.hx, t.hy>>] = Cell(c, t.fg, t.bg)] ELSE t
\* int 0x10, AH = 6, a line
scroll_up(t) ==
  [t EXCEPT !.cell = [p \in Positions |-> IF p[2] = TmRows - 1 THEN Cell(" ", t.fg, t.bg) ELSE t.cell[<<p[1], p[2] + 1>>]]]
Blanked(t, S, f, b) == [t EXCEPT !.cell = [p \in Positions |-> IF p \in S THEN Cell(" ", f, b) ELSE t.cell[p]]]

\* The firmware's OutputString, in the attribute last set: it moves its
\* cursor, and scrolls.
FirmwareDown(t) == IF t.hy = TmRows - 1 THEN scroll_up(t) ELSE [t EXCEPT !.hy = @ + 1]
FirmwarePut(t, c) ==
  CASE c = "LF" -> FirmwareDown(t)
    [] c = "BEL" -> t
    [] t.hx < TmCols - 1 /\ c \notin {"LF", "BEL"} -> [Put(t, c) EXCEPT !.hx = @ + 1]
    [] OTHER -> FirmwareDown([Put(t, c) EXCEPT !.hx = 0])
OutputString(t, s) == FoldLeft(FirmwarePut, t, s)

-----------------------------------------------------------------------------
(* Moving the cursor and writing, vidconsole.c and efi_console.c           *)

\* BIOS: the cursor goes where it is told; a control character under it is
\* made a space.  EFI: a position off the screen is refused, and the
\* position is read back.
curs_move(t, x, y) ==
  IF t.efi
  THEN LET to == IF <<x, y>> \in Positions THEN <<x, y>> ELSE <<t.hx, t.hy>>
       IN [t EXCEPT !.hx = to[1], !.hy = to[2], !.x = to[1], !.y = to[2]]
  ELSE LET m == [t EXCEPT !.hx = x, !.hy = y, !.x = x, !.y = y]
       IN IF <<x, y>> \in Positions /\ t.cell[<<x, y>>].c \in Controls THEN Put(m, " ") ELSE m

\* Mutant: the screen is not moved up at its end
WrappedStill(t) ==
  LET w == IF t.x > TmCols - 1 THEN [t EXCEPT !.x = 0, !.y = @ + 1] ELSE t
  IN IF w.y > TmRows - 1 THEN [w EXCEPT !.x = 0, !.y = @ - 1] ELSE w

\* after a character: the next line, and the screen one line up
Wrapped(t) ==
  LET w == IF t.x > TmCols - 1 THEN [t EXCEPT !.x = 0, !.y = @ + 1] ELSE t
  IN IF w.y > TmRows - 1
     THEN [(IF t.efi THEN w ELSE scroll_up(w)) EXCEPT !.x = 0, !.y = @ - 1]
     ELSE w

LineFeed(t) ==
  IF t.y + 1 > TmRows - 1
  THEN IF t.efi THEN FirmwarePut(t, "LF") ELSE scroll_up(t)
  ELSE curs_move(t, t.x, t.y + 1)

Written(t, c) ==
  LET d == IF t.efi THEN FirmwarePut(t, c) ELSE Put(t, c)
      w == Wrapped([d EXCEPT !.x = @ + 1])
  IN curs_move(w, w.x, w.y)

\* vidc_rawputchar, efi_cons_rawputchar
rawputchar(t, c) ==
  CASE c = "TAB" -> FoldLeft(Written, t, [i \in 1 .. 8 |-> " "])
    [] c = "BEL" /\ ~ t.efi -> t
    [] c = "CR" -> curs_move(t, 0, t.y)
    [] c = "LF" -> LineFeed(t)
    [] c = "BS" -> IF t.x > 0 THEN curs_move(t, t.x - 1, t.y) ELSE t
    [] OTHER -> Written(t, c)

-----------------------------------------------------------------------------
(* Control sequences: args has argc + 1 elements.                          *)

end_term(t) == [t EXCEPT !.esc = "none", !.args = <<>>]

bail_out(t, c) ==
  LET lead == IF t.esc = "none" THEN <<>> ELSE IF t.esc = "ESC" THEN <<"ESC">> ELSE <<"ESC", t.esc>>
  IN end_term(FoldLeft(rawputchar, t, lead \o FlattenSeq([i \in 1 .. Len(t.args) |-> Decimal(t.args[i])]) \o <<c>>))

get_arg(t, c) ==
  [t EXCEPT !.args = IF @ = <<>> THEN <<DigitOf(c)>> ELSE [@ EXCEPT ![Len(@)] = 10 * @ + DigitOf(c)]]

\* cursor to a row and a column counted from one
CM(t) ==
  LET less(n) == IF n > 0 THEN n - 1 ELSE n
  IN end_term(curs_move(t, less(t.args[2]), less(t.args[1])))
HO(t) == CM([t EXCEPT !.args = <<1, 1>>])

\* BIOS: the rest of the line and then the lines below; in a line, cury goes
\* to the next one and the cursor does not.
BiosCD(t) ==
  LET g == [t EXCEPT !.x = t.hx, !.y = t.hy]
      r == Blanked(g, {p \in Positions : p[2] = g.y /\ p[1] >= g.x}, 0, 0)
      n == IF g.x > 0 THEN [r EXCEPT !.y = @ + 1] ELSE g
  IN end_term(Blanked(n, {p \in Positions : p[2] >= n.y}, 0, 0))
\* EFI: a line of blanks as long as the rest of the line curx is in
CL(t) ==
  LET n == TmCols - t.x - (IF t.y = TmRows - 1 THEN 1 ELSE 0)
      o == OutputString(t, [i \in 1 .. n |-> " "])
  IN [o EXCEPT !.hx = t.x, !.hy = t.y]
EfiCD(t) ==
  LET g == [t EXCEPT !.x = t.hx, !.y = t.hy]
      below[i \in g.y .. TmRows] ==
        IF i = g.y THEN CL(g) ELSE CL([below[i - 1] EXCEPT !.hx = 0, !.hy = i])
      last == IF TmRows - 2 > g.y THEN TmRows - 2 ELSE g.y
  IN end_term(IF <<g.x, g.y>> = <<0, 0>> THEN Blanked(g, Positions, g.fg, g.bg) ELSE below[last])
CD(t) == IF t.efi THEN EfiCD(t) ELSE BiosCD(t)

ansi_col == <<0, 4, 2, 6, 1, 5, 3, 7>>
Bright(c) == IF c >= 8 THEN c ELSE c + 8
Rendition(t, n) ==
  CASE n = 0 -> [t EXCEPT !.fg = DEFAULT_FGCOLOR, !.bg = DEFAULT_BGCOLOR]
    [] n = 1 -> [t EXCEPT !.fg = Bright(@)]
    [] n \in {4, 5} -> [t EXCEPT !.bg = Bright(@)]
    [] n = 7 -> [t EXCEPT !.fg = t.bg, !.bg = t.fg]
    [] n \in 30 .. 37 -> [t EXCEPT !.fg = ansi_col[n - 29]]
    [] n = 39 -> [t EXCEPT !.fg = DEFAULT_FGCOLOR]
    [] n \in 40 .. 47 -> [t EXCEPT !.bg = ansi_col[n - 39]]
    [] n = 49 -> [t EXCEPT !.bg = DEFAULT_BGCOLOR]
    [] OTHER -> t

InSequence(t, c) ==
  CASE c = ";" -> IF t.args = <<>> THEN [t EXCEPT !.args = <<0>>]
                  ELSE IF Len(t.args) >= MAXARGS THEN bail_out(t, c) ELSE [t EXCEPT !.args = Append(@, 0)]
    [] c = "H" -> IF t.args = <<>> THEN HO(t) ELSE IF Len(t.args) = 2 THEN CM(t) ELSE bail_out(t, c)
    [] c = "J" -> IF t.args = <<>> THEN CD(t) ELSE bail_out(t, c)
    [] c = "m" -> end_term(FoldLeft(Rendition, t, IF t.args = <<>> THEN <<0>> ELSE t.args))
    [] OTHER -> IF IsDigit(c) THEN get_arg(t, c) ELSE bail_out(t, c)

\* vidc_term_emu, efi_term_emu
term_emu(t, c) ==
  CASE t.esc = "none" -> IF c = "ESC" THEN [t EXCEPT !.esc = c] ELSE rawputchar(t, c)
    [] t.esc = "ESC" -> IF c = "[" THEN [t EXCEPT !.esc = c, !.args = <<>>] ELSE bail_out(t, c)
    [] t.esc = "[" -> InSequence(t, c)

\* vidc_init, efi_cons_init, with the cursor where the BIOS left it
TermInit(efi, hx, hy) ==
  LET t == [efi |-> efi, esc |-> "none", args |-> <<>>, fg |-> DEFAULT_FGCOLOR, bg |-> DEFAULT_BGCOLOR, hx |-> hx, hy |-> hy,
            x |-> hx, y |-> hy, cell |-> [p \in Positions |-> Cell("z", DEFAULT_FGCOLOR, DEFAULT_BGCOLOR)]]
  IN curs_move(t, hx, hy)

-----------------------------------------------------------------------------
(* The pager and the line editor                                           *)

\* pager_open: LINES as the user set it, 0 for nothing
MaxLines(lines) ==
  LET n == IF lines = 0 THEN 23 ELSE lines - 1
  IN IF n < 1 THEN 1 ELSE n

\* a key at the prompt
Turn(p) ==
  LET k == p.keys[1]
      n == [p EXCEPT !.keys = Tail(@)]
  IN CASE k \in {"CR", "LF"} -> [n EXCEPT !.free = 1, !.asks = FALSE]
       [] k = " " -> [n EXCEPT !.free = p.max, !.asks = FALSE]
       [] k \in {"q", "Q"} -> [n EXCEPT !.asks = FALSE, !.quit = TRUE]
       [] OTHER -> n

\* pager_output: a character of the text, or a key when it asks; it ends
\* at the end of the text, when told to quit, or for want of a key
PagerStep(p) ==
  IF p.asks THEN Turn(p)
  ELSE LET c == p.text[1]
           free == IF c = "LF" THEN p.free - 1 ELSE p.free
       IN [p EXCEPT !.text = Tail(@), !.free = free, !.asks = c = "LF" /\ free <= 0,
                    !.out = IF c = "LF" THEN Append(@, IF free <= 0 THEN "prompt" ELSE "line") ELSE @]
PagerEnds(p) == p.quit \/ (IF p.asks THEN p.keys = <<>> ELSE p.text = <<>>)
\* pager_file: the text is read in pieces of 79 characters, which the pager
\* does not see
Paged(lines, text, keys) ==
  FoldLeft(LAMBDA p, i : IF PagerEnds(p) THEN p ELSE PagerStep(p),
           [max |-> MaxLines(lines), free |-> MaxLines(lines), text |-> text, keys |-> keys, asks |-> FALSE, quit |-> FALSE, out |-> <<>>],
           [i \in 1 .. Len(text) + Len(keys) |-> i])

\* ngets: a line from the keyboard into n bytes
Typed(b, k, n) ==
  CASE k \in {"BS", "DEL"} -> IF b = <<>> THEN b ELSE Front(b)
    [] k = "^R" -> b
    [] k \in {"^U", "^W"} -> <<>>
    [] OTHER -> IF n < 1 \/ Len(b) < n - 1 THEN Append(b, k) ELSE b
ngets(keys, n) ==
  LET end == CHOOSE i \in 1 .. Len(keys) : keys[i] \in {"CR", "LF"} /\ \A j \in 1 .. i - 1 : keys[j] \notin {"CR", "LF"}
  IN FoldLeft(LAMBDA b, k : Typed(b, k, n), <<>>, SubSeq(keys, 1, end - 1))

\* gptboot's getstr, pc32/common/cons.c: what does not fit is echoed
GetstrKey(b, k, n) ==
  CASE k = "NUL" -> b
    [] k \in {"BS", "DEL"} -> IF b = <<>> THEN b ELSE Front(b)
    [] OTHER -> IF Len(b) < n - 1 THEN Append(b, k) ELSE b
getstr(keys, n) == FoldLeft(LAMBDA b, k : GetstrKey(b, k, n), <<>>, Front(keys))

\* gptboot's keyhit: the keyboard and the BIOS's clock are looked at in turn
SECOND == 18
KeyhitLook(s, o, secs) ==
  IF s.got # "waits" THEN s
  ELSE IF o.key THEN [s EXCEPT !.got = "key", !.n = @ + 1]
  ELSE LET t0 == IF s.t0 = 0 THEN o.tick ELSE s.t0
       IN [t0 |-> t0, n |-> s.n + 1,
           got |-> IF secs > 0 /\ (o.tick < t0 \/ o.tick >= t0 + secs * SECOND) THEN "gave up" ELSE "waits"]
keyhit(secs, looks) == FoldLeft(LAMBDA s, o : KeyhitLook(s, o, secs), [t0 |-> 0, n |-> 0, got |-> "waits"], looks)

-----------------------------------------------------------------------------
NoScreen == [kind |-> "none"]
TmResult(i) ==
  CASE i.kind = "screen" -> [kind |-> "screen", t |-> FoldLeft(term_emu, TermInit(i.efi, i.at[1], i.at[2]), i.chars)]
    [] i.kind = "pager" -> [kind |-> "pager", p |-> Paged(i.lines, i.text, i.keys)]
    [] i.kind = "typed" -> [kind |-> "typed", line |-> IF i.gptboot THEN getstr(i.keys, i.n) ELSE ngets(i.keys, i.n)]
    [] i.kind = "keyhit" -> [kind |-> "keyhit", k |-> keyhit(i.secs, i.looks)]

TmInit(S) == tmIn \in S /\ tmOut = NoScreen
TmStep == tmOut = NoScreen /\ tmOut' \in {TmResult(tmIn)} /\ UNCHANGED tmIn

-----------------------------------------------------------------------------
(* What a terminal, a pager and a line editor are for.                     *)

\* A character shown where the cursor is; the cursor then stands behind it,
\* at the end of the screen in a new line.
Up(w) == [w EXCEPT !.ch = [p \in Positions |-> IF p[2] = TmRows - 1 THEN <<" ", 0, 0>> ELSE w.ch[<<p[1], p[2] + 1>>]]]
Show(w, c) ==
  LET at == w.y * TmCols + w.x + 1
      v == [w EXCEPT !.ch[<<w.x, w.y>>] = <<c, w.fg, w.bg>>]
  IN IF at = TmCols * TmRows THEN [Up(v) EXCEPT !.x = 0] ELSE [v EXCEPT !.x = at % TmCols, !.y = at \div TmCols]
\* a colour as red, green and blue is the BIOS's blue, green and red
Bgr(n) == 4 * (n % 2) + 2 * ((n \div 2) % 2) + n \div 4
Colour(w, n) ==
  CASE n = 0 -> [w EXCEPT !.fg = 7, !.bg = 0]
    [] n = 1 -> [w EXCEPT !.fg = 8 + (@ % 8)]
    [] n = 5 -> [w EXCEPT !.bg = 8 + (@ % 8)]
    [] n = 7 -> [w EXCEPT !.fg = w.bg, !.bg = w.fg]
    [] n \in 30 .. 37 -> [w EXCEPT !.fg = Bgr(n - 30)]
    [] n \in 40 .. 47 -> [w EXCEPT !.bg = Bgr(n - 40)]
\* a sequence that is not understood is shown, its numbers side by side
Literally(k) == <<"ESC", "[">> \o FlattenSeq([i \in 1 .. Len(k.args) |-> Decimal(k.args[i])]) \o <<k.c>>
\* an end of the screen that is not cleared as a terminal would: the BIOS's
\* emulation counts a row on if the cursor is inside a row, the firmware's
\* clears the rows below from their start as far as this one and not the last;
\* and a bell counts as a character for the latter
Astray(w, k) ==
  IF k.seq THEN k.c = "J" /\ k.args = <<>> /\ (w.x > 0 \/ (tmIn.efi /\ w.y > 0)) ELSE k.c = "BEL" /\ tmIn.efi
ShownSo(w, k) ==
  CASE k.seq /\ k.c = "m" -> FoldLeft(Colour, w, IF k.args = <<>> THEN <<0>> ELSE k.args)
    [] k.seq /\ k.c = "H" /\ Len(k.args) = 2 -> [w EXCEPT !.x = k.args[2] - 1, !.y = k.args[1] - 1]
    [] k.seq /\ k.c = "H" /\ k.args = <<>> -> [w EXCEPT !.x = 0, !.y = 0]
    [] k.seq /\ k.c = "J" /\ k.args = <<>> ->
         [w EXCEPT !.ch = [p \in Positions |-> IF p[2] * TmCols + p[1] >= w.y * TmCols + w.x THEN <<" ", 0, 0>> ELSE w.ch[p]]]
    [] k.seq /\ (k.c \notin {"m", "H", "J"} \/ (k.c = "J" /\ k.args # <<>>) \/ (k.c = "H" /\ Len(k.args) \notin {0, 2})) -> FoldLeft(Show, w, Literally(k))
    [] ~ k.seq -> CASE k.c = "LF" -> IF w.y = TmRows - 1 THEN Up(w) ELSE [w EXCEPT !.y = @ + 1]
                    [] k.c = "CR" -> [w EXCEPT !.x = 0]
                    [] k.c = "BS" -> [w EXCEPT !.x = IF @ > 0 THEN @ - 1 ELSE 0]
                    [] k.c = "TAB" -> FoldLeft(Show, w, [i \in 1 .. 8 |-> " "])
                    [] k.c = "BEL" -> w
                    [] OTHER -> Show(w, k.c)
\* the cursor is found again when it is moved to a place, the text when the
\* screen is cleared from its start
Shown(w, k) ==
  LET moved == k.seq /\ k.c = "H" /\ Len(k.args) \in {0, 2}
      cleared == w.cursor /\ k.seq /\ k.c = "J" /\ k.args = <<>> /\ <<w.x, w.y>> = <<0, 0>>
  IN [ShownSo(w, k) EXCEPT !.cursor = ~ Astray(w, k) /\ (@ \/ moved), !.text = ~ Astray(w, k) /\ (@ \/ cleared)]
\* what the eye sees of a cell
Eye(c, f, b) == IF c = " " \/ c \in Controls THEN <<" ">> ELSE <<c, f, b>>

\* What is put on a screen appears where, and in the colours, a terminal
\* would show it, in the last corner of the screen too, and the emulation's
\* idea of the cursor stays that of the screen (vidconsole.c:130 and :367,
\* efi_console.c:128 and :317); not from where the end of the screen is cleared
\* wrongly (vidconsole.c:284, efi_console.c:221) until the cursor is placed, or
\* all is cleared, again.
ScreenRight ==
  tmOut.kind = "screen" =>
    LET t == tmOut.t
        w == FoldLeft(Shown, [x |-> tmIn.at[1], y |-> tmIn.at[2], fg |-> 7, bg |-> 0, cursor |-> TRUE, text |-> TRUE, ch |-> [p \in Positions |-> <<"z", 7, 0>>]], tmIn.tokens)
    IN /\ w.cursor => <<t.x, t.y>> = <<w.x, w.y>> /\ <<t.hx, t.hy>> = <<w.x, w.y>>
       /\ t.esc = "none" /\ <<t.fg, t.bg>> = <<w.fg, w.bg>>
       /\ w.text => \A p \in Positions : Eye(t.cell[p].c, t.cell[p].fg, t.cell[p].bg) = Eye(w.ch[p][1], w.ch[p][2], w.ch[p][3])

\* The pager stops after a page, and then after one line or one page more as
\* it is told, however the text was cut into pieces (pager.c:81).
PagerRight ==
  tmOut.kind = "pager" =>
    LET p == tmOut.p
        stops == SelectSeq([i \in 1 .. Len(p.out) |-> i], LAMBDA i : p.out[i] = "prompt")
        told == SelectSeq(tmIn.keys, LAMBDA k : k \in {"CR", "LF", " "})
        lines == Len(SelectSeq(tmIn.text, LAMBDA c : c = "LF"))
    IN /\ \A k \in DOMAIN stops :
            stops[k] = (IF k = 1 THEN p.max ELSE stops[k - 1] + (IF told[k - 1] = " " THEN p.max ELSE 1))
       /\ Len(p.out) = lines \/ p.quit \/ p.asks
       /\ p.quit \/ p.asks => Len(p.out) > 0 /\ p.out[Len(p.out)] = "prompt"

\* What was typed and neither rubbed out nor killed is the line, and no more
\* than fits (gets.c:39 ngets, pc32/common/cons.c:117 getstr).
Survives(keys, i) ==
  /\ keys[i] = "a"
  /\ \A j \in i + 1 .. Len(keys) :
       /\ keys[j] # "^U"
       /\ LET between == SubSeq(keys, i + 1, j)
          IN Len(SelectSeq(between, LAMBDA k : k = "BS")) <= Len(SelectSeq(between, LAMBDA k : k = "a"))
TypedRight ==
  tmOut.kind = "typed" =>
    LET keys == Front(tmIn.keys)
        kept == {i \in DOMAIN keys : Survives(keys, i)}
    IN /\ Len(tmOut.line) < tmIn.n
       /\ Len(SelectSeq(keys, LAMBDA k : k = "a")) < tmIn.n => Len(tmOut.line) = Cardinality(kept)

\* A key pressed in time is seen, and the wait is as long as it was asked to
\* be unless the clock starts anew at midnight (pc32/common/cons.c:94).
KeyhitRight ==
  tmOut.kind = "keyhit" =>
    LET k == tmOut.k
        spent(i) == tmIn.looks[i].tick - tmIn.looks[1].tick
    IN /\ k.got = "key" => tmIn.looks[k.n].key
       /\ k.got = "gave up" => tmIn.secs > 0 /\ (spent(k.n) >= tmIn.secs * SECOND \/ \E i \in 1 .. k.n : spent(k.n) < spent(i))
       /\ \A i \in 1 .. k.n - 1 : ~ tmIn.looks[i].key
       /\ k.got = "waits" => \A i \in DOMAIN tmIn.looks : ~ tmIn.looks[i].key

TermRight == ScreenRight /\ PagerRight /\ TypedRight /\ KeyhitRight

-----------------------------------------------------------------------------
(***************************************************************************)
(* The serial console of the PC: its port and its speed, the variables     *)
(* that show and set them, and the UARTs' divisors behind them.            *)
(***************************************************************************)

CONSTANTS SePorts,      \* ports that may have a UART
          SeStates,     \* how the previous stage left the machine: [uarts, stuck, divisor, wanted]
          SeSpeeds,     \* speeds a user sets, 0 for what is not a number
          SeBars        \* ports behind the PCI devices a user names, 0 for none
VARIABLES seWas,        \* the state the previous stage left
          se,           \* comc_started, comc_curspeed, comc_port, comc_locator, c_flags
          seEnv,        \* comconsole_speed, comconsole_port, comconsole_pcidev; 0 when unset
          seUart,       \* the divisor in the UART at each port
          seSince       \* what happened: set before the console was started, set at all
seVars == <<seWas, se, seEnv, seUart, seSince>>

COMPORT == 1016
COMSPEED == 9600
COMC_BPS(x) == 115200 \div x
COMC_DIV2BPS(x) == 115200 \div x

\* comc_setup, the registers; a UART that is not there takes nothing
Programmed(port, speed) ==
  IF port \in seWas.uarts /\ speed # 0 THEN [seUart EXCEPT ![port] = COMC_BPS(speed) % 65536] ELSE seUart

\* Mutant: the port is programmed and not remembered
setupForgetful(s, speed, port) == [s EXCEPT !.curspeed = speed, !.trap = @ \/ speed = 0]

\* comc_setup, the variables; 115200 / 0 traps
comc_setup(s, speed, port) == [s EXCEPT !.curspeed = speed, !.port = port, !.trap = @ \/ speed = 0]

comc_getspeed == IF seUart[se.port] = 0 THEN COMSPEED ELSE COMC_DIV2BPS(seUart[se.port])

\* No UART answers, or its receiver never runs dry: not present, and the
\* speed stays 0.  No variable is set before the consoles are probed.
comc_probe ==
  /\ ~ se.probed
  /\ IF se.port \notin seWas.uarts \/ seWas.stuck
     THEN se' = [se EXCEPT !.probed = TRUE] /\ UNCHANGED seEnv
     ELSE \E speed \in {IF seWas.wanted THEN comc_getspeed ELSE COMSPEED} :
            /\ se' = [se EXCEPT !.probed = TRUE, !.present = TRUE, !.curspeed = speed]
            /\ seEnv' = [seEnv EXCEPT !.speed = speed, !.port = se.port]
  /\ UNCHANGED <<seWas, seUart, seSince>>

\* cons_change() calls c_init for every console that is named, present or not
comc_init ==
  /\ se.probed /\ ~ se.trap
  /\ IF se.started THEN UNCHANGED <<se, seUart>>
     ELSE se' = comc_setup([se EXCEPT !.started = TRUE], se.curspeed, se.port) /\ seUart' = Programmed(se.port, se.curspeed)
  /\ UNCHANGED <<seWas, seEnv, seSince>>

Noted == seSince' = [set |-> TRUE, early |-> seSince.early \/ ~ se.started]

\* The variables have their hooks when the console is present.
comc_speed_set(speed) ==
  /\ se.present /\ speed > 0
  /\ IF se.started /\ se.curspeed # speed
     THEN se' = comc_setup(se, speed, se.port) /\ seUart' = Programmed(se.port, speed)
     ELSE UNCHANGED <<se, seUart>>
  /\ seEnv' = [seEnv EXCEPT !.speed = speed]
  /\ Noted /\ UNCHANGED seWas

comc_port_set(port) ==
  /\ se.present /\ port > 0
  /\ IF se.started /\ se.port # port
     THEN se' = comc_setup(se, se.curspeed, port) /\ seUart' = Programmed(port, se.curspeed)
     ELSE UNCHANGED <<se, seUart>>
  /\ seEnv' = [seEnv EXCEPT !.port = port]
  /\ Noted /\ UNCHANGED seWas

\* the port is in the device's bar, and comconsole_port follows
comc_pcidev_handle(dev) ==
  /\ SeBars[dev] # 0
  /\ se' = comc_setup([se EXCEPT !.locator = dev], se.curspeed, SeBars[dev])
  /\ seUart' = Programmed(SeBars[dev], se.curspeed)
  /\ seEnv' = [seEnv EXCEPT !.port = SeBars[dev], !.pcidev = dev]

comc_pcidev_set(dev) ==
  /\ se.present
  /\ IF se.started /\ se.locator # dev
     THEN comc_pcidev_handle(dev)
     ELSE seEnv' = [seEnv EXCEPT !.pcidev = dev] /\ UNCHANGED <<se, seUart>>
  /\ Noted /\ UNCHANGED seWas

Invalid(v) == se.present /\ v = 0 /\ UNCHANGED seVars

SeInit(S) ==
  /\ seWas \in S
  /\ se = [probed |-> FALSE, present |-> FALSE, started |-> FALSE, curspeed |-> 0, port |-> COMPORT, locator |-> 0, trap |-> FALSE]
  /\ seEnv = [speed |-> 0, port |-> 0, pcidev |-> 0]
  /\ seUart = [p \in SePorts |-> IF p = COMPORT THEN seWas.divisor ELSE 0]
  /\ seSince = [set |-> FALSE, early |-> FALSE]

SeNext ==
  \/ comc_probe
  \/ comc_init
  \/ \E v \in SeSpeeds : comc_speed_set(v) \/ Invalid(v)
  \/ \E p \in SePorts : comc_port_set(p)
  \/ \E d \in DOMAIN SeBars : comc_pcidev_set(d)

-----------------------------------------------------------------------------
\* A serial console that is there and in use talks at the speed and through
\* the port it believes it does, and these are the ones the variables show,
\* whichever of port, device and speed was set in whichever order since it
\* was started; and when nothing was set, at the speed the previous stage
\* used (comconsole.c:90 comc_probe, :197 comc_speed_set, :276
\* comc_pcidev_handle, :336 comc_setup).
SerialRight ==
  se.present /\ se.started =>
    /\ ~ se.trap
    /\ se.port \in seWas.uarts => seUart[se.port] = COMC_BPS(se.curspeed)
    /\ ~ seSince.early => seEnv.speed = se.curspeed /\ seEnv.port = se.port
    /\ ~ seSince.set /\ seWas.wanted /\ seWas.divisor # 0 => seUart[se.port] = seWas.divisor
=============================================================================
