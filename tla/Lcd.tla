--------------------------------- MODULE Lcd ---------------------------------
(***************************************************************************)
(* task04/demo_lcd.c: main sets an ILI9341 panel up, draws two texts and   *)
(* two circles into frame_buffer and sends it, twice.  Commands and data   *)
(* go over the same wires and differ by the level of a pin; a frame goes   *)
(* in pieces; pixels are stored with their bytes swapped.                  *)
(*                                                                         *)
(* Setting the pin and sending a piece may fail, and main goes on.  The    *)
(* panel is external: after RAMWR it fills the window row by row, and      *)
(* begins again at its first pixel when the window is full.                *)
(***************************************************************************)
EXTENDS Integers, Sequences

CONSTANTS
  Width, Height,    \* LCD_WIDTH, LCD_HEIGHT
  DataSize,         \* DATA_SIZE
  Font,             \* [w, h, bits]: Font_7x10, with one glyph for all characters, the
                    \* set of its <<column, row>> that are not background
  Margin,           \* the distance of the texts from the edges
  TimeLength,       \* the length of asctime without its newline
  IpLengths,        \* the lengths that the text of an address may have
  Circles,          \* the points of each circle, from sin and cos
  MaxFailures       \* bound: the number of calls that fail

Screen == (0..Width - 1) \X (0..Height - 1)

\* The texts and the circles are on the screen, whose sizes are 16 bits wide, and the data
\* of a register goes in one piece.
LcdAssumption ==
  /\ Width \in Nat \ {0} /\ Width < 65536 /\ Height \in Nat \ {0} /\ Height < 65536
  /\ DataSize \in Nat /\ DataSize >= 4
  /\ Margin \in Nat /\ TimeLength \in Nat /\ IpLengths \subseteq Nat /\ MaxFailures \in Nat
  /\ Font.w \in Nat \ {0} /\ Font.h \in Nat \ {0} /\ Margin + Font.h <= Height
  /\ \A n \in IpLengths \cup {TimeLength + 1} : Margin + n * Font.w <= Width
  /\ Circles \in Seq(SUBSET Screen)

VARIABLES
  ip,         \* the length of the address's text
  frame,      \* frame_buffer
  dc,         \* the level of LCD_PIN_DC
  pins,       \* the pins that are set up
  pc,         \* the position in Main(ip) of the operation that main is at
  step,       \* "host", "pins", "reset", "open", "pin", "send", "free", "done" or "dead"
  i, left,    \* i and buff_size of lcd_write_data
  panel,      \* the panel's registers and memory, see Reset
  failures,   \* history: the number of calls that have failed
  picture,    \* history: the colour that each point of the screen was given
  stray       \* history: a pixel was put outside of frame_buffer

mainVars == <<pc, step, i, left>>
drawVars == <<frame, picture, stray>>
wires == <<dc, pins>>
vars == <<ip, drawVars, wires, mainVars, panel, failures>>

-----------------------------------------------------------------------------
(* The panel                                                                 *)

SWRESET == 1
SLPOUT == 17
DISPON == 41
CASET == 42
RASET == 43
RAMWR == 44
MADCTL == 54
COLMOD == 58
Registers == {CASET, RASET, MADCTL, COLMOD}

High(v) == v \div 256
Low(v) == v % 256

\* The panel after a reset: whether it can be reached, whether it is awake and on, the
\* command that data belongs to, its registers, the pixel to come and the first byte of
\* it, and the colour of each point.
Reset == [reached |-> FALSE, awake |-> FALSE, on |-> FALSE, cmd |-> 0,
          regs |-> [a \in Registers |-> <<>>], at |-> 0, high |-> -1,
          ram |-> [pt \in Screen |-> -1]]

\* Commands, byte by byte: of those up to a reset nothing is left but the reset.
PanelCommands(p, codes) ==
  LET resets == {k \in DOMAIN codes : codes[k] = SWRESET}
      given == {codes[k] : k \in {k \in DOMAIN codes : \A l \in resets : k > l}}
      old == IF resets = {} THEN p ELSE [Reset EXCEPT !.reached = TRUE]
  IN  IF given = {} THEN old
      ELSE [old EXCEPT !.cmd = codes[Len(codes)], !.at = 0, !.high = -1,
                       !.awake = @ \/ SLPOUT \in given, !.on = @ \/ DISPON \in given,
                       !.regs = [a \in Registers |-> IF a \in given THEN <<>> ELSE @[a]]]

\* The first and the last column or row of the window.
Window(p, a) == IF Len(p.regs[a]) < 4 THEN <<0, 0>>
                ELSE <<256 * p.regs[a][1] + p.regs[a][2], 256 * p.regs[a][3] + p.regs[a][4]>>
Span(p, a) == Window(p, a)[2] - Window(p, a)[1] + 1

Point(p, m) == <<Window(p, CASET)[1] + (m % Span(p, CASET)),
                 Window(p, RASET)[1] + (m \div Span(p, CASET))>>

\* Two bytes are a pixel, and one that is left over waits for the next.
Pixels(p, bytes) ==
  LET size == Span(p, CASET) * Span(p, RASET)
      Hits(pt) == {k \in 0..(Len(bytes) \div 2) - 1 : Point(p, (p.at + k) % size) = pt}
      Last(pt) == CHOOSE k \in Hits(pt) : \A l \in Hits(pt) : l <= k
  IN  [p EXCEPT !.at = (@ + (Len(bytes) \div 2)) % size,
                !.high = IF Len(bytes) % 2 = 1 THEN bytes[Len(bytes)] ELSE -1,
                !.ram = [pt \in Screen |->
                  IF Hits(pt) = {} THEN @[pt]
                  ELSE 256 * bytes[2 * Last(pt) + 1] + bytes[2 * Last(pt) + 2]]]

PanelData(p, bytes) ==
  IF p.cmd \in Registers THEN [p EXCEPT !.regs[p.cmd] = @ \o bytes]
  ELSE IF p.cmd # RAMWR THEN p
  ELSE Pixels(p, IF p.high = -1 THEN bytes ELSE <<p.high>> \o bytes)

Received(bytes) ==
  IF ~panel.reached THEN panel
  ELSE IF dc = 0 THEN PanelCommands(panel, bytes) ELSE PanelData(panel, bytes)

-----------------------------------------------------------------------------
(* What main does, in order                                                  *)

Command(b) == [kind |-> "command", bytes |-> <<b>>]
Data(bytes) == [kind |-> "data", bytes |-> bytes]

Black == 0
Green == 2016
Blue == 31

\* The commands that set voltages, timing and colour curves, which the panel keeps to
\* itself: of their data, one byte.
Tuning(codes) ==
  [k \in 1..2 * Len(codes) |-> IF k % 2 = 1 THEN Command(codes[(k + 1) \div 2]) ELSE Data(<<0>>)]
InitCommands ==
  <<Command(SWRESET)>>
    \o Tuning(<<203, 207, 232, 234, 237, 247, 192, 193, 197, 199>>)
    \o <<Command(COLMOD), Data(<<85>>)>>
    \o Tuning(<<177, 182, 242, 38, 224, 225>>)
    \o <<Command(SLPOUT), Command(DISPON), Command(MADCTL), Data(<<40>>)>>

\* lcd_set_address_window.
Bounds(a, b) == Data(<<High(a), Low(a), High(b), Low(b)>>)
AddressWindow(x0, y0, x1, y1) ==
  <<Command(CASET), Bounds(x0, x1), Command(RASET), Bounds(y0, y1), Command(RAMWR)>>

String(x, y, length) == [kind |-> "string", x |-> x, y |-> y, length |-> length]
Circle(points) == [kind |-> "circle", points |-> points]
Update == [kind |-> "frame"]

\* The string of asctime counts with its newline for the place and is put without it.
MainFor(n) ==
  InitCommands \o AddressWindow(0, 0, Width - 1, Height - 1)
    \o << [kind |-> "fill"], Update,
          String(Width - Margin - (TimeLength + 1) * Font.w, Margin, TimeLength),
          String(Margin, Height - Font.h - Margin, n) >>
    \o [k \in DOMAIN Circles |-> Circle(Circles[k])] \o <<Update>>
Mains == [n \in IpLengths |-> MainFor(n)]
Op == Mains[ip][pc]
NextOp == /\ pc' = pc + 1
          /\ step' = IF pc = Len(Mains[ip]) THEN "free" ELSE "pin"

-----------------------------------------------------------------------------
(* Drawing                                                                   *)

Cells == 0..Width * Height - 1
Cell(pt) == pt[1] + Width * pt[2]

\* (color >> 8) | (color << 8) in 16 bits.
Swapped(color) == High(color) + 256 * Low(color)

\* Store the colours of some cells.
Put(colors) ==
  /\ frame' = [k \in Cells |-> IF k \in DOMAIN colors THEN Swapped(colors[k]) ELSE frame[k]]
  /\ stray' = (stray \/ ~(DOMAIN colors \subseteq Cells))

\* lcd_fill_rectangle clips a rectangle that is more than one too wide (mutant: to less).
Mut_ClippedWidth(x, w) == IF x + w - 1 > Width THEN Width - x - 1 ELSE w
ClippedWidth(x, w) == IF x + w - 1 > Width THEN Width - x ELSE w
ClippedHeight(y, h) == IF y + h - 1 > Height THEN Height - y ELSE h
RectangleCells(x, y, w, h) ==
  IF x >= Width \/ y >= Height THEN {}
  ELSE {(x + Width * y) + (c + Width * r) :
          c \in 0..ClippedWidth(x, w) - 1, r \in 0..ClippedHeight(y, h) - 1}

\* lcd_fill_screen leaves the last column and the last row as they are.
FillScreen ==
  /\ Op.kind = "fill" /\ step = "pin" /\ NextOp
  /\ Put([k \in RectangleCells(0, 0, Width - 1, Height - 1) |-> Green])
  /\ picture' = [pt \in Screen |->
       IF pt[1] < Width - 1 /\ pt[2] < Height - 1 THEN Green ELSE picture[pt]]
  /\ UNCHANGED <<ip, wires, i, left, panel, failures>>

\* The points that lcd_put_string sets, with their colours.
Letters ==
  [pt \in (Op.x..Op.x + Op.length * Font.w - 1) \X (Op.y..Op.y + Font.h - 1) |->
     IF <<(pt[1] - Op.x) % Font.w, pt[2] - Op.y>> \in Font.bits THEN Black ELSE Green]

PutString ==
  /\ Op.kind = "string" /\ step = "pin" /\ NextOp
  /\ LET text == Letters IN
     /\ Put([k \in {Cell(pt) : pt \in DOMAIN text} |->
               text[CHOOSE pt \in DOMAIN text : Cell(pt) = k]])
     /\ picture' = [pt \in Screen |-> IF pt \in DOMAIN text THEN text[pt] ELSE picture[pt]]
  /\ UNCHANGED <<ip, wires, i, left, panel, failures>>

\* lcd_draw_pixel for each point, which leaves out those beyond the edges.
PutCircle ==
  /\ Op.kind = "circle" /\ step = "pin" /\ NextOp
  /\ Put([k \in {Cell(pt) : pt \in {q \in Op.points : q[1] < Width /\ q[2] < Height}} |-> Blue])
  /\ picture' = [pt \in Screen |-> IF pt \in Op.points THEN Blue ELSE picture[pt]]
  /\ UNCHANGED <<ip, wires, i, left, panel, failures>>

-----------------------------------------------------------------------------
(* Sending                                                                   *)

Fail == failures < MaxFailures /\ failures' = failures + 1
Work == failures' = failures

\* gethostbyname may find nothing, and its result is used.
FindHost ==
  /\ step = "host" /\ step' \in {"pins", "dead"}
  /\ UNCHANGED <<ip, drawVars, wires, pc, i, left, panel, failures>>

\* gpio_init three times.  A pin that fails is not set up, and main goes on.
InitPins ==
  /\ step = "pins" /\ step' = "reset"
  /\ \/ Work /\ pins' = {"reset", "dc", "cs"}
     \/ Fail /\ \E pin \in {"reset", "dc", "cs"} : pins' = {"reset", "dc", "cs"} \ {pin}
  /\ UNCHANGED <<ip, drawVars, dc, pc, i, left, panel>>

\* lcd_reset: a pulse on one pin, and another that selects the panel.
ResetPanel ==
  /\ step = "reset" /\ step' = "open"
  /\ \/ Work /\ panel' = [panel EXCEPT !.reached = "cs" \in pins]
     \/ Fail /\ \E selected \in BOOLEAN :
                  panel' = [panel EXCEPT !.reached = selected /\ "cs" \in pins]
  /\ UNCHANGED <<ip, drawVars, wires, pc, i, left>>

\* What fails is the open, and nothing arrives at the panel, or a setting that the device
\* has already.
OpenDevice ==
  /\ step = "open" /\ step' = "pin"
  /\ \/ Work /\ panel' = panel
     \/ Fail /\ \E opened \in BOOLEAN : panel' = [panel EXCEPT !.reached = @ /\ opened]
  /\ UNCHANGED <<ip, drawVars, wires, pc, i, left>>

\* close, and gpio_free three times.
FreePins ==
  /\ step = "free" /\ step' = "done"
  /\ \/ Work /\ pins' = {}
     \/ Fail /\ \E pin \in pins : pins' = {pin}
  /\ UNCHANGED <<ip, drawVars, dc, pc, i, left, panel>>

SetPin ==
  /\ Op.kind \in {"command", "data", "frame"}
  /\ step = "pin" /\ step' = "send"
  /\ \/ "dc" \in pins /\ Work /\ dc' = IF Op.kind = "command" THEN 0 ELSE 1
     \/ "dc" \notin pins /\ Work /\ dc' = dc
     \/ Fail /\ dc' = dc
  /\ i' = 0 /\ left' = IF Op.kind = "frame" THEN 2 * Width * Height ELSE Len(Op.bytes)
  /\ UNCHANGED <<ip, drawVars, pins, pc, panel>>

\* The bytes of an operation; an uint16_t has its low byte first.
Bytes ==
  IF Op.kind # "frame" THEN Op.bytes
  ELSE [n \in 1..2 * Width * Height |->
          LET v == frame[(n - 1) \div 2] IN IF n % 2 = 1 THEN Low(v) ELSE High(v)]

SpiWrite(length) ==
  \/ Work /\ panel' = Received(SubSeq(Bytes, i + 1, i + length))
  \/ Fail /\ panel' = panel

\* i += DATA_SIZE (mutant: the piece that was sent is not skipped).
Mut_NextPiece == i
NextPiece == i + DataSize

SendPiece ==
  /\ step = "send" /\ left > DataSize
  /\ SpiWrite(DataSize)
  /\ i' = NextPiece /\ left' = left - DataSize
  /\ UNCHANGED <<ip, drawVars, wires, pc, step>>

SendRest ==
  /\ step = "send" /\ left <= DataSize
  /\ SpiWrite(left)
  /\ NextOp /\ i' = 0 /\ left' = 0
  /\ UNCHANGED <<ip, drawVars, wires>>

-----------------------------------------------------------------------------

Init ==
  /\ ip \in IpLengths
  /\ frame = [k \in Cells |-> 0]
  /\ dc = 0 /\ pins = {} /\ pc = 1 /\ step = "host" /\ i = 0 /\ left = 0
  /\ panel = Reset
  /\ failures = 0
  /\ picture = [pt \in Screen |-> 0] /\ stray = FALSE

Halted == step \in {"done", "dead"} /\ UNCHANGED vars

Next ==
  \/ FindHost \/ InitPins \/ ResetPanel \/ OpenDevice \/ FreePins
  \/ step \in {"pin", "send"} /\ (SetPin \/ SendPiece \/ SendRest
                                  \/ FillScreen \/ PutString \/ PutCircle)
  \/ Halted

Spec == Init /\ [][Next]_vars

-----------------------------------------------------------------------------
(* Properties *)

\* The panel takes pixels of 16 bits, lies on its side, is awake and on, and has the whole
\* screen for its window.
Ready ==
  /\ panel.awake /\ panel.on
  /\ panel.regs[COLMOD] = <<85>> /\ panel.regs[MADCTL] = <<40>>
  /\ Window(panel, CASET) = <<0, Width - 1>> /\ Window(panel, RASET) = <<0, Height - 1>>

\* No pixel is sent to a panel that is not ready for it, and once a frame is sent, in
\* whatever pieces, the panel shows what was drawn, each point in its place and in its
\* colour, though RAMWR was sent but once.  Only a call that failed makes a difference.
PanelShowsPicture ==
  failures = 0 =>
    /\ panel.cmd = RAMWR => Ready
    /\ pc > 1 /\ Mains[ip][pc - 1].kind = "frame" /\ step # "send" => panel.ram = picture

\* What main draws is inside of frame_buffer, and so is a rectangle with any corner and
\* size, whose cells are those of its part on the screen: all but those that are just one
\* column or one row too large, which the test for clipping lets pass.
DrawsInside ==
  /\ ~stray
  /\ step = "host" =>
       \A x, w \in 0..2 * Width, y, h \in 0..2 * Height :
         x + w - 1 # Width /\ y + h - 1 # Height =>
           RectangleCells(x, y, w, h) =
             {a + Width * b : a \in {a \in x..x + w - 1 : a < Width},
                              b \in {b \in y..y + h - 1 : b < Height}}

=============================================================================
