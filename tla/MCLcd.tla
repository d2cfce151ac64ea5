-------------------------------- MODULE MCLcd --------------------------------
(***************************************************************************)
(* A small panel for TLC, with a font, texts and circles to its measure.   *)
(* pc and i have names of their own here, so that this module can stand    *)
(* beside Messanger in MCMessangerLcd and MessangerLcdProofs.              *)
(***************************************************************************)
EXTENDS Integers, Sequences

CONSTANTS Width, Height, DataSize, Font, Margin, TimeLength, IpLengths, Circles, MaxFailures

VARIABLES
  at, sent,                                           \* pc and i
  ip, frame, dc, pins, step, left, panel, failures, picture, stray

LC == INSTANCE Lcd WITH pc <- at, i <- sent

SmallFont == [w |-> 2, h |-> 2, bits |-> {<<0, 0>>, <<1, 1>>}]
SmallCircles == << {<<1, 3>>, <<2, 2>>, <<2, 4>>, <<3, 3>>}, {<<5, 2>>, <<6, 3>>, <<4, 3>>, <<5, 4>>} >>

ASSUME PanelAssumption == LC!LcdAssumption

LcdSpec == LC!Spec

-----------------------------------------------------------------------------
(* Properties *)

\* demo_lcd.c: no pixel is sent to a panel that is not ready for it, and once a frame is
\* sent, in whatever pieces, the panel shows what was drawn, as long as no call failed.
PanelShowsPicture == LC!PanelShowsPicture

\* demo_lcd.c: what is drawn is inside of frame_buffer, and rectangles are clipped to the
\* screen, all but those that are one column or row too large.
DrawsInside == LC!DrawsInside

=============================================================================
