--------------------------- MODULE MCMessangerLcd ---------------------------
(***************************************************************************)
(* messanger.c and demo_lcd.c side by side: one of them is chosen and      *)
(* runs, the other stays as it is.                                         *)
(***************************************************************************)
EXTENDS Messanger, MCLcd

VARIABLE which   \* the program that runs

lcdVars == <<at, sent, ip, frame, dc, pins, step, left, panel, failures, picture, stray>>

\* demo_lcd.c is not started: nothing is drawn and there is no panel.
LcdOff ==
  /\ at = 1 /\ sent = 0 /\ ip = 1 /\ frame = <<>> /\ dc = 0 /\ pins = {} /\ step = "off"
  /\ left = 0 /\ panel = LC!Reset /\ failures = 0 /\ picture = <<>> /\ stray = FALSE

EitherInit == /\ Init
              /\ \/ which = "messanger" /\ LcdOff
                 \/ which = "lcd" /\ LC!Init

EitherNext ==
  \/ which = "messanger" /\ Next /\ UNCHANGED <<which, lcdVars>>
  \/ which = "lcd" /\ LC!Next /\ UNCHANGED <<which, vars>>

\* In a run of demo_lcd.c no call of messanger.c has begun that would have to go on.
EitherSpec == EitherInit /\ [][EitherNext]_<<which, vars, lcdVars>> /\ Fairness

=============================================================================
