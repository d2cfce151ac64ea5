------------------------------- MODULE HrTimer ------------------------------
(***************************************************************************)
(* exercise13/hrtimer.c: as MyTimer, but the callback asks to be restarted *)
(* and the exit cancels the timer, which waits for the callback.  The time *)
(* is left out.                                                            *)
(***************************************************************************)
VARIABLES
  phase,   \* of the module, as in LoadOrder
  stack,   \* <<"timer">> from its start until it is cancelled
  armed,   \* hr_timer is in the queue
  fn,      \* timer_callback: "idle", "called" or "forwarded" (the next expiry is set)
  fault    \* "none" or "code", code that is gone was run

vars == <<phase, stack, armed, fn, fault>>

RunCode == fault' = IF phase = "gone" THEN "code" ELSE fault

\* timer_init: hrtimer_start.
Start ==
  /\ phase = "absent"
  /\ phase' = "loaded" /\ stack' = <<"timer">> /\ armed' = TRUE
  /\ UNCHANGED <<fn, fault>>

\* The kernel takes the timer from the queue and calls back.
Expire ==
  /\ armed /\ fn = "idle"
  /\ armed' = FALSE /\ fn' = "called"
  /\ RunCode
  /\ UNCHANGED <<phase, stack>>

Forward ==
  /\ fn = "called" /\ fn' = "forwarded"
  /\ RunCode
  /\ UNCHANGED <<phase, stack, armed>>

\* HRTIMER_RESTART: the kernel puts the timer back.
Restart ==
  /\ fn = "forwarded" /\ fn' = "idle"
  /\ armed' = TRUE
  /\ RunCode
  /\ UNCHANGED <<phase, stack>>

\* timer_exit.
Leave ==
  /\ phase = "loaded"
  /\ phase' = "leaving"
  /\ UNCHANGED <<stack, armed, fn, fault>>

\* hrtimer_cancel, when no callback is running (mutant: at any time).
Mut_Cancellable == TRUE
Cancellable == fn = "idle"

Cancel ==
  /\ phase = "leaving" /\ stack # <<>> /\ Cancellable
  /\ stack' = <<>> /\ armed' = FALSE
  /\ UNCHANGED <<phase, fn, fault>>

Left ==
  /\ phase = "leaving" /\ stack = <<>>
  /\ phase' = "gone"
  /\ UNCHANGED <<stack, armed, fn, fault>>

-----------------------------------------------------------------------------

Init == phase = "absent" /\ stack = <<>> /\ armed = FALSE /\ fn = "idle" /\ fault = "none"

TimerStep == fault = "none" /\ (Expire \/ Forward \/ Restart)
Halted == (fault # "none" \/ phase = "gone") /\ UNCHANGED vars

Next == TimerStep \/ (fault = "none" /\ (Start \/ Leave \/ Cancel \/ Left)) \/ Halted

\* The kernel calls what has expired, and a callback goes on.
Spec == Init /\ [][Next]_vars /\ WF_vars(TimerStep)

-----------------------------------------------------------------------------
(* Properties *)

\* The callback never runs code that is gone.
NoLateCode == fault = "none"

\* As long as the module is loaded, it is called again and again.
TimerGoesOn == phase = "loaded" /\ fn = "idle" ~> fn = "called" \/ phase # "loaded"

=============================================================================
