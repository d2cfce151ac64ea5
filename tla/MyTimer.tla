------------------------------- MODULE MyTimer ------------------------------
(***************************************************************************)
(* exercise13/mytimer.c: a timer whose function arms it again.  The exit   *)
(* takes the timer out of the queue, but does not wait for a function that *)
(* is running.  The code of the module is gone when it returns.            *)
(***************************************************************************)
VARIABLES
  phase,   \* of the module: "absent", "loaded", "leaving" or "gone"
  armed,   \* my_timer is in the queue
  fn,      \* timer_function: "idle", "called" or "rearmed"
  fault,   \* "none" or "code", code that is gone was run
  met      \* history: del_timer came while the function ran

vars == <<phase, armed, fn, fault, met>>

RunCode == fault' = IF phase = "gone" THEN "code" ELSE fault

\* init: add_timer.
Start ==
  /\ phase = "absent"
  /\ phase' = "loaded" /\ armed' = TRUE
  /\ UNCHANGED <<fn, fault, met>>

\* The kernel takes a timer from the queue and calls its function; not twice at once.
Expire ==
  /\ armed /\ fn = "idle"
  /\ armed' = FALSE /\ fn' = "called"
  /\ RunCode
  /\ UNCHANGED <<phase, met>>

\* mod_timer (mutant: the function does not arm the timer again).
Mut_Armed == armed
Armed == TRUE

Rearm ==
  /\ fn = "called" /\ fn' = "rearmed"
  /\ armed' = Armed
  /\ RunCode
  /\ UNCHANGED <<phase, met>>

Return ==
  /\ fn = "rearmed" /\ fn' = "idle"
  /\ RunCode
  /\ UNCHANGED <<phase, armed, met>>

\* cleanup.
DelTimer ==
  /\ phase = "loaded"
  /\ phase' = "leaving" /\ armed' = FALSE
  /\ met' = (fn # "idle")
  /\ UNCHANGED <<fn, fault>>

Left ==
  /\ phase = "leaving"
  /\ phase' = "gone"
  /\ UNCHANGED <<armed, fn, fault, met>>

-----------------------------------------------------------------------------

Init == phase = "absent" /\ armed = FALSE /\ fn = "idle" /\ fault = "none" /\ met = FALSE

TimerStep == fault = "none" /\ (Expire \/ Rearm \/ Return)
Halted == (fault # "none" \/ (phase = "gone" /\ ~armed /\ fn = "idle")) /\ UNCHANGED vars

Next == TimerStep \/ (fault = "none" /\ (Start \/ DelTimer \/ Left)) \/ Halted

\* The kernel calls what has expired, and a function that was called goes on.
Spec == Init /\ [][Next]_vars /\ WF_vars(TimerStep)

-----------------------------------------------------------------------------
(* Properties *)

\* The timer function runs code that is gone only when it was running as the module was
\* unloaded.
LateCodeNeedsMeeting == fault = "code" => met

\* As long as the module is loaded, the function is called again and again.
TimerGoesOn == phase = "loaded" /\ fn = "idle" ~> fn = "called" \/ phase # "loaded"

=============================================================================
