------------------------ MODULE TimelockedParameter ------------------------
(***************************************************************************)
(* What a parameter behind a time lock promises: a value comes into force  *)
(* only after it was on display for the whole delay of the moment it was   *)
(* proposed.  A proposal may be replaced, which starts the clock anew, or  *)
(* withdrawn at any time.  Where governance may overrule the time lock, it *)
(* leaves nothing on display that was proposed before.                     *)
(*                                                                         *)
(* The settings of a strategy and its main manager implement this          *)
(* specification (StrategyManagers).                                       *)
(***************************************************************************)
EXTENDS Naturals

VARIABLES
  now,            \* block.timestamp
  delay,          \* the time lock for proposals made now
  overrulable,    \* may governance set the value at once?
  value,          \* the value in force
  proposed,       \* the value on display
  effectiveTime   \* when it may come into force; zero when none is proposed

OnDisplay == effectiveTime > 0

Init == ~OnDisplay

Propose ==
  /\ effectiveTime' = now + delay
  /\ UNCHANGED value

Withdraw ==
  /\ effectiveTime' = 0
  /\ UNCHANGED value

Enact ==
  /\ OnDisplay /\ now >= effectiveTime
  /\ value' = proposed
  /\ effectiveTime' = 0

Overrule ==
  /\ overrulable
  /\ effectiveTime' = 0

Next == Propose \/ Withdraw \/ Enact \/ Overrule

Step == [Next]_<<value, proposed, effectiveTime>>
=============================================================================
