----------------------------- MODULE WallClock ------------------------------
(***************************************************************************)
(* The clock of the machine that the server runs on, in ticks.  Tokens and *)
(* certificates hold whole seconds of it.                                  *)
(***************************************************************************)
EXTENDS Integers

CONSTANTS
    TicksPerSecond,   \* resolution of the clock
    MaxTime           \* bound: the clock, in ticks

ASSUME ClockAssumption == TicksPerSecond \in Nat \ {0} /\ MaxTime \in Nat

VARIABLE now   \* what the clock shows, in ticks

ClockInit == now \in 0..MaxTime

\* Time passes, or the clock is set, forward or back (external).
ClockMoves == now' \in 0..MaxTime

\* time.Time.Unix of a time in ticks.
Unix(t) == t \div TicksPerSecond
=============================================================================
