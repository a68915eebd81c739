------------------------------ MODULE Reckoning ------------------------------
(***************************************************************************)
(* What is reckoned without the ephemeris: from a birth date and a name,   *)
(* or the Moon's place at birth, the numerology reading, the two squares   *)
(* and the periods of a life; from the transits of a window, its forecast. *)
(* They share no state.                                                    *)
(***************************************************************************)
EXTENDS Numerology, BirthSquares, Dasha, Forecasts

reckonings == <<numerologyVars, squareVars, dashaVars, forecastVars>>

ReckoningInit == NumerologyInit /\ SquareInit /\ DashaInit /\ ForecastInit

ReckoningNext ==
  \/ NumerologyNext /\ UNCHANGED <<squareVars, dashaVars, forecastVars>>
  \/ SquareNext /\ UNCHANGED <<numerologyVars, dashaVars, forecastVars>>
  \/ DashaNext /\ UNCHANGED <<numerologyVars, squareVars, forecastVars>>
  \/ ForecastNext /\ UNCHANGED <<numerologyVars, squareVars, dashaVars>>

ReckoningSpec == ReckoningInit /\ [][ReckoningNext]_reckonings

-----------------------------------------------------------------------------
(* Properties *)

\* What is taken apart adds up again: digits summed in steps, the cycles of a life, the
\* scores of two people, the rows and columns of a square, the corners of the octagram around
\* its center, the periods of a life (numerology.go, cycles.go, compatibility.go,
\* psychomatrix.go, destinymatrix.go, vedic_dasha.go).
NumbersHold ==
  /\ NumbersAddUp /\ OneCycleIsActive /\ ScoreIsMutual
  /\ SquareBalances /\ OctagramAgrees
  /\ OnePeriodIsCurrent

\* Every event of a forecast is told in one period, and the heaviest ones lead
\* (forecast_deterministic.go).
ForecastsHold == PeriodsShareOutEvents /\ HeadlinersLead

\* On the day a cycle or a period gives way to the next, it is the next in order
\* (cycles.go, vedic_dasha.go).
TurnsComeInOrder == [][CycleTurn /\ LordTurn]_reckonings

=============================================================================
