------------------------------- MODULE Charts -------------------------------
(***************************************************************************)
(* What package swisseph tells of a birth: the western chart, the Vedic    *)
(* chart and the bodygraph, each computed when it is asked for, and the    *)
(* walk through the days after.  They share no state.                      *)
(***************************************************************************)
EXTENDS NatalChart, VedicCharts, HumanDesign, Transits

chartReadings == <<natalVars, vedicVars, humanDesignVars, transitVars>>

ReadingsInit == NatalInit /\ VedicInit /\ HumanDesignInit /\ TransitInit

ReadingsNext ==
  \/ NatalNext /\ UNCHANGED <<vedicVars, humanDesignVars, transitVars>>
  \/ VedicNext /\ UNCHANGED <<natalVars, humanDesignVars, transitVars>>
  \/ HumanDesignNext /\ UNCHANGED <<natalVars, vedicVars, transitVars>>
  \/ TransitNext /\ UNCHANGED <<natalVars, vedicVars, humanDesignVars>>

ReadingsSpec == ReadingsInit /\ [][ReadingsNext]_chartReadings

-----------------------------------------------------------------------------
(* Properties *)

\* Of houses and signs around the first point of Aries, of aspects, of shares and of the
\* divisions of a sign; of the bindus of a planet around the signs, the conditions of the
\* yogas, and the strength the code computes against the one it requires (zodiac.go, aspects.go,
\* vedic_varga.go, vedic_drishti.go, vedic_ashtakavarga.go, vedic_yoga.go, vedic_shadbala.go).
ChartsHold ==
  /\ OneHouseHolds /\ ChartAddsUp
  /\ VargasAgree /\ ChartCoheres /\ BindusAreConstant
  /\ YogasAreSound /\ OnlyMoonAndMarsSuffice

\* Of gates, the centers and the channels between them, and what is read from those
\* (hd_gates.go, hd_centers.go, hd_channels.go, hd_compute.go).
BodygraphHolds == CentersFollowGates /\ TypeFitsAuthority /\ ProfileIsOfTwelve

\* Of events missed, or told twice, between two days (transits.go).
TransitsHold == LunationsAlternate /\ SkyIsTold

=============================================================================
