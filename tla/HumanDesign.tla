---------------------------- MODULE HumanDesign ----------------------------
(***************************************************************************)
(* The Human Design chart of a birth (hd_compute.go, hd_gates.go,          *)
(* hd_channels.go and hd_centers.go of package swisseph): gates and lines  *)
(* of the bodies at birth and 88 degrees of the Sun earlier, the channels  *)
(* and centers they define, type, authority, definition, profile, cross    *)
(* and variables.                                                          *)
(*                                                                         *)
(* The ephemeris is outside: the bodies may be anywhere.  A longitude is a *)
(* whole number of units of which a degree has 192 and a tone five.  Names *)
(* of channels and gates, strategy and not-self theme are left out.        *)
(***************************************************************************)
EXTENDS Integers, Sequences, FiniteSets

CONSTANTS
  BirthSky,  \* some placements: [Moment -> [hdBodies -> longitude]]
  WheelPlace  \* where a body may be moved to

VARIABLES
  place, \* computeTropicalPlanetsForHD: [Moment -> [hdBodies -> longitude]], empty before
         \* a chart is asked for
  moved  \* one body has been moved

humanDesignVars == <<place, moved>>

Moment == {"birth", "design"}
hdBodies == {"Sun", "Moon", "NorthNode", "Mercury", "Venus", "Mars", "Jupiter", "Saturn",
           "Uranus", "Neptune", "Pluto"}
Body == hdBodies \cup {"Earth", "SouthNode"}

----------------------------------------------------------------------------
(* The wheel. *)

Unit == 192
WheelRound == 360 * Unit
toneSpan == 5
colorSpan == 6 * toneSpan
lineSpan == 6 * colorSpan
gateSpan == 6 * lineSpan
wheelStartLongitude == 302 * Unit

ASSUME HumanDesignAssumption ==
  /\ BirthSky \subseteq [Moment -> [hdBodies -> 0 .. WheelRound - 1]]
  /\ WheelPlace \subseteq 0 .. WheelRound - 1

gateSequence == <<
  41, 19, 13, 49, 30, 55, 37, 63, 22, 36, 25, 17, 21, 51, 42, 3,
  27, 24, 2, 23, 8, 20, 16, 35, 45, 12, 15, 52, 39, 53, 62, 56,
  31, 33, 7, 4, 29, 59, 40, 64, 47, 6, 46, 18, 48, 57, 32, 50,
  28, 44, 1, 43, 14, 34, 9, 5, 26, 11, 10, 58, 38, 54, 61, 60 >>

\* gateForLongitude
OnWheel(lon) == (lon - wheelStartLongitude + WheelRound) % WheelRound
Gate(lon) == gateSequence[OnWheel(lon) \div gateSpan + 1]
Line(lon) == (OnWheel(lon) % gateSpan) \div lineSpan + 1
Color(lon) == (OnWheel(lon) % lineSpan) \div colorSpan + 1
Tone(lon) == (OnWheel(lon) % colorSpan) \div toneSpan + 1

----------------------------------------------------------------------------
(* Centers and channels. *)

centerGates ==
  [Head |-> {64, 61, 63}, Ajna |-> {47, 24, 4, 17, 43, 11},
   Throat |-> {62, 23, 56, 35, 12, 45, 33, 8, 31, 20, 16},
   G |-> {7, 1, 13, 25, 10, 15, 2, 46}, Heart |-> {21, 40, 26, 51},
   Sacral |-> {5, 14, 29, 59, 9, 3, 42, 27, 34},
   SolarPlexus |-> {36, 22, 37, 6, 49, 55, 30},
   Spleen |-> {48, 57, 44, 50, 32, 28, 18},
   Root |-> {53, 60, 52, 19, 39, 41, 58, 38, 54}]

Center == DOMAIN centerGates
motorCenters == {"Heart", "SolarPlexus", "Sacral", "Root"}

\* The two gates and the two centers of each channel.
channels == {
  <<{1, 8}, {"G", "Throat"}>>, <<{2, 14}, {"G", "Sacral"}>>,
  <<{3, 60}, {"Sacral", "Root"}>>, <<{4, 63}, {"Ajna", "Head"}>>,
  <<{5, 15}, {"Sacral", "G"}>>, <<{6, 59}, {"SolarPlexus", "Sacral"}>>,
  <<{7, 31}, {"G", "Throat"}>>, <<{9, 52}, {"Sacral", "Root"}>>,
  <<{10, 20}, {"G", "Throat"}>>, <<{10, 34}, {"G", "Sacral"}>>,
  <<{10, 57}, {"G", "Spleen"}>>, <<{11, 56}, {"Ajna", "Throat"}>>,
  <<{12, 22}, {"Throat", "SolarPlexus"}>>, <<{13, 33}, {"G", "Throat"}>>,
  <<{16, 48}, {"Throat", "Spleen"}>>, <<{17, 62}, {"Ajna", "Throat"}>>,
  <<{18, 58}, {"Spleen", "Root"}>>, <<{19, 49}, {"Root", "SolarPlexus"}>>,
  <<{20, 34}, {"Throat", "Sacral"}>>, <<{20, 57}, {"Throat", "Spleen"}>>,
  <<{21, 45}, {"Heart", "Throat"}>>, <<{23, 43}, {"Throat", "Ajna"}>>,
  <<{24, 61}, {"Ajna", "Head"}>>, <<{25, 51}, {"G", "Heart"}>>,
  <<{26, 44}, {"Heart", "Spleen"}>>, <<{27, 50}, {"Sacral", "Spleen"}>>,
  <<{28, 38}, {"Spleen", "Root"}>>, <<{29, 46}, {"Sacral", "G"}>>,
  <<{30, 41}, {"SolarPlexus", "Root"}>>, <<{32, 54}, {"Spleen", "Root"}>>,
  <<{34, 57}, {"Sacral", "Spleen"}>>, <<{35, 36}, {"Throat", "SolarPlexus"}>>,
  <<{37, 40}, {"SolarPlexus", "Heart"}>>, <<{39, 55}, {"Root", "SolarPlexus"}>>,
  <<{42, 53}, {"Sacral", "Root"}>>, <<{47, 64}, {"Ajna", "Head"}>> }

----------------------------------------------------------------------------
(* The chart. *)

\* findDesignTime: the other chart is of the moment the Sun was 88 degrees behind.
DesignSun(sun) == (sun - 88 * Unit + WheelRound) % WheelRound

Opposite(lon) == (lon + 180 * Unit) % WheelRound

\* The longitude of a body in one of the charts.
LongitudeOf(c, b) ==
  CASE b = "Sun" /\ c = "design" -> DesignSun(place["birth"]["Sun"])
    [] b = "Earth" /\ c = "birth" -> Opposite(place[c]["Sun"])
    [] b = "Earth" /\ c = "design" -> Opposite(DesignSun(place["birth"]["Sun"]))
    [] b = "SouthNode" -> Opposite(place[c]["NorthNode"])
    [] OTHER -> place[c][b]

defGates == {Gate(LongitudeOf(c, b)) : c \in Moment, b \in Body}

definedChannels == LET gates == defGates IN {ch \in channels : ch[1] \subseteq gates}

\* Faulty variant: a center with an active gate is defined.
TouchedByGate(chs) == {c \in Center : centerGates[c] \cap defGates # {}}

\* channelTouchedCenter
Touched(chs) == UNION {ch[2] : ch \in chs}

\* Breadth-first search over the defined channels: the centers joined with the one
\* given, itself included.  Nine rounds reach all of them.
Spread(chs, seen) == seen \cup UNION {ch[2] : ch \in {d \in chs : d[2] \cap seen # {}}}
Thrice(chs, seen) == Spread(chs, Spread(chs, Spread(chs, seen)))
Reached(chs, center) == Thrice(chs, Thrice(chs, Thrice(chs, {center})))

isThroatConnectedToMotor(chs) ==
  "Throat" \in Touched(chs) /\ Reached(chs, "Throat") \cap motorCenters # {}

determineType(chs) ==
  LET sacral == "Sacral" \in Touched(chs) IN
  CASE Touched(chs) = {} -> "Reflector"
    [] sacral /\ isThroatConnectedToMotor(chs)     -> "Manifesting Generator"
    [] sacral /\ ~ isThroatConnectedToMotor(chs)   -> "Generator"
    [] ~ sacral /\ isThroatConnectedToMotor(chs)   -> "Manifestor"
    [] OTHER -> "Projector"

hasChannel(chs, a, b) == \E ch \in chs : ch[2] = {a, b}

determineAuthority(chs, type) ==
  LET centers == Touched(chs) IN
  IF type = "Reflector" THEN "Lunar"
  ELSE IF "SolarPlexus" \in centers THEN "Emotional"
  ELSE IF "Sacral" \in centers THEN "Sacral"
  ELSE IF "Spleen" \in centers THEN "Splenic"
  ELSE IF "Heart" \notin centers THEN "Mental"
  ELSE IF hasChannel(chs, "Heart", "G") /\ ~ hasChannel(chs, "Heart", "Throat")
       THEN "Self-Projected"
  ELSE "Ego"

\* The number of connected parts.
determineDefinition(chs) == Cardinality({Reached(chs, c) : c \in Touched(chs)})

Profile == <<Line(LongitudeOf("birth", "Sun")), Line(LongitudeOf("design", "Sun"))>>

\* buildIncarnationCross
Cross == <<Gate(LongitudeOf("birth", "Sun")), Gate(LongitudeOf("birth", "Earth")),
           Gate(LongitudeOf("design", "Sun")), Gate(LongitudeOf("design", "Earth"))>>

quarterMap ==
  [Initiation |-> {13, 49, 30, 55, 37, 63, 22, 36, 25, 17, 21, 51, 42, 3, 27, 24},
   Civilization |-> {2, 23, 8, 20, 16, 35, 45, 12, 15, 52, 39, 53, 62, 56, 31, 33},
   Duality |-> {7, 4, 29, 59, 40, 64, 47, 6, 46, 18, 48, 57, 32, 50},
   Mutation |-> {28, 44, 1, 43, 14, 34, 9, 5, 26, 11, 10, 58, 38, 54, 61, 60, 41, 19}]

quarterForGate(g) ==
  IF \E q \in DOMAIN quarterMap : g \in quarterMap[q]
  THEN CHOOSE q \in DOMAIN quarterMap : g \in quarterMap[q]
  ELSE "Initiation"

leftRight(n) == IF n <= 3 THEN "Left" ELSE "Right"

Variables ==
  [digestion |-> leftRight(Color(LongitudeOf("birth", "Sun"))),
   environment |-> leftRight(Color(LongitudeOf("design", "Sun"))),
   awareness |-> leftRight(Tone(LongitudeOf("birth", "Sun"))),
   perspective |-> leftRight(Tone(LongitudeOf("design", "Sun")))]

----------------------------------------------------------------------------
Drawn == place # <<>>

HumanDesignInit == place = <<>> /\ moved = FALSE

\* GetHumanDesign
ComputeBodygraph ==
  /\ ~ Drawn
  /\ place' \in BirthSky
  /\ UNCHANGED moved

\* Another birth: one body elsewhere.
MoveBody(c, b, lon) ==
  /\ Drawn /\ ~ moved
  /\ moved' = TRUE
  /\ place' = [place EXCEPT ![c][b] = lon]

HumanDesignNext ==
  \/ ComputeBodygraph
  \/ \E c \in Moment, b \in hdBodies, lon \in WheelPlace : MoveBody(c, b, lon)

HumanDesignSpec == HumanDesignInit /\ [][HumanDesignNext]_humanDesignVars

----------------------------------------------------------------------------
(* Properties. *)

\* hd_centers.go: a center is defined when one of its gates is part of a defined
\* channel.  So the centers the channels name are the ones their gates are listed
\* under, every gate has one center and one place on the wheel, and no part of the
\* definition is a center alone: there are at most four.
CentersFollowGates ==
  LET chs == definedChannels
      gates == UNION {ch[1] : ch \in chs} IN
  Drawn =>
  /\ Touched(chs) = {c \in Center : centerGates[c] \cap gates # {}}
  /\ \A g \in defGates : Cardinality({c \in Center : g \in centerGates[c]}) = 1
  /\ 2 * determineDefinition(chs) <= Cardinality(Touched(chs))

\* The Throat is without a motor exactly when some set of centers holds it, no motor
\* and all that channels join to them; and the authorities the code's comments
\* reserve for a type are found with no other: "Ego if connected to Throat
\* (Manifestor)", "Mental (only for Projectors with no inner motor)".
TypeFitsAuthority ==
  LET chs == definedChannels
      type == determineType(chs)
      authority == determineAuthority(chs, type)
      cutOff == \E apart \in SUBSET (Center \ motorCenters) :
                  /\ "Throat" \in apart
                  /\ \A ch \in chs : ch[2] \cap apart = {} \/ ch[2] \subseteq apart
  IN Drawn =>
     /\ type \in {"Manifestor", "Manifesting Generator"} <=> ~ cutOff
     /\ authority = "Lunar" <=> chs = {}
     /\ authority = "Sacral" => type \in {"Generator", "Manifesting Generator"}
     /\ authority = "Ego" => type = "Manifestor"
     /\ authority = "Mental" => type = "Projector" /\ Touched(chs) \cap motorCenters = {}

\* An arc of 88 degrees is 93 lines and most of a line, so that the second line of a
\* profile is two or three lines after the first: twelve profiles of 36 exist.  The
\* Earth is in the same line of the gate half the wheel away, and is in another
\* quarter.
ProfileIsOfTwelve ==
  LET index(g) == CHOOSE i \in 1 .. 64 : gateSequence[i] = g IN
  Drawn =>
  /\ (Profile[2] - Profile[1] + 6) % 6 \in {2, 3}
  /\ \A c \in Moment : Line(LongitudeOf(c, "Earth")) = Line(LongitudeOf(c, "Sun"))
  /\ \A i \in {1, 3} :
       /\ (index(Cross[i]) + 32 - index(Cross[i + 1])) % 64 = 0
       /\ quarterForGate(Cross[i]) # quarterForGate(Cross[i + 1])
  /\ Variables.digestion = leftRight(Color(LongitudeOf("birth", "Earth")))
============================================================================
