--------------------------- MODULE Mapping_proofs ---------------------------
(***************************************************************************)
(* The mappers agree with each other, for every value: what a command asks *)
(* for is what the state that follows it shows, and the state mapper feeds *)
(* no entity that the handlers of the domains have not made.               *)
(***************************************************************************)
EXTENDS CommandMapper, DomainHandlers, TLAPS

-----------------------------------------------------------------------------
(***************************************************************************)
(* Colour temperature                                                      *)
(***************************************************************************)

\* Division with remainder.
LEMMA Division ==
    ASSUME NEW n \in Nat, NEW d \in Nat \ {0}
    PROVE /\ n \div d \in Nat /\ n % d \in 0..(d - 1)
          /\ n = d * (n \div d) + (n % d)
  OBVIOUS

\* round() is at most half a unit away.
LEMMA RoundIsNear ==
    ASSUME NEW n \in Nat, NEW d \in Nat \ {0}
    PROVE /\ Round(n, d) \in Nat
          /\ 2 * n - 2 * (d * Round(n, d)) \in (-d)..d
<1> DEFINE q == n \div d
           r == n % d
<1>1. q \in Nat /\ r \in 0..(d - 1) /\ n = d * q + r
  BY Division
<1>2. Round(n, d) \in {q, q + 1}
  BY DEF Round
<1>3. CASE Round(n, d) = q
  <2>1. 2 * r <= d
    BY <1>1, <1>3 DEF Round
  <2> QED BY <1>1, <1>3, <2>1
<1>4. CASE Round(n, d) = q + 1
  <2>1. 2 * r >= d
    BY <1>1, <1>4 DEF Round
  <2>2. d * (q + 1) = d * q + d
    BY <1>1
  <2>3. 2 * n - 2 * (d * (q + 1)) = 2 * r - 2 * d
    BY <1>1, <2>2
  <2> QED BY <1>1, <1>4, <2>1, <2>3
<1> QED BY <1>2, <1>3, <1>4

\* An integer that is less than half a unit away is what round() returns.
LEMMA RoundIsNearest ==
    ASSUME NEW n \in Nat, NEW d \in Nat \ {0}, NEW m \in Nat,
           2 * n - 2 * (d * m) < d, 2 * (d * m) - 2 * n < d
    PROVE Round(n, d) = m
<1> DEFINE k == Round(n, d)
<1>1. k \in Nat /\ 2 * n - 2 * (d * k) \in (-d)..d
  BY RoundIsNear
<1> HIDE DEF k
<1>2. ASSUME NEW i \in Nat, NEW j \in Nat, i > j PROVE d * i >= d * j + d
  <2>1. PICK e \in Nat : i = j + 1 + e
    <3>1. i - j - 1 \in Nat /\ i = j + 1 + (i - j - 1)
      BY <1>2
    <3> QED BY <3>1
  <2>2. d * i = d * j + d + d * e
    BY <2>1
  <2>3. d * e >= 0
    OBVIOUS
  <2> QED BY <2>2, <2>3
<1>3. d * k \in Nat /\ d * m \in Nat
  BY <1>1
<1>4. ~ k > m
  BY <1>1, <1>2, <1>3
<1>5. ~ m > k
  BY <1>1, <1>2, <1>3
<1> QED BY <1>1, <1>4, <1>5 DEF k

\* Mireds survive the way to the hub, which counts in kelvin, and back: the two
\* roundings undo each other for every colour temperature a light can have.
THEOREM MiredRoundTrip ==
    \A m \in 1..999 : Mired(m) \in Nat \ {0} /\ Mired(Mired(m)) = m
<1> SUFFICES ASSUME NEW m \in 1..999
             PROVE Mired(m) \in Nat \ {0} /\ Mired(Mired(m)) = m
  OBVIOUS
<1> DEFINE k == Round(1000000, m)
<1>1. k \in Nat /\ 2000000 - 2 * (m * k) \in (-m)..m
  BY RoundIsNear
<1> HIDE DEF k
<1>2. k > m
  <2>1. SUFFICES ASSUME k <= m PROVE FALSE
    BY <1>1
  <2>2. m * k <= m * m
    BY <1>1, <2>1
  <2>3. m * m <= 999 * 999
    OBVIOUS
  <2> QED BY <1>1, <2>2, <2>3
<1>3. k * m = m * k
  BY <1>1
<1>4. 2 * 1000000 - 2 * (k * m) < k /\ 2 * (k * m) - 2 * 1000000 < k
  BY <1>1, <1>2, <1>3
<1>5. Round(1000000, k) = m
  BY <1>1, <1>2, <1>4, RoundIsNearest
<1> QED BY <1>1, <1>2, <1>5 DEF k, Mired

-----------------------------------------------------------------------------
(***************************************************************************)
(* Commands and the states that follow them                                *)
(***************************************************************************)

\* A blind shows the position it was sent to, though both directions are counted
\* from the other end.
THEOREM BlindRoundTrip ==
    ASSUME NEW u, NEW n \in 0..100
    PROVE /\ BlindCommand(Number(n)) = [currentLevel |-> 100 - n]
          /\ BlindState(u, "currentLevel", 100 - n) = State(u, Main, Number(n))
<1>1. ~ IsWord(Number(n), "OPEN") /\ ~ IsWord(Number(n), "CLOSE")
  BY DEF IsWord, Word, Number
<1>2. IsNumber(Number(n), 0, 100) /\ Number(n)[2] = n
  BY DEF IsNumber, Number
<1>3. 100 - (100 - n) = n /\ 100 - n # None
  BY NoneAssumption
<1> QED BY <1>1, <1>2, <1>3 DEF BlindCommand, BlindState, Position

\* The middle of a band of speeds, which a fan that is set to a speed of the band
\* shows, is in the band itself; so to send it again changes nothing.
THEOREM FanRoundTrip ==
    ASSUME NEW u, NEW n \in 0..100
    PROVE \E m \in 0..100 :
             /\ AirPurifierState(u, "fanMode", PctToFanMode(n)) = State(u, Main, Number(m))
             /\ PctToFanMode(m) = PctToFanMode(n)
<1>1. /\ AirPurifierState(u, "fanMode", "off") = State(u, Main, Number(0))
      /\ AirPurifierState(u, "fanMode", "low") = State(u, Main, Number(25))
      /\ AirPurifierState(u, "fanMode", "medium") = State(u, Main, Number(50))
      /\ AirPurifierState(u, "fanMode", "high") = State(u, Main, Number(75))
  BY DEF AirPurifierState, FanMode
<1>2. /\ PctToFanMode(0) = "off" /\ PctToFanMode(25) = "low"
      /\ PctToFanMode(50) = "medium" /\ PctToFanMode(75) = "high"
  BY DEF PctToFanMode
<1>3. PctToFanMode(n) \in {"off", "low", "medium", "high"}
  BY DEF PctToFanMode
<1>4. 0 \in 0..100 /\ 25 \in 0..100 /\ 50 \in 0..100 /\ 75 \in 0..100
  OBVIOUS
<1> QED BY <1>1, <1>2, <1>3, <1>4

\* Each field sets the attribute it stands for, and nothing else is set.
LEMMA LightFieldsCorrect ==
    ASSUME NEW f, IsLightPayload(f)
    PROVE /\ DOMAIN LightFields(f) = {LightAttribute[k] : k \in DOMAIN f}
          /\ \A k \in DOMAIN f : LightFields(f)[LightAttribute[k]] = LightField(k, f[k])
<1> DEFINE fields == {k \in DOMAIN f \intersect DOMAIN LightAttribute :
                        k = "color_temp" => f[k] > 0}
<1>1. fields = DOMAIN f
  BY DEF IsLightPayload
<1>2. \A k, l \in fields : LightAttribute[k] = LightAttribute[l] => k = l
  BY DEF LightAttribute
<1> DEFINE field(b) == CHOOSE k \in fields : LightAttribute[k] = b
<1>3. \A k \in fields : field(LightAttribute[k]) = k
  BY <1>2
<1>4. LightFields(f) = [b \in {LightAttribute[k] : k \in fields} |-> LightField(field(b), f[field(b)])]
  BY DEF LightFields
<1> HIDE DEF fields, field
<1>5. \A k \in fields : LightFields(f)[LightAttribute[k]] = LightField(k, f[k])
  BY <1>3, <1>4
<1> QED BY <1>1, <1>4, <1>5

LEMMA LightAttributes ==
    /\ DOMAIN LightAttribute = {"state", "brightness", "color_temp", "h", "s"}
    /\ LightAttribute["state"] = "isOn" /\ LightAttribute["brightness"] = "lightLevel"
    /\ LightAttribute["color_temp"] = "colorTemperature"
    /\ LightAttribute["h"] = "colorHue" /\ LightAttribute["s"] = "colorSaturation"
BY DEF LightAttribute

\* What LightField does with each field.
LEMMA LightFieldValues ==
    ASSUME NEW v
    PROVE /\ LightField("state", v) = (v = "ON")
          /\ LightField("brightness", v) = Clamp(v, 1, 100)
          /\ LightField("color_temp", v) = Mired(v)
          /\ LightField("h", v) = v
          /\ LightField("s", v) = v * 10
BY DEF LightField

LEMMA LightValues ==
    ASSUME NEW attrs
    PROVE /\ LightValue("state", attrs) = (IF attrs["isOn"] = TRUE THEN "ON" ELSE "OFF")
          /\ LightValue("brightness", attrs) = attrs["lightLevel"]
          /\ LightValue("color_temp", attrs) = Mired(attrs["colorTemperature"])
          /\ LightValue("h", attrs) = attrs["colorHue"]
          /\ LightValue("s", attrs) = attrs["colorSaturation"] \div 10
BY DEF LightValue

\* A light that does what a JSON command asks for, whatever else is known of it,
\* is published with every field as the command had it.
THEOREM LightRoundTrip ==
    ASSUME NEW u, NEW f, IsLightPayload(f), NEW attrs, NEW a \in DOMAIN LightFields(f),
           \A b \in DOMAIN LightFields(f) : b \in DOMAIN attrs /\ attrs[b] = LightFields(f)[b]
    PROVE \E g : /\ LightState(u, a, attrs) = State(u, Main, Object(g))
                 /\ \A k \in DOMAIN f : k \in DOMAIN g /\ g[k] = f[k]
<1> DEFINE fields == {k \in DOMAIN LightAttribute : LightHas(k, attrs)}
           g == [k \in fields |-> LightValue(k, attrs)]
<1>1. \A k \in DOMAIN f : /\ LightAttribute[k] \in DOMAIN attrs
                           /\ attrs[LightAttribute[k]] = LightField(k, f[k])
  BY LightFieldsCorrect
<1>2. DOMAIN f \subseteq {"state", "brightness", "color_temp", "h", "s"}
  BY LightAttributes DEF IsLightPayload
<1>3. ASSUME "state" \in DOMAIN f PROVE LightHas("state", attrs) /\ LightValue("state", attrs) = f["state"]
  <2>1. "isOn" \in DOMAIN attrs /\ attrs["isOn"] = (f["state"] = "ON")
    BY <1>1, <1>3, LightFieldValues, LightAttributes
  <2>2. f["state"] \in {"ON", "OFF"}
    BY <1>3 DEF IsLightPayload
  <2> QED BY <2>1, <2>2, LightValues, LightAttributes DEF LightHas
<1>4. ASSUME "brightness" \in DOMAIN f
      PROVE LightHas("brightness", attrs) /\ LightValue("brightness", attrs) = f["brightness"]
  <2>1. "lightLevel" \in DOMAIN attrs /\ attrs["lightLevel"] = Clamp(f["brightness"], 1, 100)
    BY <1>1, <1>4, LightFieldValues, LightAttributes
  <2>2. f["brightness"] \in 1..100
    BY <1>4 DEF IsLightPayload
  <2>3. attrs["lightLevel"] = f["brightness"] /\ attrs["lightLevel"] # None
    BY <2>1, <2>2, NoneAssumption DEF Clamp
  <2> QED BY <2>1, <2>3, LightValues, LightAttributes DEF LightHas
<1>5. ASSUME "color_temp" \in DOMAIN f
      PROVE LightHas("color_temp", attrs) /\ LightValue("color_temp", attrs) = f["color_temp"]
  <2>1. /\ "colorTemperature" \in DOMAIN attrs
        /\ attrs["colorTemperature"] = Mired(f["color_temp"])
    BY <1>1, <1>5, LightFieldValues, LightAttributes
  <2>2. f["color_temp"] \in 1..999
    BY <1>5 DEF IsLightPayload
  <2>3. /\ attrs["colorTemperature"] \in Nat \ {0}
        /\ Mired(attrs["colorTemperature"]) = f["color_temp"]
    <3> DEFINE m == f["color_temp"]
    <3> HIDE DEF m
    <3>1. m \in 1..999 /\ attrs["colorTemperature"] = Mired(m)
      BY <2>1, <2>2 DEF m
    <3>2. Mired(m) \in Nat \ {0} /\ Mired(Mired(m)) = m
      BY <3>1, MiredRoundTrip, SMTT(30)
    <3> QED BY <3>1, <3>2 DEF m
  <2>4. attrs["colorTemperature"] # None /\ attrs["colorTemperature"] > 0
    BY <2>3, NoneAssumption
  <2> QED BY <2>1, <2>3, <2>4, LightValues, LightAttributes DEF LightHas
<1>6. ASSUME "h" \in DOMAIN f \/ "s" \in DOMAIN f
      PROVE LightHas("h", attrs) /\ LightHas("s", attrs) /\ LightValue("h", attrs) = f["h"]
            /\ LightValue("s", attrs) = f["s"]
  <2>1. f["h"] \in 0..360 /\ f["s"] \in 0..100
    BY <1>6 DEF IsLightPayload
  <2>2. /\ "colorHue" \in DOMAIN attrs /\ attrs["colorHue"] = f["h"]
        /\ "colorSaturation" \in DOMAIN attrs /\ attrs["colorSaturation"] = f["s"] * 10
    BY <1>1, <1>6, LightFieldValues, LightAttributes DEF IsLightPayload
  <2>3. /\ attrs["colorHue"] # None /\ attrs["colorSaturation"] # None
        /\ attrs["colorSaturation"] \div 10 = f["s"]
    BY <2>1, <2>2, NoneAssumption
  <2> QED BY <2>2, <2>3, LightValues, LightAttributes DEF LightHas
<1>7. \A k \in DOMAIN f : k \in fields /\ LightValue(k, attrs) = f[k]
  BY <1>2, <1>3, <1>4, <1>5, <1>6, LightAttributes
<1>8. DOMAIN f # {} /\ \E k \in DOMAIN LightAttribute : LightAttribute[k] = a
  <2>1. DOMAIN LightFields(f) = {LightAttribute[k] : k \in DOMAIN f}
    BY LightFieldsCorrect
  <2>2. PICK k \in DOMAIN f : a = LightAttribute[k]
    BY <2>1
  <2> QED BY <2>2 DEF IsLightPayload
<1>9. LightState(u, a, attrs) = State(u, Main, Object(g))
  <2>1. fields # {}
    BY <1>7, <1>8
  <2> QED BY <2>1, <1>8 DEF LightState
<1>10. \A k \in DOMAIN f : k \in DOMAIN g /\ g[k] = f[k]
  BY <1>7
<1> QED BY <1>9, <1>10

-----------------------------------------------------------------------------
(***************************************************************************)
(* Handlers and state mapper                                               *)
(***************************************************************************)

\* Entity s of the unit is one the handler of the type makes, given attribute a.
Made(type, a, s) ==
    \/ s \in Registry[type].always
    \/ a \in DOMAIN Registry[type].present /\ s = Registry[type].present[a]
    \/ Registry[type].battery /\ a = "batteryPercentage" /\ s = "battery"

\* A state is none, or is for such an entity.
Fits(type, u, a, state) ==
    state = None \/ \E s : state.entity = <<u, s>> /\ Made(type, a, s)

\* A state is for the entity that the helper that makes it is given.
LEMMA EntityOfState ==
    ASSUME NEW u, NEW v, NEW s
    PROVE /\ OnOff(u, s, v).entity = <<u, s>>
          /\ Whole(u, s, v) = None \/ Whole(u, s, v).entity = <<u, s>>
          /\ Decimal(u, s, v).entity = <<u, s>>
          /\ Text(u, s, v).entity = <<u, s>>
          /\ Press(u, v).entity = <<u, Main>>
          /\ Position(u, v) = None \/ Position(u, v).entity = <<u, Main>>
          /\ FanMode(u, v) = None \/ FanMode(u, v).entity = <<u, Main>>
          /\ MotorSpeed(u, v) = None \/ MotorSpeed(u, v).entity = <<u, Main>>
          /\ Location(u, v) = None \/ Location(u, v).entity = <<u, "location">>
BY DEF State, OnOff, Whole, Decimal, Text, Press, Position, FanMode, MotorSpeed, Location

\* The handler that the registry has for each type.
LEMMA HandlerOf ==
    /\ Registry["light"] = Light
    /\ Registry["outlet"] = Outlet
    /\ Registry["electricalSensor"] = ElectricalSensor
    /\ Registry["motionSensor"] = BinarySensor
    /\ Registry["waterSensor"] = BinarySensor
    /\ Registry["lightSensor"] = LightSensor
    /\ Registry["environmentSensor"] = EnvironmentSensor
    /\ Registry["lightController"] = LightController
    /\ Registry["button"] = Button
    /\ Registry["shortcutController"] = Button
    /\ Registry["blind"] = Blind
    /\ Registry["blinds"] = Blind
    /\ Registry["airPurifier"] = AirPurifier
    /\ Registry["speaker"] = Speaker
    /\ Registry["gateway"] = Gateway
    /\ Registry["switch"] = Switch
BY DEF Registry

LEMMA TypesKnown ==
    DOMAIN Registry = {"light", "outlet", "electricalSensor", "motionSensor",
        "waterSensor", "lightSensor", "environmentSensor", "lightController",
        "button", "shortcutController", "blind", "blinds",
        "airPurifier", "speaker", "gateway", "switch"}
BY DEF Registry

\* Per type: what the mapper publishes is what the handler has made.
LEMMA OutletFits ==
    ASSUME NEW u, NEW a, NEW v
    PROVE Fits("outlet", u, a, OutletState(u, a, v))
<1>1. /\ Made("outlet", "isOn", Main)
      /\ Made("outlet", "currentActivePower", "power")
      /\ Made("outlet", "currentVoltage", "voltage")
      /\ Made("outlet", "currentAmps", "current")
      /\ Made("outlet", "totalEnergyConsumed", "energy")
  BY HandlerOf DEF Made, Outlet, ElectricalSensor
<1>2. CASE a = "isOn"
  BY <1>1, <1>2, EntityOfState DEF Fits, OutletState
<1>3. CASE a = "currentActivePower"
  BY <1>1, <1>3, EntityOfState DEF Fits, OutletState
<1>4. CASE a = "currentVoltage"
  BY <1>1, <1>4, EntityOfState DEF Fits, OutletState
<1>5. CASE a = "currentAmps"
  BY <1>1, <1>5, EntityOfState DEF Fits, OutletState
<1>6. CASE a = "totalEnergyConsumed"
  BY <1>1, <1>6, EntityOfState DEF Fits, OutletState
<1>7. CASE a \notin {"isOn", "currentActivePower", "currentVoltage", "currentAmps", "totalEnergyConsumed"}
  BY <1>7 DEF Fits, OutletState
<1> QED BY <1>2, <1>3, <1>4, <1>5, <1>6, <1>7

LEMMA ElectricalSensorFits ==
    ASSUME NEW u, NEW a, NEW v
    PROVE Fits("electricalSensor", u, a, ElectricalSensorState(u, a, v))
<1>1. /\ Made("electricalSensor", "currentActivePower", "power")
      /\ Made("electricalSensor", "currentVoltage", "voltage")
      /\ Made("electricalSensor", "currentAmps", "current")
      /\ Made("electricalSensor", "totalEnergyConsumed", "energy")
  BY HandlerOf DEF Made, ElectricalSensor
<1>2. CASE a = "currentActivePower"
  BY <1>1, <1>2, EntityOfState DEF Fits, ElectricalSensorState, OutletState
<1>3. CASE a = "currentVoltage"
  BY <1>1, <1>3, EntityOfState DEF Fits, ElectricalSensorState, OutletState
<1>4. CASE a = "currentAmps"
  BY <1>1, <1>4, EntityOfState DEF Fits, ElectricalSensorState, OutletState
<1>5. CASE a = "totalEnergyConsumed"
  BY <1>1, <1>5, EntityOfState DEF Fits, ElectricalSensorState, OutletState
<1>6. CASE a \notin {"currentActivePower", "currentVoltage", "currentAmps", "totalEnergyConsumed"}
  BY <1>6 DEF Fits, ElectricalSensorState, OutletState
<1> QED BY <1>2, <1>3, <1>4, <1>5, <1>6

LEMMA MotionSensorFits ==
    ASSUME NEW u, NEW a, NEW v
    PROVE Fits("motionSensor", u, a, MotionSensorState(u, a, v))
<1>1. /\ Made("motionSensor", "isDetected", Main)
      /\ Made("motionSensor", "batteryPercentage", "battery")
  BY HandlerOf DEF Made, BinarySensor
<1>2. CASE a = "isDetected"
  BY <1>1, <1>2, EntityOfState DEF Fits, MotionSensorState
<1>3. CASE a = "batteryPercentage"
  BY <1>1, <1>3, EntityOfState DEF Fits, MotionSensorState
<1>4. CASE a \notin {"isDetected", "batteryPercentage"}
  BY <1>4 DEF Fits, MotionSensorState
<1> QED BY <1>2, <1>3, <1>4

LEMMA WaterSensorFits ==
    ASSUME NEW u, NEW a, NEW v
    PROVE Fits("waterSensor", u, a, WaterSensorState(u, a, v))
<1>1. /\ Made("waterSensor", "waterLeakDetected", Main)
      /\ Made("waterSensor", "batteryPercentage", "battery")
  BY HandlerOf DEF Made, BinarySensor
<1>2. CASE a = "waterLeakDetected"
  BY <1>1, <1>2, EntityOfState DEF Fits, WaterSensorState
<1>3. CASE a = "batteryPercentage"
  BY <1>1, <1>3, EntityOfState DEF Fits, WaterSensorState
<1>4. CASE a \notin {"waterLeakDetected", "batteryPercentage"}
  BY <1>4 DEF Fits, WaterSensorState
<1> QED BY <1>2, <1>3, <1>4

LEMMA LightSensorFits ==
    ASSUME NEW u, NEW a, NEW v
    PROVE Fits("lightSensor", u, a, LightSensorState(u, a, v))
<1>1. /\ Made("lightSensor", "illuminance", "illuminance")
  BY HandlerOf DEF Made, LightSensor
<1>2. CASE a = "illuminance"
  BY <1>1, <1>2, EntityOfState DEF Fits, LightSensorState
<1>3. CASE a \notin {"illuminance"}
  BY <1>3 DEF Fits, LightSensorState
<1> QED BY <1>2, <1>3

LEMMA ControllerFits ==
    ASSUME NEW u, NEW a, NEW v
    PROVE Fits("lightController", u, a, ControllerState(u, a, v))
<1>1. /\ Made("lightController", "isOn", Main)
      /\ Made("lightController", "batteryPercentage", "battery")
  BY HandlerOf DEF Made, LightController
<1>2. CASE a = "isOn"
  BY <1>1, <1>2, EntityOfState DEF Fits, ControllerState
<1>3. CASE a = "batteryPercentage"
  BY <1>1, <1>3, EntityOfState DEF Fits, ControllerState
<1>4. CASE a \notin {"isOn", "batteryPercentage"}
  BY <1>4 DEF Fits, ControllerState
<1> QED BY <1>2, <1>3, <1>4

LEMMA ButtonFits ==
    ASSUME NEW u, NEW a, NEW v, NEW type \in {"button", "shortcutController"}
    PROVE Fits(type, u, a, ButtonState(u, a, v))
<1>1. /\ Made(type, "isOn", Main)
      /\ Made(type, "batteryPercentage", "battery")
  BY HandlerOf DEF Made, Button
<1>2. CASE a = "isOn"
  BY <1>1, <1>2, EntityOfState DEF Fits, ButtonState, ControllerState
<1>3. CASE a = "batteryPercentage"
  BY <1>1, <1>3, EntityOfState DEF Fits, ButtonState, ControllerState
<1>4. CASE a \notin {"isOn", "batteryPercentage"}
  BY <1>4 DEF Fits, ButtonState, ControllerState
<1> QED BY <1>2, <1>3, <1>4

LEMMA BlindFits ==
    ASSUME NEW u, NEW a, NEW v, NEW type \in {"blind", "blinds"}
    PROVE Fits(type, u, a, BlindState(u, a, v))
<1>1. /\ Made(type, "currentLevel", Main)
      /\ Made(type, "blindsCurrentLevel", Main)
      /\ Made(type, "batteryPercentage", "battery")
  BY HandlerOf DEF Made, Blind
<1>2. CASE a = "currentLevel"
  BY <1>1, <1>2, EntityOfState DEF Fits, BlindState
<1>3. CASE a = "blindsCurrentLevel"
  BY <1>1, <1>3, EntityOfState DEF Fits, BlindState
<1>4. CASE a = "batteryPercentage"
  BY <1>1, <1>4, EntityOfState DEF Fits, BlindState
<1>5. CASE a \notin {"currentLevel", "blindsCurrentLevel", "batteryPercentage"}
  BY <1>5 DEF Fits, BlindState
<1> QED BY <1>2, <1>3, <1>4, <1>5

LEMMA AirPurifierFits ==
    ASSUME NEW u, NEW a, NEW v
    PROVE Fits("airPurifier", u, a, AirPurifierState(u, a, v))
<1>1. /\ Made("airPurifier", "fanMode", Main)
      /\ Made("airPurifier", "motorSpeed", Main)
      /\ Made("airPurifier", "fanSensorPM25", "pm25")
      /\ Made("airPurifier", "filterLifetime", "filter")
  BY HandlerOf DEF Made, AirPurifier
<1>2. CASE a = "fanMode"
  BY <1>1, <1>2, EntityOfState DEF Fits, AirPurifierState
<1>3. CASE a = "motorSpeed"
  BY <1>1, <1>3, EntityOfState DEF Fits, AirPurifierState
<1>4. CASE a = "fanSensorPM25"
  BY <1>1, <1>4, EntityOfState DEF Fits, AirPurifierState
<1>5. CASE a = "filterLifetime"
  BY <1>1, <1>5, EntityOfState DEF Fits, AirPurifierState
<1>6. CASE a \notin {"fanMode", "motorSpeed", "fanSensorPM25", "filterLifetime"}
  BY <1>6 DEF Fits, AirPurifierState
<1> QED BY <1>2, <1>3, <1>4, <1>5, <1>6

LEMMA SpeakerFits ==
    ASSUME NEW u, NEW a, NEW v
    PROVE Fits("speaker", u, a, SpeakerState(u, a, v))
<1>1. /\ Made("speaker", "playback", "playback")
      /\ Made("speaker", "volume", "volume")
      /\ Made("speaker", "isOn", "power")
      /\ Made("speaker", "isReachable", "reachable")
  BY HandlerOf DEF Made, Speaker
<1>2. CASE a = "playback"
  BY <1>1, <1>2, EntityOfState DEF Fits, SpeakerState
<1>3. CASE a = "volume"
  BY <1>1, <1>3, EntityOfState DEF Fits, SpeakerState
<1>4. CASE a = "isOn"
  BY <1>1, <1>4, EntityOfState DEF Fits, SpeakerState
<1>5. CASE a = "isReachable"
  BY <1>1, <1>5, EntityOfState DEF Fits, SpeakerState
<1>6. CASE a \notin {"playback", "volume", "isOn", "isReachable"}
  BY <1>6 DEF Fits, SpeakerState
<1> QED BY <1>2, <1>3, <1>4, <1>5, <1>6

LEMMA GatewayFits ==
    ASSUME NEW u, NEW a, NEW v
    PROVE Fits("gateway", u, a, GatewayState(u, a, v))
<1>1. /\ Made("gateway", "isReachable", "reachable")
      /\ Made("gateway", "backendConnected", "backend_connected")
      /\ Made("gateway", "otaStatus", "ota_status")
      /\ Made("gateway", "otaState", "ota_state")
      /\ Made("gateway", "firmwareVersion", "firmware_version")
      /\ Made("gateway", "homestate", "home_state")
      /\ Made("gateway", "timezone", "timezone")
      /\ Made("gateway", "nextSunRise", "next_sunrise")
      /\ Made("gateway", "nextSunSet", "next_sunset")
      /\ Made("gateway", "coordinates", "location")
  BY HandlerOf DEF Made, Gateway
<1>2. CASE a = "isReachable"
  BY <1>1, <1>2, EntityOfState DEF Fits, GatewayState
<1>3. CASE a = "backendConnected"
  BY <1>1, <1>3, EntityOfState DEF Fits, GatewayState
<1>4. CASE a = "otaStatus"
  BY <1>1, <1>4, EntityOfState DEF Fits, GatewayState
<1>5. CASE a = "otaState"
  BY <1>1, <1>5, EntityOfState DEF Fits, GatewayState
<1>6. CASE a = "firmwareVersion"
  BY <1>1, <1>6, EntityOfState DEF Fits, GatewayState
<1>7. CASE a = "homestate"
  BY <1>1, <1>7, EntityOfState DEF Fits, GatewayState
<1>8. CASE a = "timezone"
  BY <1>1, <1>8, EntityOfState DEF Fits, GatewayState
<1>9. CASE a = "nextSunRise"
  BY <1>1, <1>9, EntityOfState DEF Fits, GatewayState
<1>10. CASE a = "nextSunSet"
  BY <1>1, <1>10, EntityOfState DEF Fits, GatewayState
<1>11. CASE a = "coordinates"
  BY <1>1, <1>11, EntityOfState DEF Fits, GatewayState
<1>12. CASE a \notin {"isReachable", "backendConnected", "otaStatus", "otaState", "firmwareVersion", "homestate", "timezone", "nextSunRise", "nextSunSet", "coordinates"}
  BY <1>12 DEF Fits, GatewayState
<1> QED BY <1>2, <1>3, <1>4, <1>5, <1>6, <1>7, <1>8, <1>9, <1>10, <1>11, <1>12

LEMMA SwitchFits ==
    ASSUME NEW u, NEW a, NEW v
    PROVE Fits("switch", u, a, SwitchState(u, a, v))
<1>1. /\ Made("switch", "isOn", Main)
  BY HandlerOf DEF Made, Switch
<1>2. CASE a = "isOn"
  BY <1>1, <1>2, EntityOfState DEF Fits, SwitchState
<1>3. CASE a \notin {"isOn"}
  BY <1>3 DEF Fits, SwitchState
<1> QED BY <1>2, <1>3

\* The battery of the second unit of a pair is published for the first.
LEMMA EnvironmentSensorFits ==
    ASSUME NEW u, NEW a, NEW v
    PROVE LET state == EnvironmentSensorState(u, a, v)
          IN \/ state = None
             \/ \E s : state.entity = <<u, s>> /\ Made("environmentSensor", a, s)
                  /\ (s = "battery" => OwnsBattery(u))
             \/ /\ a = "batteryPercentage" /\ ~ OwnsBattery(u)
                /\ state.entity = <<<<u[1], 1>>, "battery">>
<1> DEFINE state == EnvironmentSensorState(u, a, v)
<1>1. /\ Made("environmentSensor", "currentTemperature", "temperature")
      /\ Made("environmentSensor", "currentRH", "humidity")
      /\ Made("environmentSensor", "currentPM25", "pm25")
      /\ Made("environmentSensor", "vocIndex", "voc")
      /\ Made("environmentSensor", "batteryPercentage", "battery")
  BY HandlerOf DEF Made, EnvironmentSensor
<1>2. CASE a = "currentTemperature"
  BY <1>1, <1>2, EntityOfState DEF EnvironmentSensorState
<1>3. CASE a = "currentRH"
  BY <1>1, <1>3, EntityOfState DEF EnvironmentSensorState
<1>4. CASE a = "currentPM25"
  BY <1>1, <1>4, EntityOfState DEF EnvironmentSensorState
<1>5. CASE a = "vocIndex"
  BY <1>1, <1>5, EntityOfState DEF EnvironmentSensorState
<1>6. CASE a = "batteryPercentage"
  <2>1. state = Whole(BatteryOwner(u), "battery", v)
    BY <1>6 DEF EnvironmentSensorState
  <2>2. state = None \/ state.entity = <<BatteryOwner(u), "battery">>
    BY <2>1, EntityOfState
  <2>3. BatteryOwner(u) = IF OwnsBattery(u) THEN u ELSE <<u[1], 1>>
    BY DEF BatteryOwner, OwnsBattery
  <2> QED BY <1>1, <1>6, <2>2, <2>3
<1>7. CASE a \notin {"currentTemperature", "currentRH", "currentPM25", "vocIndex",
                     "batteryPercentage"}
  BY <1>7 DEF EnvironmentSensorState
<1> QED BY <1>2, <1>3, <1>4, <1>5, <1>6, <1>7

LEMMA LightFits ==
    ASSUME NEW u, NEW a, NEW attrs
    PROVE Fits("light", u, a, LightState(u, a, attrs))
<1>1. Made("light", a, Main)
  BY HandlerOf DEF Made, Light
<1>2. LightState(u, a, attrs) = None \/ LightState(u, a, attrs).entity = <<u, Main>>
  BY DEF LightState, State
<1> QED BY <1>1, <1>2 DEF Fits

\* The mapper as a whole, for the types whose battery stays with the unit.
LEMMA MapperFits ==
    ASSUME NEW type \in DOMAIN Registry \ {"environmentSensor"},
           NEW u, NEW a, NEW v, NEW attrs
    PROVE Fits(type, u, a, MapState(type, u, a, v, attrs))
<1>1. CASE type = "light"
  BY <1>1, LightFits DEF MapState
<1>2. CASE type = "outlet"
  BY <1>2, OutletFits DEF MapState
<1>3. CASE type = "electricalSensor"
  BY <1>3, ElectricalSensorFits DEF MapState
<1>4. CASE type = "motionSensor"
  BY <1>4, MotionSensorFits DEF MapState
<1>5. CASE type = "waterSensor"
  BY <1>5, WaterSensorFits DEF MapState
<1>6. CASE type = "lightSensor"
  BY <1>6, LightSensorFits DEF MapState
<1>7. CASE type = "lightController"
  BY <1>7, ControllerFits DEF MapState
<1>8. CASE type \in {"button", "shortcutController"}
  BY <1>8, ButtonFits DEF MapState
<1>9. CASE type \in {"blind", "blinds"}
  BY <1>9, BlindFits DEF MapState
<1>10. CASE type = "airPurifier"
  BY <1>10, AirPurifierFits DEF MapState
<1>11. CASE type = "speaker"
  BY <1>11, SpeakerFits DEF MapState
<1>12. CASE type = "gateway"
  BY <1>12, GatewayFits DEF MapState
<1>13. CASE type = "switch"
  BY <1>13, SwitchFits DEF MapState
<1> QED BY <1>1, <1>2, <1>3, <1>4, <1>5, <1>6, <1>7, <1>8, <1>9, <1>10, <1>11, <1>12,
           <1>13, TypesKnown

\* What the handler makes for an attribute that the unit has is an entity of the unit.
LEMMA MadeIsMapped ==
    ASSUME NEW type \in DOMAIN Registry, NEW u, NEW attrs, NEW a, NEW s,
           Given(attrs, a), ~ Raises(type, u, attrs), Made(type, a, s),
           type = "environmentSensor" /\ s = "battery" => OwnsBattery(u)
    PROVE <<u, s>> \in MapDevice(type, u, attrs)
<1> DEFINE handler == Registry[type]
           present == {handler.present[b] : b \in {c \in DOMAIN handler.present : Given(attrs, c)}}
           battery == IF HasBattery(type, u, attrs) THEN {"battery"} ELSE {}
           suffixes == handler.always \union present \union battery
<1>1. s \in handler.always => s \in suffixes
  OBVIOUS
<1>2. a \in DOMAIN handler.present /\ s = handler.present[a] => s \in present
  OBVIOUS
<1>3. handler.battery /\ a = "batteryPercentage" /\ s = "battery" => s \in battery
  BY DEF HasBattery
<1>4. s \in suffixes
  BY <1>1, <1>2, <1>3 DEF Made
<1>5. MapDevice(type, u, attrs) = {<<u, t>> : t \in suffixes}
  BY DEF MapDevice
<1> QED BY <1>4, <1>5

\* The state mapper and the handlers are written apart, type by type, with the
\* suffixes of the unique ids spelt in both.  They agree: unless the handlers have
\* refused the unit for its battery level, whatever the mapper publishes for an
\* attribute that is not null goes to an entity that they made of the unit, or to
\* the battery of the first unit when the device is a pair.
THEOREM HandlersCoverMapper ==
    ASSUME NEW type \in DOMAIN Registry, NEW u, NEW attrs, NEW a,
           Given(attrs, a), ~ Raises(type, u, attrs),
           MapState(type, u, a, attrs[a], attrs) # None
    PROVE LET entity == MapState(type, u, a, attrs[a], attrs).entity
          IN \/ entity \in MapDevice(type, u, attrs)
             \/ /\ type = "environmentSensor" /\ a = "batteryPercentage"
                /\ ~ OwnsBattery(u) /\ entity = <<<<u[1], 1>>, "battery">>
<1> DEFINE state == MapState(type, u, a, attrs[a], attrs)
<1>1. CASE type # "environmentSensor"
  <2>1. PICK s : state.entity = <<u, s>> /\ Made(type, a, s)
    BY <1>1, MapperFits DEF Fits
  <2> QED BY <1>1, <2>1, MadeIsMapped
<1>2. CASE type = "environmentSensor"
  <2>1. state = EnvironmentSensorState(u, a, attrs[a])
    BY <1>2 DEF MapState
  <2>2. CASE \E s : /\ state.entity = <<u, s>> /\ Made("environmentSensor", a, s)
                    /\ s = "battery" => OwnsBattery(u)
    <3>1. PICK s : /\ state.entity = <<u, s>> /\ Made("environmentSensor", a, s)
                   /\ s = "battery" => OwnsBattery(u)
      BY <2>2
    <3> QED BY <1>2, <3>1, MadeIsMapped
  <2>3. CASE /\ a = "batteryPercentage" /\ ~ OwnsBattery(u)
             /\ state.entity = <<<<u[1], 1>>, "battery">>
    BY <1>2, <2>3
  <2> QED BY <2>1, <2>2, <2>3, EnvironmentSensorFits
<1> QED BY <1>1, <1>2

=============================================================================
