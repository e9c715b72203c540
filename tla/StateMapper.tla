---------------------------- MODULE StateMapper ----------------------------
(***************************************************************************)
(* mapping/state_mapper.py: what an attribute of a device becomes in Home  *)
(* Assistant: the entity it is published for, and the payload.             *)
(*                                                                         *)
(* A logical id is a pair <<name, n>>: the hub numbers the units of a      *)
(* device _1, _2 and so on, 0 stands for an id without a number.  A unique *)
(* id is a pair <<logical id, suffix>>.  A payload is tagged with what it  *)
(* is: a word, a number or a JSON object.  Numbers keep the precision that *)
(* _format_float() prints, so that it loses nothing; a saturation of the   *)
(* hub, 0.0 to 1.0, is counted in thousandths, and is a whole percentage.  *)
(***************************************************************************)
EXTENDS Integers

CONSTANT None           \* no value: null in JSON, None in Python

ASSUME NoneAssumption == None \notin Int

Word(w) == <<"word", w>>
Number(n) == <<"number", n>>
Object(f) == <<"object", f>>

\* The entity that stands for the unit itself has no suffix.
Main == ""

State(u, suffix, payload) == [entity |-> <<u, suffix>>, payload |-> payload]

\* Python's round(n / d): to the nearest integer, a half to the even one.
Round(n, d) ==
    LET q == n \div d
        r == n % d
    IN IF 2 * r > d \/ (2 * r = d /\ q % 2 = 1) THEN q + 1 ELSE q

\* Mireds of kelvin, or kelvin of mireds.
Mired(n) == Round(1000000, n)

Clamp(n, low, high) == IF n < low THEN low ELSE IF n > high THEN high ELSE n

-----------------------------------------------------------------------------
\* The second unit of a pair has no battery entity of its own.
OwnsBattery(u) == u[2] # 2

\* Mutant: a battery level is published for the unit that reports it.
BatteryOwnerSelf(u) == u

\* It feeds that of the first.
BatteryOwner(u) == IF u[2] = 2 THEN <<u[1], 1>> ELSE u

\* _bool_to_onoff(): null is false.
OnOff(u, suffix, v) == State(u, suffix, Word(IF v = TRUE THEN "ON" ELSE "OFF"))

\* str(int(value)): null raises, which map_state() catches.
Whole(u, suffix, v) == IF v = None THEN None ELSE State(u, suffix, Number(v))

\* _format_float(): null is printed as it is.
Decimal(u, suffix, v) == State(u, suffix, IF v = None THEN Word("None") ELSE Number(v))

Text(u, suffix, v) == State(u, suffix, Word(IF v = None THEN "None" ELSE v))

\* isOn of a button is the last press.
Press(u, v) == State(u, Main, Word(IF v = TRUE THEN "shortRelease" ELSE "shortRelease_off"))

Position(u, v) == IF v = None THEN None ELSE State(u, Main, Number(100 - v))

\* The names of the fan modes that are speeds, and any other as it came.
FanMode(u, v) ==
    CASE v = "off" -> State(u, Main, Number(0))
      [] v = "low" -> State(u, Main, Number(25))
      [] v = "medium" -> State(u, Main, Number(50))
      [] v = "high" -> State(u, Main, Number(75))
      [] v = "customSpeed" -> None
      [] OTHER -> Text(u, Main, v)

MotorSpeed(u, v) == IF v = None THEN None ELSE State(u, Main, Number(Clamp(v, 1, 100)))

\* Coordinates are known by their accuracy; -1 means that it is not known.
Location(u, v) == IF v = None THEN None ELSE State(u, "location", Number(Clamp(v, 0, v)))

-----------------------------------------------------------------------------
\* The fields of a light's payload, and the attribute of the hub each is made of.
LightAttribute == [state |-> "isOn", brightness |-> "lightLevel",
    color_temp |-> "colorTemperature", h |-> "colorHue", s |-> "colorSaturation"]

\* The other way round of LightField in CommandMapper.
LightValue(k, attrs) ==
    CASE k = "state" -> (IF attrs["isOn"] = TRUE THEN "ON" ELSE "OFF")
      [] k = "brightness" -> attrs["lightLevel"]
      [] k = "color_temp" -> Mired(attrs["colorTemperature"])
      [] k = "h" -> attrs["colorHue"]
      [] k = "s" -> attrs["colorSaturation"] \div 10

\* Colour needs both hue and saturation.
LightHas(k, attrs) ==
    /\ LightAttribute[k] \in DOMAIN attrs
    /\ k # "state" => attrs[LightAttribute[k]] # None
    /\ k = "color_temp" => attrs["colorTemperature"] > 0
    /\ k \in {"h", "s"} =>
          \A b \in {"colorHue", "colorSaturation"} : b \in DOMAIN attrs /\ attrs[b] # None

\* Any attribute of a light publishes all that the cache has of the light.
LightState(u, a, attrs) ==
    LET fields == {k \in DOMAIN LightAttribute : LightHas(k, attrs)}
    IN IF fields = {} \/ ~ \E k \in DOMAIN LightAttribute : LightAttribute[k] = a THEN None
       ELSE State(u, Main, Object([k \in fields |-> LightValue(k, attrs)]))

OutletState(u, a, v) ==
    CASE a = "isOn" -> OnOff(u, Main, v)
      [] a = "currentActivePower" -> Decimal(u, "power", v)
      [] a = "currentVoltage" -> Decimal(u, "voltage", v)
      [] a = "currentAmps" -> Decimal(u, "current", v)
      [] a = "totalEnergyConsumed" -> Decimal(u, "energy", v)
      [] OTHER -> None

ElectricalSensorState(u, a, v) == IF a = "isOn" THEN None ELSE OutletState(u, a, v)

MotionSensorState(u, a, v) ==
    CASE a = "isDetected" -> OnOff(u, Main, v)
      [] a = "batteryPercentage" -> Whole(u, "battery", v)
      [] OTHER -> None

WaterSensorState(u, a, v) ==
    CASE a = "waterLeakDetected" -> OnOff(u, Main, v)
      [] a = "batteryPercentage" -> Whole(u, "battery", v)
      [] OTHER -> None

LightSensorState(u, a, v) ==
    IF a = "illuminance" THEN Whole(u, "illuminance", v) ELSE None

EnvironmentSensorState(u, a, v) ==
    CASE a = "currentTemperature" -> Decimal(u, "temperature", v)
      [] a = "currentRH" -> Decimal(u, "humidity", v)
      [] a = "currentPM25" -> Decimal(u, "pm25", v)
      [] a = "vocIndex" -> Whole(u, "voc", v)
      [] a = "batteryPercentage" -> Whole(BatteryOwner(u), "battery", v)
      [] OTHER -> None

ControllerState(u, a, v) ==
    CASE a = "isOn" -> Press(u, v)
      [] a = "batteryPercentage" -> Whole(u, "battery", v)
      [] OTHER -> None

ButtonState(u, a, v) == ControllerState(u, a, v)

\* Mutant: the position is forwarded as the hub counts it.
BlindStateUninverted(u, a, v) ==
    CASE a \in {"currentLevel", "blindsCurrentLevel"} -> Whole(u, Main, v)
      [] a = "batteryPercentage" -> Whole(u, "battery", v)
      [] OTHER -> None

\* The hub counts how far a blind is closed, Home Assistant how far it is open.
BlindState(u, a, v) ==
    CASE a \in {"currentLevel", "blindsCurrentLevel"} -> Position(u, v)
      [] a = "batteryPercentage" -> Whole(u, "battery", v)
      [] OTHER -> None

AirPurifierState(u, a, v) ==
    CASE a = "fanMode" -> FanMode(u, v)
      [] a = "motorSpeed" -> MotorSpeed(u, v)
      [] a = "fanSensorPM25" -> Decimal(u, "pm25", v)
      [] a = "filterLifetime" -> Whole(u, "filter", v)
      [] OTHER -> None

SpeakerState(u, a, v) ==
    CASE a = "playback" -> Text(u, "playback", v)
      [] a = "volume" -> Whole(u, "volume", v)
      [] a = "isOn" -> OnOff(u, "power", v)
      [] a = "isReachable" -> OnOff(u, "reachable", v)
      [] OTHER -> None

GatewayState(u, a, v) ==
    CASE a = "isReachable" -> OnOff(u, "reachable", v)
      [] a = "backendConnected" -> OnOff(u, "backend_connected", v)
      [] a = "otaStatus" -> Text(u, "ota_status", v)
      [] a = "otaState" -> Text(u, "ota_state", v)
      [] a = "firmwareVersion" -> Text(u, "firmware_version", v)
      [] a = "homestate" -> Text(u, "home_state", v)
      [] a = "timezone" -> Text(u, "timezone", v)
      [] a = "nextSunRise" -> Text(u, "next_sunrise", v)
      [] a = "nextSunSet" -> Text(u, "next_sunset", v)
      [] a = "coordinates" -> Location(u, v)
      [] OTHER -> None

SwitchState(u, a, v) == IF a = "isOn" THEN OnOff(u, Main, v) ELSE None

\* map_state(): the state that attribute a of unit u, now v, is published as, or
\* None; attrs is what the cache has of the unit.
MapState(type, u, a, v, attrs) ==
    CASE type = "light" -> LightState(u, a, attrs)
      [] type = "outlet" -> OutletState(u, a, v)
      [] type = "electricalSensor" -> ElectricalSensorState(u, a, v)
      [] type = "motionSensor" -> MotionSensorState(u, a, v)
      [] type = "waterSensor" -> WaterSensorState(u, a, v)
      [] type = "lightSensor" -> LightSensorState(u, a, v)
      [] type = "environmentSensor" -> EnvironmentSensorState(u, a, v)
      [] type = "lightController" -> ControllerState(u, a, v)
      [] type \in {"button", "shortcutController"} -> ButtonState(u, a, v)
      [] type \in {"blind", "blinds"} -> BlindState(u, a, v)
      [] type = "airPurifier" -> AirPurifierState(u, a, v)
      [] type = "speaker" -> SpeakerState(u, a, v)
      [] type = "gateway" -> GatewayState(u, a, v)
      [] type = "switch" -> SwitchState(u, a, v)
      [] OTHER -> None
=============================================================================
