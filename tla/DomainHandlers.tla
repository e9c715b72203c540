--------------------------- MODULE DomainHandlers ---------------------------
(***************************************************************************)
(* mapping/domains and device_mapper.py: the entities of a unit, given the *)
(* attributes the hub lists of it.  A handler makes some entities always,  *)
(* some for an attribute that is not null, and a battery entity.  Of an    *)
(* entity only the suffix of its unique id is modelled, not the texts Home *)
(* Assistant shows it with.                                                *)
(***************************************************************************)
EXTENDS StateMapper

Nothing == [a \in {} |-> Main]

Light == [always |-> {Main}, present |-> Nothing, battery |-> FALSE]

ElectricalSensor ==
    [always |-> {}, battery |-> FALSE,
     present |-> [currentActivePower |-> "power", currentVoltage |-> "voltage",
                  currentAmps |-> "current", totalEnergyConsumed |-> "energy"]]

Outlet == [ElectricalSensor EXCEPT !.always = {Main}]

BinarySensor == [always |-> {Main}, present |-> Nothing, battery |-> TRUE]

LightSensor == [always |-> {"illuminance"}, present |-> Nothing, battery |-> TRUE]

EnvironmentSensor ==
    [always |-> {}, battery |-> TRUE,
     present |-> [currentTemperature |-> "temperature", currentRH |-> "humidity",
                  currentPM25 |-> "pm25", vocIndex |-> "voc"]]

LightController == [always |-> {Main}, present |-> Nothing, battery |-> TRUE]

Button == [always |-> {Main}, present |-> Nothing, battery |-> TRUE]

Blind == [always |-> {Main}, present |-> Nothing, battery |-> TRUE]

AirPurifier ==
    [always |-> {Main}, battery |-> FALSE,
     present |-> [fanSensorPM25 |-> "pm25", filterLifetime |-> "filter"]]

Speaker ==
    [always |-> {"reachable", "playback", "volume", "next", "previous", "power"},
     present |-> Nothing, battery |-> FALSE]

Gateway ==
    [always |-> {"reachable"}, battery |-> FALSE,
     present |-> [backendConnected |-> "backend_connected", otaStatus |-> "ota_status",
                  otaState |-> "ota_state", firmwareVersion |-> "firmware_version",
                  homestate |-> "home_state", timezone |-> "timezone",
                  nextSunRise |-> "next_sunrise", nextSunSet |-> "next_sunset",
                  coordinates |-> "location"]]

Switch == [always |-> {Main}, present |-> Nothing, battery |-> FALSE]

\* DEVICE_TYPE_REGISTRY
Registry ==
    [light |-> Light, outlet |-> Outlet, electricalSensor |-> ElectricalSensor,
     motionSensor |-> BinarySensor, waterSensor |-> BinarySensor,
     lightSensor |-> LightSensor, environmentSensor |-> EnvironmentSensor,
     lightController |-> LightController, button |-> Button,
     shortcutController |-> Button, blind |-> Blind, blinds |-> Blind,
     airPurifier |-> AirPurifier, speaker |-> Speaker, gateway |-> Gateway,
     switch |-> Switch]

\* get_state_topic(): entities of the domains event and button have no topic for a state.
HasStateTopic(type, suffix) ==
    /\ type \in {"lightController", "button", "shortcutController"} => suffix # Main
    /\ type = "speaker" => suffix \notin {"next", "previous"}

Given(attrs, a) == a \in DOMAIN attrs /\ attrs[a] # None

\* Mutant: both units of a pair get a battery entity.
HasBatteryBoth(type, u, attrs) ==
    Registry[type].battery /\ Given(attrs, "batteryPercentage")

\* The unit gets a battery entity: it reports a level and no other unit of the
\* device has the entity.
HasBattery(type, u, attrs) ==
    /\ Registry[type].battery /\ Given(attrs, "batteryPercentage")
    /\ type = "environmentSensor" => OwnsBattery(u)

\* make_battery_entity() raises for a level that is no percentage.
Raises(type, u, attrs) ==
    HasBattery(type, u, attrs) /\ attrs["batteryPercentage"] \notin 0..100

\* map_device(): no handler, or one that raises, leaves the unit with no entity.
MapDevice(type, u, attrs) ==
    LET handler == Registry[type]
        suffixes == handler.always
            \union {handler.present[a] : a \in {b \in DOMAIN handler.present : Given(attrs, b)}}
            \union (IF HasBattery(type, u, attrs) THEN {"battery"} ELSE {})
    IN IF type \notin DOMAIN Registry \/ Raises(type, u, attrs) THEN {}
       ELSE {<<u, s>> : s \in suffixes}
=============================================================================
