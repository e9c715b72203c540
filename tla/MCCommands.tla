----------------------------- MODULE MCCommands -----------------------------
\* A few homes, each with one kind of device or two, and what Home Assistant
\* may ask of them.
EXTENDS Commands

AttributeOrder ==
    <<"isOn", "lightLevel", "colorTemperature", "colorHue", "colorSaturation",
      "currentActivePower", "currentVoltage", "currentAmps", "totalEnergyConsumed",
      "batteryPercentage", "currentLevel", "fanMode", "motorSpeed", "fanSensorPM25",
      "filterLifetime", "playback", "volume", "backendConnected", "otaStatus", "otaState",
      "firmwareVersion", "homestate", "timezone", "nextSunRise", "nextSunSet",
      "coordinates", "currentTemperature", "currentRH", "illuminance", "isDetected",
      "waterLeakDetected">>

Device(id, relation, type, attrs) ==
    [id |-> id, relation |-> relation, type |-> type, attrs |-> attrs,
     extra |-> SelectSeq(AttributeOrder, LAMBDA a : a \in DOMAIN attrs \ DOMAIN Typed)]

Single(name, type, attrs) == <<Device(<<name, 1>>, None, type, attrs)>>

Bulb == Single("bulb", "light", [isOn |-> FALSE, lightLevel |-> 10])
Lamp == Single("lamp", "light",
    [isOn |-> FALSE, lightLevel |-> 10, colorTemperature |-> 4000, colorHue |-> 0,
     colorSaturation |-> 0])
Plug == Single("plug", "outlet",
    [isOn |-> FALSE, currentActivePower |-> 0, currentVoltage |-> 230, currentAmps |-> 0,
     totalEnergyConsumed |-> None])
Shade == Single("shade", "blind", [currentLevel |-> 30, batteryPercentage |-> 80])
Purifier == Single("purifier", "airPurifier",
    [fanMode |-> "auto", fanSensorPM25 |-> 3, filterLifetime |-> 90])
Fan == Single("fan", "airPurifier", [fanMode |-> "off"])
\* A purifier that lists its motor speed too, which the same entity shows.
Fast == Single("fast", "airPurifier",
    [fanMode |-> "low", motorSpeed |-> 20, fanSensorPM25 |-> 3])
Sound == Single("sound", "speaker", [playback |-> "playbackIdle", volume |-> 20, isOn |-> TRUE])
Relay == Single("relay", "switch", [isOn |-> FALSE])
Hub == Single("hub", "gateway",
    [backendConnected |-> TRUE, otaStatus |-> "upToDate", otaState |-> "readyToCheck",
     firmwareVersion |-> "1.0", homestate |-> "home", timezone |-> "CET",
     nextSunRise |-> "6:00", nextSunSet |-> None, coordinates |-> -1])
\* A sensor of two units that share one battery, and one of which only the
\* second unit has a battery.
Climate ==
    <<Device(<<"climate", 1>>, <<"climate", 0>>, "environmentSensor",
             [currentTemperature |-> 20, batteryPercentage |-> 80]),
      Device(<<"climate", 2>>, <<"climate", 0>>, "environmentSensor",
             [currentRH |-> 40, batteryPercentage |-> 80])>>
Motion ==
    <<Device(<<"motion", 3>>, <<"motion", 0>>, "lightSensor",
             [illuminance |-> 5]),
      Device(<<"motion", 1>>, <<"motion", 0>>, "motionSensor",
             [isDetected |-> FALSE, batteryPercentage |-> 80])>>
Leak == Single("leak", "waterSensor", [waterLeakDetected |-> FALSE, batteryPercentage |-> 80])
Meter == Single("meter", "electricalSensor",
    [currentActivePower |-> 5, currentVoltage |-> None, totalEnergyConsumed |-> 7])
Remote == Single("remote", "lightController", [isOn |-> FALSE, batteryPercentage |-> 80])
Knob == <<Device(<<"knob", 1>>, None, "shortcutController",
                 [batteryPercentage |-> 80])>>
\* Nothing the bridge knows.
Stranger == Single("stranger", "dishwasher", [isOn |-> TRUE])

SmallHomes ==
    {Bulb, Lamp, Plug, Shade, Purifier, Fan, Fast, Sound, Relay, Hub, Climate \o Motion, Leak \o Meter,
     Remote \o Stranger, Knob}

SmallValues ==
    [isOn |-> {FALSE, TRUE}, lightLevel |-> {10}, totalEnergyConsumed |-> {1},
     currentLevel |-> {30}, batteryPercentage |-> {70, 80}, fanMode |-> {"high"}, motorSpeed |-> {0},
     isDetected |-> {TRUE}, currentRH |-> {50}, coordinates |-> {7}, nextSunSet |-> {"20:00"},
     illuminance |-> {9}, volume |-> {30}]

Onoff == {Word("ON"), Word("OFF")}
SmallVocabulary ==
    [u \in UNION {{h[i].id : i \in DOMAIN h} : h \in SmallHomes} |->
        CASE u[1] = "bulb" -> {Number(60), Object([state |-> "ON", brightness |-> 40])}
          [] u[1] = "lamp" ->
               {Word("ON"), Object([state |-> "ON", color_temp |-> 370, h |-> 120, s |-> 50])}
          [] u[1] \in {"plug", "relay"} -> Onoff
          [] u[1] = "shade" -> {Word("CLOSE"), Word("STOP"), Number(75)}
          [] u[1] = "purifier" -> {Number(0), Number(33), Number(67)}
          [] u[1] = "fast" -> {Number(67)}
          [] u[1] = "fan" -> {Word("auto"), Number(34)}
          [] u[1] = "sound" -> {Word("NEXT"), Number(50)}
          [] OTHER -> {}]

\* Fed, Accurate and Echo are proved of such homes.
ASSUME SmallAssumption == Equipped /\ Steady /\ Commandable
=============================================================================
