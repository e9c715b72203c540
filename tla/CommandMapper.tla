--------------------------- MODULE CommandMapper ---------------------------
(***************************************************************************)
(* mapping/command_mapper.py: what a command of Home Assistant asks of the *)
(* hub, as attributes and their values; None when the command is not       *)
(* understood, which is logged and dropped.                                *)
(*                                                                         *)
(* A payload is tagged like those of StateMapper.  Texts that neither are  *)
(* a known word nor parse as a number or an object are words to no mapper. *)
(***************************************************************************)
EXTENDS StateMapper

IsWord(p, w) == p = Word(w)
IsNumber(p, low, high) == p[1] = "number" /\ p[2] \in low..high

Power(p) == [isOn |-> IsWord(p, "ON")]

\* The fields of a JSON command as Home Assistant makes them.
IsLightPayload(f) ==
    /\ DOMAIN f \subseteq DOMAIN LightAttribute
    /\ "state" \in DOMAIN f => f["state"] \in {"ON", "OFF"}
    /\ "brightness" \in DOMAIN f => f["brightness"] \in 1..100
    /\ "color_temp" \in DOMAIN f => f["color_temp"] \in 1..999
    /\ "h" \in DOMAIN f => f["h"] \in 0..360
    /\ "s" \in DOMAIN f => f["s"] \in 0..100
    /\ "h" \in DOMAIN f <=> "s" \in DOMAIN f

\* What the value of a field is to the hub.
LightField(k, v) ==
    CASE k = "state" -> v = "ON"
      [] k = "brightness" -> Clamp(v, 1, 100)
      [] k = "color_temp" -> Mired(v)
      [] k = "h" -> v
      [] k = "s" -> v * 10

\* The attributes a JSON command sets; a colour temperature of 0 is left out.
LightFields(f) ==
    LET fields == {k \in DOMAIN f \intersect DOMAIN LightAttribute :
                      k = "color_temp" => f[k] > 0}
        field(b) == CHOOSE k \in fields : LightAttribute[k] = b
    IN [b \in {LightAttribute[k] : k \in fields} |-> LightField(field(b), f[field(b)])]

LightCommand(p) ==
    CASE p \in {Word("ON"), Word("OFF")} -> Power(p)
      [] p[1] = "object" -> IF DOMAIN LightFields(p[2]) = {} THEN None ELSE LightFields(p[2])
      [] IsNumber(p, 1, 100) -> [lightLevel |-> p[2]]
      [] OTHER -> None

SwitchCommand(p) == IF p \in {Word("ON"), Word("OFF")} THEN Power(p) ELSE None

\* STOP is in the payloads of the entity, but the hub has nothing to stop with.
BlindCommand(p) ==
    CASE IsWord(p, "OPEN") -> [currentLevel |-> 0]
      [] IsWord(p, "CLOSE") -> [currentLevel |-> 100]
      [] IsNumber(p, 0, 100) -> [currentLevel |-> 100 - p[2]]
      [] OTHER -> None

PctToFanMode(n) ==
    IF n = 0 THEN "off" ELSE IF n <= 33 THEN "low" ELSE IF n <= 66 THEN "medium" ELSE "high"

AirPurifierCommand(p) ==
    CASE IsWord(p, "ON") -> [fanMode |-> "low"]
      [] IsWord(p, "OFF") -> [fanMode |-> "off"]
      [] IsWord(p, "auto") -> [fanMode |-> "auto"]
      [] IsNumber(p, 0, 100) -> [fanMode |-> PctToFanMode(p[2])]
      [] OTHER -> None

SpeakerCommand(p) ==
    CASE p \in {Word("ON"), Word("OFF")} -> Power(p)
      [] IsWord(p, "NEXT") -> [playback |-> "playbackNext"]
      [] IsWord(p, "PREVIOUS") -> [playback |-> "playbackPrevious"]
      [] IsNumber(p, 0, 100) -> [volume |-> p[2]]
      [] OTHER -> None

\* map_command(): all other types are read-only.
MapCommand(type, p) ==
    CASE type = "light" -> LightCommand(p)
      [] type \in {"outlet", "switch"} -> SwitchCommand(p)
      [] type \in {"blind", "blinds"} -> BlindCommand(p)
      [] type = "airPurifier" -> AirPurifierCommand(p)
      [] type = "speaker" -> SpeakerCommand(p)
      [] OTHER -> None
=============================================================================
