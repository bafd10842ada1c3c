----------------------------- MODULE MCDrivers ------------------------------
(* Instances of Drivers: every driver with the calls it has, one of each     *)
(* kind; two callers where they share something.                            *)
EXTENDS Drivers

CONSTANTS c1, c2

MCSettings ==
  [avm70 |-> {1, 2}, appletv |-> {0}, kscp |-> {1, 2}, envy |-> {110, 239},
   udp203 |-> {0}, pj_talk |-> {0, 1}, za5000 |-> {0, 1}]

MCUsers == [d \in DOMAIN MCSettings |-> IF d = "appletv" THEN {c1, c2} ELSE {c1}]

Calls(ops, args) == [op : ops, arg : args]

MCRequests ==
  [avm70 |-> Calls({"turn_on", "turn_off", "check_is_on", "current_input", "get_volume",
                    "set_volume", "volume_up", "inputs"}, {0})
               \cup Calls({"change_input"}, {1}) \cup Calls({"set_cec"}, {1}),
   appletv |-> Calls({"turn_on", "turn_off", "check_is_on"}, {0}),
   kscp |-> Calls({"turn_on", "turn_off", "check_is_on", "key", "highlighted_section"}, {0})
              \cup Calls({"play_movie", "movie_details", "list_movies"}, {1}),
   envy |-> Calls({"turn_on", "turn_off", "check_is_on", "standby", "aspect_ratio",
                   "get_nearest_aspect_ratio", "custom_zoom"}, {0}),
   udp203 |-> Calls({"turn_on", "turn_off", "check_is_on", "key"}, {0}),
   pj_talk |-> Calls({"turn_on", "turn_off", "check_is_on", "key", "picture_position", "set"}, {0})
                 \cup Calls({"picture_position_set"}, {1}),
   za5000 |-> Calls({"turn_on", "turn_off", "check_is_on", "volume", "get_video_input",
                     "check_is_muted", "toggle_mute"}, {0})
                \cup Calls({"set_video_input"}, {0, 1})]
=============================================================================
