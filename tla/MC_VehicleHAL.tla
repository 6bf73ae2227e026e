----------------------------- MODULE MC_VehicleHAL -----------------------------
(* VehicleHAL on one vehicle that is created and removed while sessions set    *)
(* its properties.                                                             *)
EXTENDS VehicleHAL, TLC

CONSTANTS v1, s1, s2

\* Two spellings of a door, the two temperatures, and requests that must be
\* refused: a window past its end, a zone left out, a read-only property.
MC_RawRequests ==
  {<<"DOOR_STATE", "driver", <<"text", "open">>>>,
   <<"PASSENGER_TEMP", NoZone, <<"int", 25>>>>,
   <<"WINDOW_POSITION", "driver", <<"int", 101>>>>}

================================================================================
