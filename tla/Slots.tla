---------------------------------- MODULE Slots ----------------------------------
(* Variables that components without shared state take turns to use: which one is  *)
(* under way, and its state. A component of n variables uses the first n.          *)
EXTENDS Naturals

VARIABLES which, v1, v2, v3, v4, v5, v6, v7, v8, v9, v10, v11, v12, v13, v14
vars == <<which, v1, v2, v3, v4, v5, v6, v7, v8, v9, v10, v11, v12, v13, v14>>

Off == "off"
Unused(n) ==
  /\ (n <= 5 => v6 = Off) /\ (n <= 6 => v7 = Off) /\ (n <= 7 => v8 = Off)
  /\ (n <= 8 => v9 = Off) /\ (n <= 9 => v10 = Off) /\ (n <= 10 => v11 = Off)
  /\ (n <= 11 => v12 = Off) /\ (n <= 12 => v13 = Off) /\ (n <= 13 => v14 = Off)
StandStill(n) ==
  /\ (n <= 5 => UNCHANGED v6) /\ (n <= 6 => UNCHANGED v7) /\ (n <= 7 => UNCHANGED v8)
  /\ (n <= 8 => UNCHANGED v9) /\ (n <= 9 => UNCHANGED v10) /\ (n <= 10 => UNCHANGED v11)
  /\ (n <= 11 => UNCHANGED v12) /\ (n <= 12 => UNCHANGED v13) /\ (n <= 13 => UNCHANGED v14)
==================================================================================
