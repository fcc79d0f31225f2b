---------------------------- MODULE MCInputRouter ----------------------------
(* A keyboard profile with the shapes of the built-in ones: Command and a key
   is Control and that key, or another key without modifiers, which is also
   what a second key stands for; everything else passes unmapped. *)
EXTENDS InputRouter

Profile(k, m) ==
    CASE k = "c" /\ m = {"command"} -> [key |-> "c", mods |-> {"control"}]
      [] k = "left" /\ m = {"command"} -> [key |-> "home", mods |-> {}]
      [] OTHER -> [key |-> k, mods |-> m]

PointerProfile(m) ==
    IF "command" \in m THEN (m \ {"command"}) \union {"control"} ELSE m

NextWorkspace == [key |-> "c", mods |-> {"command"}]
=============================================================================
