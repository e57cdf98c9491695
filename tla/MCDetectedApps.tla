--------------------------- MODULE MCDetectedApps ---------------------------
(* DetectedApps for TLC: how the project starts and what happens to it.    *)
EXTENDS DetectedApps

Scene(events, kinds, open, hidden, taken) ==
    [events |-> events, kinds |-> kinds, open |-> open,
     hidden |-> hidden, taken |-> taken]

SomeScenes ==
    {Scene(3, {"apps"}, {}, TRUE, {2}),
     Scene(3, {"apps", "faults"}, {1}, FALSE, {2}),
     Scene(3, {"registry", "agent", "addresses", "switch"}, {1}, FALSE, {}),
     Scene(4, {"addresses", "visits"}, {1, 2}, FALSE, {2}),
     Scene(5, {"addresses"}, {1, 2}, FALSE, {}),
     Scene(3, {"registry", "restarts", "faults"}, {}, FALSE, {}),
     Scene(3, {"others", "restarts", "visits"}, {1}, FALSE, {}),
     Scene(3, {"project", "registry", "switch", "others"}, {1}, FALSE, {})}
=============================================================================
