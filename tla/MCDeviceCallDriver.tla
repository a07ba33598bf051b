------------------------ MODULE MCDeviceCallDriver --------------------------
(* Instances of DeviceCallDriver for TLC.                                  *)
EXTENDS DeviceCallDriver, TLC

CONSTANTS d0, d1, t1, t2

Channels(a, b) == d0 :> a @@ d1 :> b
Service == [enabled |-> TRUE, chan |-> Channels("builtin", "builtin"), scoped |-> {}]
Off == [Service EXCEPT !.enabled = FALSE]
External == [enabled |-> TRUE, chan |-> Channels("external", "external"), scoped |-> {}]
Endpoints == [External EXCEPT !.scoped = {d1}]
Mixed == [enabled |-> TRUE, chan |-> Channels("builtin", "external"), scoped |-> {}]

AllConfigs == {Service, Off, External, Endpoints, Mixed}
ServiceOnly == {Service}
WithExternal == {Service, Endpoints}
WithOverride == {Service, Mixed}

=============================================================================
