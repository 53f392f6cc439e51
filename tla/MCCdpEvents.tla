---------------------------- MODULE MCCdpEvents -----------------------------
(* Two clients, one session: first something is enabled or attached, then  *)
(* used, while a third request of either client changes it.                *)
EXTENDS CdpEvents

CONSTANTS c1, c2, s1

Call(c, s, m) == [conn |-> c, sid |-> s, method |-> m]

MCCalls ==
    << {Call(c1, None, "Network.enable"), Call(c1, None, "Target.attachToTarget")},
       {Call(c1, None, "Page.navigate"), Call(c2, s1, "Network.enable"),
        Call(c2, None, "Runtime.enable")},
       {Call(c2, None, "Network.enable"), Call(c2, s1, "Page.navigate"),
        Call(c2, None, "Target.attachToTarget"), Call(c2, None, "Runtime.evaluate"),
        Call(c1, None, "Target.createTarget"), Call(c2, s1, "Target.detachFromTarget"),
        Call(c1, s1, "Network.getResponseBody"), Call(c1, s1, "Log.enable"),
        Call(c1, s1, "Fetch.enable"), Call(c1, None, "Unknown")} >>

=============================================================================
