------------------------------ MODULE MCKCPNet ------------------------------
(* Client, server and timer of KCPNet on small instances.  Client and      *)
(* server share no memory, and each is run against everything the other    *)
(* could send; the timer is the KCP clock that both nudge threads drive.   *)
(* A behaviour is one of the three.                                        *)
EXTENDS KCPNetClient, KCPNetServer, IkcpTimer

VARIABLE side

\* Two samples: a quick one, and a slow one far from it.
TwoSamples == {<<1, 7>>, <<30, 9>>}

\* The clock is set back by less, and forward by more than MaxSlap.
SomeSteps == {-4, 7}

FarApart == {-3, 0, 2}

Init ==
    /\ side \in {"client", "server", "timer"}
    /\ ClientInit
    /\ ServerInit
    /\ TimerInit
    /\ side # "timer" => kcp.nodelay = 0
    /\ side # "client" => nudger.callback
    /\ side # "server" => nudge.callback

Next ==
    /\ UNCHANGED side
    /\ \/ side = "client" /\ ClientNext /\ UNCHANGED <<serverVars, timerVars>>
       \/ side = "server" /\ ServerNext /\ UNCHANGED <<clientVars, timerVars>>
       \/ side = "timer" /\ TimerNext /\ UNCHANGED <<clientVars, serverVars>>

Spec == Init /\ [][Next]_<<side, clientVars, serverVars, timerVars>> /\ (side = "server" => ServerFairness)
=============================================================================
