------------------------- MODULE DisconnectHistory -------------------------
(***************************************************************************)
(* ConnManager with a history variable: the user asked for a disconnect    *)
(* and has not asked for a connection since.                               *)
(***************************************************************************)
EXTENDS ConnManager

VARIABLE down

hvars == <<vars, down>>

HInit == Init /\ down = FALSE

HNext ==
    /\ Next
    /\ down' = CASE \E t \in Calls : Disconnect(t) -> TRUE
                 [] \E t \in Calls : Connect(t) -> FALSE
                 [] OTHER -> down

HSpec == HInit /\ [][HNext]_hvars

\* Said by the comments in reconnect and refreshTunnelKicked: a manual
\* disconnect wins, so nothing goes back to connected without a later Connect.
DisconnectWins == down => state # "connected"
=============================================================================
