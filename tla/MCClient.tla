-------------------------------- MODULE MCClient --------------------------------
(* A small instance of Client for TLC. *)
EXTENDS Client

Playing == {"frame", "command", "change"}
Losing == {"command", "change", "timeout"}
Saving == {"frame", "change", "trigger", "timeout"}
Driving == {"frame", "driver", "timeout"}

MCEngagements == {Playing, Losing, Saving, Driving}
MCMaxTimeouts == [k \in MCEngagements |-> IF k = Losing THEN 2 ELSE 1]

=============================================================================
