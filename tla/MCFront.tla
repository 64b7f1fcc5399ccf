--------------------------------- MODULE MCFront ---------------------------------
(***************************************************************************)
(* A small instance of Front for TLC.  A scene names the steps one         *)
(* behaviour is made of, and the dialogs it may open: every pair of        *)
(* concerns that share state meets in one of them.                         *)
(***************************************************************************)
EXTENDS Front

Coming    == {"enter", "leave", "timeout"}
Staying   == {"enter", "leave", "interval", "refresh"}
Trading   == {"trade", "buy", "sell", "hour"}
Mending   == {"trade", "repair", "resupply", "insurance"}
Wandering == {"trade", "panel", "buy", "repair"}
Waiting   == {"trade", "buy", "repair", "timeout"}
Closing   == {"trade", "buy", "leave"}
Departing == {"trade", "panel", "buy", "undock"}
Finishing == {"trade", "resupply", "leave"}

MCScenes == {Coming, Staying, Trading, Mending, Wandering, Waiting, Closing, Finishing, Departing}

MCMaxPresses == [s \in MCScenes |-> IF "enter" \in s THEN 3 ELSE 2]
MCMaxChanges == [s \in MCScenes |-> IF "leave" \in s THEN 1 ELSE IF "timeout" \in s THEN 2 ELSE 3]

=============================================================================
