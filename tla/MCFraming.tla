----------------------------- MODULE MCFraming ------------------------------
(* An input and a ping of the server of one record each, a clipboard text  *)
(* of three, and pongs.                                                    *)
EXTENDS Framing

CONSTANTS key, ping, text

MCMsg   == {key, ping, text}
MCAsks  == {ping}
MCParts == [m \in MCMsg \cup {Pong} |-> IF m = text THEN 3 ELSE 1]
=============================================================================
