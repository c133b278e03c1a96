--------------------------- MODULE MCSessionLink ----------------------------
(* One session with its heartbeat thread, one worker and its listener.      *)
EXTENDS SessionLink, TLC

CONSTANTS beat, worker, inbound

MCSenders == {beat, worker}
=============================================================================
