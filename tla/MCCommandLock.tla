--------------------------- MODULE MCCommandLock ----------------------------
(* Three calls, any of which may be a Start, a Stop or a Wake and may be    *)
(* made again after it returned: enough for one command in flight, one      *)
(* queued and a Stop behind both.                                           *)
EXTENDS CommandLock
=============================================================================
