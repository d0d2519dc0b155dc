----------------------------- MODULE MCAwsStart -----------------------------
(* Two cooks that look alike in the telemetry, one of them with a probe     *)
(* target; two acknowledgement polls; two Stop presses at a time.           *)
EXTENDS AwsStart
=============================================================================
