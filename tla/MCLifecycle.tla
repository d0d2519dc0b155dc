----------------------------- MODULE MCLifecycle ------------------------------
(* States that differ only in what no step reads any more are one to TLC.   *)
EXTENDS Lifecycle

\* Over a cloud the probe counts only while a cook is active, and the grill sets it anew
\* with the next cook.
Counts(r) == IF local \/ Active(r) THEN r ELSE [r EXCEPT !.temp = 0]

\* Unless an active cook was shown last, the next reading resets the flags or sets them anew;
\* the prompt is set by the first reading after a gap.
Distinct ==
    <<Counts(grill), unanswered, local, [i \in 1..Len(polls) |-> Counts(polls[i])], behind,
      beacon, merged, prev, newCook, IF prev \in ACTIVE_STATES THEN flags ELSE Reset,
      prevPrompt /\ (local \/ prev # None), fired>>
=============================================================================
