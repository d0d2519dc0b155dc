--------------------------- MODULE AwsStart_proof ----------------------------
(***************************************************************************)
(* TLAPS proofs about AwsStart, for every set of cooks and every bound on  *)
(* acknowledgement polls and waiting Stops: no refused or withdrawn start  *)
(* is left in the shadow, a Stop leaves none either, an acknowledgement is *)
(* worth something, a withdrawal does not outlive its call, and no step of *)
(* a start is repeated without end.                                        *)
(***************************************************************************)
EXTENDS AwsStart, TLAPS

\* One command at a time: a Stop is inside the lock only while no start is, and a start
\* that has not yet written anything has left nothing in the shadow.
LockInv ==
    /\ pc \in {"idle", "ack", "withdrawing"} => reply = "none"
    /\ pc \in {"find", "baseline"} => reply = "none" /\ ~ours
    /\ stopReply # "none" => pc = "idle"
    /\ stopped => pc = "idle"
    /\ WithdrawalKeepsLock

\* Whoever has written a stop over the shadow, and is yet to return, finds it there.
ShadowInv ==
    /\ fresh => desired # Nothing
    /\ pc \in {"undoError", "undoUnacked"} /\ reply = "applied" => ~ours
    /\ NoneLeftBehind
    /\ stopReply = "applied" => ~Queued
    /\ StopIsFinal

\* Where evidence comes from: no cook runs or shows beside the baseline without having
\* run since, and no new echo shows without the grill having taken the command.
EvidenceInv ==
    /\ pc # "idle" /\ grill.cook # Nothing => ran
    /\ pc \in {"baseline", "patch", "ack"} =>
          telemetry = before \/ telemetry.cook = Nothing \/ ran
    /\ pc \in {"patch", "ack"} /\ ~echoed /\ reported = cmd => took
    /\ AcknowledgedRan

IInv == TypeOK /\ LockInv /\ ShadowInv /\ EvidenceInv
-----------------------------------------------------------------------------
\* Lemma: where start_cook leaves off, its locals have their types again.
LEMMA EndsType ==
  ASSUME TypeOK, NEW o \in Outcomes, Ends(o)
  PROVE  /\ pc' \in Awaits /\ reply' \in Replies /\ outcome' \in Outcomes
         /\ cmd' \in Cooks \cup {Nothing} /\ before' \in Running \cup {Off}
         /\ polls' \in 0..MaxPolls
         /\ {echoed', ours', took', ran', stopped'} \subseteq BOOLEAN
  <1>1. {echoed', ours', took', ran', stopped'} \subseteq BOOLEAN
    BY DEF TypeOK, Ends
  <1>2. polls' \in 0..MaxPolls
    BY BoundAssumption DEF Ends
  <1>3. pc' \in Awaits /\ reply' \in Replies /\ outcome' \in Outcomes
    BY DEF Ends, Awaits, Replies
  <1>4. cmd' \in Cooks \cup {Nothing} /\ before' \in Running \cup {Off}
    BY DEF Ends
  <1> QED BY <1>1, <1>2, <1>3, <1>4

\* Lemma: the places and outcomes that the actions name.
LEMMA Names ==
  /\ {"find", "baseline", "patch", "ack", "undoError", "undoUnacked", "clear"} \subseteq Awaits
  /\ {"none", "going", "applied"} \subseteq Replies
  /\ {"none", "ok", "refused", "withdrawn", "undoFailed", "failed", "cancelled"}
      \subseteq Outcomes
  BY DEF Awaits, Replies, Outcomes

\* Lemma: every step keeps the types.
LEMMA TypeStep ==
  ASSUME IInv, Next
  PROVE  TypeOK'
  <1>0. TypeOK /\ (fresh => desired # Nothing)
    BY DEF IInv, ShadowInv
  <1>1. CASE GrillTakes
    <2>1. grill' \in Running \cup {Off}
      BY <1>0, <1>1 DEF TypeOK, GrillTakes, Running, Phases, Commands
    <2>2. reported' \in {Nothing} \cup Commands /\ {fresh', took', ran'} \subseteq BOOLEAN
      BY <1>0, <1>1 DEF TypeOK, GrillTakes
    <2>3. UNCHANGED <<desired, connected, telemetry, caller, stopping, ours, stopped>>
      BY <1>1 DEF GrillTakes
    <2> QED BY <1>0, <2>1, <2>2, <2>3 DEF TypeOK, caller, stopping
  <1>2. CASE GrillReports
    BY <1>0, <1>2, Names DEF GrillReports, TypeOK, Commands, caller, stopping, history
  <1>3. CASE GrillMoves
    BY <1>0, <1>3, Names DEF GrillMoves, Running, Phases, Off, TypeOK, Commands, caller,
       stopping
  <1>4. CASE Connectivity
    BY <1>0, <1>4, Names DEF Connectivity, TypeOK, Commands, caller, stopping, history
  <1>5. CASE FindDevice
    BY <1>0, <1>5, Names DEF FindDevice, TypeOK, Commands, cloud, stopping, history
  <1>6. CASE ReadShadow
    BY <1>0, <1>6, Names DEF ReadShadow, TypeOK, Commands, cloud, stopping, history
  <1>7. CASE Refuse
    BY <1>0, <1>7, Names, EndsType DEF Refuse, TypeOK, cloud, stopping
  <1>8. CASE ServerApplies
    BY <1>0, <1>8, Names DEF ServerApplies, Write, TypeOK, Commands, stopping
  <1>9. CASE Patched
    <2>1. polls' \in 0..MaxPolls
      BY <1>9, BoundAssumption DEF Patched
    <2>2. pc' \in Awaits /\ reply' \in Replies
      BY <1>9, Names DEF Patched
    <2>3. UNCHANGED <<cloud, cmd, before, echoed, withdrawal, outcome, stopping, history>>
      BY <1>9 DEF Patched
    <2> QED BY <1>0, <2>1, <2>2, <2>3 DEF TypeOK, cloud, stopping, history
  <1>10. CASE StartErrs
    BY <1>0, <1>10, Names DEF StartErrs, TypeOK, Commands, cloud, stopping, history
  <1>11. CASE Acknowledged
    BY <1>0, <1>11, Names DEF Acknowledged, EchoConfirms, TelemetryConfirms, Looks,
       TypeOK, Commands, cloud, stopping, history
  <1>12. CASE PollMisses
    <2>1. polls' \in 0..MaxPolls
      BY <1>0, <1>12, BoundAssumption DEF PollMisses, TypeOK
    <2>2. pc' \in Awaits /\ reply' \in Replies
      BY <1>0, <1>12, Names DEF PollMisses, TypeOK
    <2>3. UNCHANGED <<cloud, cmd, before, echoed, withdrawal, outcome, stopping, history>>
      BY <1>12 DEF PollMisses
    <2> QED BY <1>0, <2>1, <2>2, <2>3 DEF TypeOK, cloud, stopping, history
  <1>13. CASE Withdrawn
    BY <1>0, <1>13, Names, EndsType DEF Withdrawn, TypeOK, cloud, stopping
  <1>14. CASE Cleared
    BY <1>0, <1>14, Names, EndsType DEF Cleared, TypeOK, cloud, stopping
  <1>15. ASSUME NEW err \in {"transport", "auth"}, WithdrawFails(err) PROVE TypeOK'
    BY <1>0, <1>15, Names, EndsType DEF WithdrawFails, TypeOK, cloud, stopping
  <1>16. ASSUME NEW err \in {"transport", "auth"}, ClearFails(err) PROVE TypeOK'
    BY <1>0, <1>16, Names, EndsType DEF ClearFails, TypeOK, cloud, stopping
  <1>17. CASE CancelPlain
    BY <1>0, <1>17, Names, EndsType DEF CancelPlain, TypeOK, cloud
  <1>18. CASE CancelStart
    <2>1. /\ pc' \in Awaits /\ {reply', withdrawal'} \subseteq Replies /\ cancel' \in BOOLEAN
      BY <1>18 DEF CancelStart, Awaits, Replies
    <2>2. UNCHANGED <<cloud, cmd, before, echoed, polls, outcome, stops, stopReply, history>>
      BY <1>18 DEF CancelStart
    <2> QED BY <1>0, <2>1, <2>2 DEF TypeOK, cloud, history
  <1>19. CASE CancelShielded
    <2>1. cancel' \in BOOLEAN /\ UNCHANGED <<cloud, caller, stops, stopReply, history>>
      BY <1>19 DEF CancelShielded
    <2> QED BY <2>1, <1>0 DEF TypeOK, cloud, caller, history
  <1>20. CASE WithdrawalApplies
    <2>1. /\ withdrawal' \in Replies /\ desired' \in Commands /\ fresh' \in BOOLEAN
          /\ ours' \in BOOLEAN /\ UNCHANGED <<took, ran, stopped>>
      BY <1>20, Names DEF WithdrawalApplies, Write, Commands
    <2>2. UNCHANGED <<reported, connected, grill, telemetry, pc, reply, cmd, before, echoed,
                      polls, outcome, stopping>>
      BY <1>20 DEF WithdrawalApplies
    <2> QED BY <1>0, <2>1, <2>2 DEF TypeOK, stopping
  <1>21. CASE WithdrawalEnds
    <2>1. /\ withdrawal' \in Replies /\ cancel' \in BOOLEAN 
          /\ UNCHANGED <<cloud, stops, stopReply>>
      BY <1>0, <1>21 DEF WithdrawalEnds, TypeOK, Replies
    <2>2. CASE pc = "withdrawing"
      <3>1. Ends("cancelled")
        BY <1>21, <2>2 DEF WithdrawalEnds
      <3> QED BY <1>0, <2>1, <3>1, EndsType, Names DEF TypeOK, cloud
    <2>3. CASE pc # "withdrawing"
      <3>1. UNCHANGED <<pc, reply, outcome, cmd, before, echoed, polls, history>>
        BY <1>21, <2>3 DEF WithdrawalEnds
      <3> QED BY <1>0, <2>1, <3>1 DEF TypeOK, cloud, history
    <2> QED BY <2>2, <2>3
  <1>22. CASE StopBegins
    <2>1. stops' \in 0..MaxStops /\ stopReply' \in Replies
      BY <1>0, <1>22, BoundAssumption, Names DEF StopBegins, TypeOK
    <2>2. UNCHANGED <<cloud, caller, cancel, history>>
      BY <1>22 DEF StopBegins
    <2> QED BY <1>0, <2>1, <2>2 DEF TypeOK, cloud, caller, history
  <1>23. CASE StopApplies
    <2>1. /\ stopReply' \in Replies /\ desired' \in Commands /\ fresh' \in BOOLEAN
          /\ ours' \in BOOLEAN /\ UNCHANGED <<took, ran, stopped>>
      BY <1>23, Names DEF StopApplies, Write, Commands
    <2>2. UNCHANGED <<reported, connected, grill, telemetry, caller, stops, cancel>>
      BY <1>23 DEF StopApplies
    <2> QED BY <1>0, <2>1, <2>2 DEF TypeOK, caller
  <1>24. CASE StopReturns
    BY <1>0, <1>24, Names DEF StopReturns, TypeOK, Commands, cloud, caller
  <1>25. CASE StopFails
    <2>1. /\ stopReply' \in Replies /\ cancel' \in BOOLEAN
          /\ UNCHANGED <<cloud, caller, stops, history>>
      BY <1>25 DEF StopFails, Replies
    <2> QED BY <1>0, <2>1 DEF TypeOK, cloud, caller, history
  <1>26. CASE PressStop
    <2>1. stops' \in 0..MaxStops
      BY <1>0, <1>26, BoundAssumption DEF PressStop, TypeOK
    <2>2. cancel' \in BOOLEAN /\ UNCHANGED <<cloud, caller, stopReply, history>>
      BY <1>26 DEF PressStop
    <2> QED BY <1>0, <2>1, <2>2 DEF TypeOK, cloud, caller, history
  <1>27. ASSUME NEW c \in Cooks, StartCook(c) PROVE TypeOK'
    BY <1>0, <1>27, Names DEF StartCook, TypeOK, Commands, cloud, stopping
  <1> QED BY <1>1, <1>2, <1>3, <1>4, <1>5, <1>6, <1>7, <1>8, <1>9, <1>10, <1>11, <1>12,
     <1>13, <1>14, <1>15, <1>16, <1>17, <1>18, <1>19, <1>20, <1>21, <1>22, <1>23, <1>24,
     <1>25, <1>26, <1>27 DEF Next, GrillStep, CallerStep, StopStep

\* Lemma: every step keeps one command in the lock.
LEMMA LockStep ==
  ASSUME IInv, Next
  PROVE  LockInv'
  <1>0. TypeOK /\ LockInv
    BY DEF IInv
  <1>1. CASE GrillTakes
    BY <1>0, <1>1 DEF GrillTakes, TypeOK, LockInv, WithdrawalKeepsLock, Replies, Awaits,
       caller, stopping
  <1>2. CASE GrillReports
    BY <1>0, <1>2 DEF GrillReports, TypeOK, LockInv, WithdrawalKeepsLock, Replies,
       Awaits, caller, stopping, history
  <1>3. CASE GrillMoves
    BY <1>0, <1>3 DEF GrillMoves, TypeOK, LockInv, WithdrawalKeepsLock, Replies, Awaits,
       caller, stopping
  <1>4. CASE Connectivity
    BY <1>0, <1>4 DEF Connectivity, TypeOK, LockInv, WithdrawalKeepsLock, Replies,
       Awaits, caller, stopping, history
  <1>5. CASE FindDevice
    BY <1>0, <1>5 DEF FindDevice, TypeOK, LockInv, WithdrawalKeepsLock, Replies, Awaits,
       cloud, stopping, history
  <1>6. CASE ReadShadow
    BY <1>0, <1>6 DEF ReadShadow, TypeOK, LockInv, WithdrawalKeepsLock, Replies, Awaits,
       cloud, stopping, history
  <1>7. CASE Refuse
    BY <1>0, <1>7 DEF Refuse, Ends, TypeOK, LockInv, WithdrawalKeepsLock, Replies,
       Awaits, cloud, stopping
  <1>8. CASE ServerApplies
    BY <1>0, <1>8 DEF ServerApplies, Write, TypeOK, LockInv, WithdrawalKeepsLock,
       Replies, Awaits, stopping
  <1>9. CASE Patched
    BY <1>0, <1>9 DEF Patched, TypeOK, LockInv, WithdrawalKeepsLock, Replies, Awaits,
       cloud, stopping, history
  <1>10. CASE StartErrs
    BY <1>0, <1>10 DEF StartErrs, TypeOK, LockInv, WithdrawalKeepsLock, Replies, Awaits,
       cloud, stopping, history
  <1>11. CASE Acknowledged
    BY <1>0, <1>11 DEF Acknowledged, EchoConfirms, TelemetryConfirms, Looks, TypeOK,
       LockInv, WithdrawalKeepsLock, Replies, Awaits, cloud, stopping, history
  <1>12. CASE PollMisses
    BY <1>0, <1>12 DEF PollMisses, TypeOK, LockInv, WithdrawalKeepsLock, Replies,
       Awaits, cloud, stopping, history
  <1>13. CASE Withdrawn
    BY <1>0, <1>13 DEF Withdrawn, Ends, TypeOK, LockInv, WithdrawalKeepsLock, Replies,
       Awaits, cloud, stopping
  <1>14. CASE Cleared
    BY <1>0, <1>14 DEF Cleared, Ends, TypeOK, LockInv, WithdrawalKeepsLock, Replies,
       Awaits, cloud, stopping
  <1>15. ASSUME NEW err \in {"transport", "auth"}, WithdrawFails(err) PROVE LockInv'
    BY <1>0, <1>15 DEF WithdrawFails, Ends, TypeOK, LockInv, WithdrawalKeepsLock,
       Replies, Awaits, cloud, stopping
  <1>16. ASSUME NEW err \in {"transport", "auth"}, ClearFails(err) PROVE LockInv'
    BY <1>0, <1>16 DEF ClearFails, Ends, TypeOK, LockInv, WithdrawalKeepsLock, Replies,
       Awaits, cloud, stopping
  <1>17. CASE CancelPlain
    BY <1>0, <1>17 DEF CancelPlain, Ends, TypeOK, LockInv, WithdrawalKeepsLock, Replies,
       Awaits, cloud
  <1>18. CASE CancelStart
    BY <1>0, <1>18 DEF CancelStart, TypeOK, LockInv, WithdrawalKeepsLock, Replies,
       Awaits, cloud, history
  <1>19. CASE CancelShielded
    BY <1>0, <1>19 DEF CancelShielded, TypeOK, LockInv, WithdrawalKeepsLock, Replies,
       Awaits, cloud, caller, history
  <1>20. CASE WithdrawalApplies
    BY <1>0, <1>20 DEF WithdrawalApplies, Write, TypeOK, LockInv, WithdrawalKeepsLock,
       Replies, Awaits, stopping
  <1>21. CASE WithdrawalEnds
    BY <1>0, <1>21 DEF WithdrawalEnds, Ends, TypeOK, LockInv, WithdrawalKeepsLock,
       Replies, Awaits, cloud, history
  <1>22. CASE StopBegins
    BY <1>0, <1>22 DEF StopBegins, TypeOK, LockInv, WithdrawalKeepsLock, Replies,
       Awaits, cloud, caller, history
  <1>23. CASE StopApplies
    BY <1>0, <1>23 DEF StopApplies, Write, TypeOK, LockInv, WithdrawalKeepsLock,
       Replies, Awaits, caller
  <1>24. CASE StopReturns
    BY <1>0, <1>24 DEF StopReturns, TypeOK, LockInv, WithdrawalKeepsLock, Replies,
       Awaits, cloud, caller
  <1>25. CASE StopFails
    BY <1>0, <1>25 DEF StopFails, TypeOK, LockInv, WithdrawalKeepsLock, Replies, Awaits,
       cloud, caller, history
  <1>26. CASE PressStop
    BY <1>0, <1>26 DEF PressStop, TypeOK, LockInv, WithdrawalKeepsLock, Replies, Awaits,
       cloud, caller, history
  <1>27. ASSUME NEW c \in Cooks, StartCook(c) PROVE LockInv'
    BY <1>0, <1>27 DEF StartCook, TypeOK, LockInv, WithdrawalKeepsLock, Replies, Awaits,
       cloud, stopping
  <1> QED BY <1>1, <1>2, <1>3, <1>4, <1>5, <1>6, <1>7, <1>8, <1>9, <1>10, <1>11, <1>12,
     <1>13, <1>14, <1>15, <1>16, <1>17, <1>18, <1>19, <1>20, <1>21, <1>22, <1>23, <1>24,
     <1>25, <1>26, <1>27 DEF Next, GrillStep, CallerStep, StopStep

\* Lemma: every step keeps what is left in the shadow.
LEMMA ShadowStep ==
  ASSUME IInv, Next
  PROVE  ShadowInv'
  <1>0. TypeOK /\ LockInv /\ ShadowInv
    BY DEF IInv
  <1>1. CASE GrillTakes
    BY <1>0, <1>1, CooksAssumption DEF GrillTakes, TypeOK, LockInv, ShadowInv,
       WithdrawalKeepsLock, NoneLeftBehind, StopIsFinal, Queued, Replies, Awaits,
       caller, stopping
  <1>2. CASE GrillReports
    BY <1>0, <1>2, CooksAssumption DEF GrillReports, TypeOK, LockInv, ShadowInv,
       WithdrawalKeepsLock, NoneLeftBehind, StopIsFinal, Queued, Replies, Awaits,
       caller, stopping, history
  <1>3. CASE GrillMoves
    BY <1>0, <1>3, CooksAssumption DEF GrillMoves, TypeOK, LockInv, ShadowInv,
       WithdrawalKeepsLock, NoneLeftBehind, StopIsFinal, Queued, Replies, Awaits,
       caller, stopping
  <1>4. CASE Connectivity
    BY <1>0, <1>4, CooksAssumption DEF Connectivity, TypeOK, LockInv, ShadowInv,
       WithdrawalKeepsLock, NoneLeftBehind, StopIsFinal, Queued, Replies, Awaits,
       caller, stopping, history
  <1>5. CASE FindDevice
    BY <1>0, <1>5, CooksAssumption DEF FindDevice, TypeOK, LockInv, ShadowInv,
       WithdrawalKeepsLock, NoneLeftBehind, StopIsFinal, Queued, Replies, Awaits, cloud,
       stopping, history
  <1>6. CASE ReadShadow
    BY <1>0, <1>6, CooksAssumption DEF ReadShadow, TypeOK, LockInv, ShadowInv,
       WithdrawalKeepsLock, NoneLeftBehind, StopIsFinal, Queued, Replies, Awaits, cloud,
       stopping, history
  <1>7. CASE Refuse
    BY <1>0, <1>7, CooksAssumption DEF Refuse, Ends, TypeOK, LockInv, ShadowInv,
       WithdrawalKeepsLock, NoneLeftBehind, StopIsFinal, Queued, Replies, Awaits, cloud,
       stopping
  <1>8. CASE ServerApplies
    BY <1>0, <1>8, CooksAssumption DEF ServerApplies, Write, TypeOK, LockInv, ShadowInv,
       WithdrawalKeepsLock, NoneLeftBehind, StopIsFinal, Queued, Replies, Awaits,
       stopping
  <1>9. CASE Patched
    BY <1>0, <1>9, CooksAssumption DEF Patched, TypeOK, LockInv, ShadowInv,
       WithdrawalKeepsLock, NoneLeftBehind, StopIsFinal, Queued, Replies, Awaits, cloud,
       stopping, history
  <1>10. CASE StartErrs
    BY <1>0, <1>10, CooksAssumption DEF StartErrs, TypeOK, LockInv, ShadowInv,
       WithdrawalKeepsLock, NoneLeftBehind, StopIsFinal, Queued, Replies, Awaits, cloud,
       stopping, history
  <1>11. CASE Acknowledged
    BY <1>0, <1>11, CooksAssumption DEF Acknowledged, EchoConfirms, TelemetryConfirms,
       Looks, TypeOK, LockInv, ShadowInv, WithdrawalKeepsLock, NoneLeftBehind,
       StopIsFinal, Queued, Replies, Awaits, cloud, stopping, history
  <1>12. CASE PollMisses
    BY <1>0, <1>12, CooksAssumption DEF PollMisses, TypeOK, LockInv, ShadowInv,
       WithdrawalKeepsLock, NoneLeftBehind, StopIsFinal, Queued, Replies, Awaits, cloud,
       stopping, history
  <1>13. CASE Withdrawn
    BY <1>0, <1>13, CooksAssumption DEF Withdrawn, Ends, TypeOK, LockInv, ShadowInv,
       WithdrawalKeepsLock, NoneLeftBehind, StopIsFinal, Queued, Replies, Awaits, cloud,
       stopping
  <1>14. CASE Cleared
    BY <1>0, <1>14, CooksAssumption DEF Cleared, Ends, TypeOK, LockInv, ShadowInv,
       WithdrawalKeepsLock, NoneLeftBehind, StopIsFinal, Queued, Replies, Awaits, cloud,
       stopping
  <1>15. ASSUME NEW err \in {"transport", "auth"}, WithdrawFails(err) PROVE ShadowInv'
    BY <1>0, <1>15, CooksAssumption DEF WithdrawFails, Ends, TypeOK, LockInv, ShadowInv,
       WithdrawalKeepsLock, NoneLeftBehind, StopIsFinal, Queued, Replies, Awaits, cloud,
       stopping
  <1>16. ASSUME NEW err \in {"transport", "auth"}, ClearFails(err) PROVE ShadowInv'
    BY <1>0, <1>16, CooksAssumption DEF ClearFails, Ends, TypeOK, LockInv, ShadowInv,
       WithdrawalKeepsLock, NoneLeftBehind, StopIsFinal, Queued, Replies, Awaits, cloud,
       stopping
  <1>17. CASE CancelPlain
    BY <1>0, <1>17, CooksAssumption DEF CancelPlain, Ends, TypeOK, LockInv, ShadowInv,
       WithdrawalKeepsLock, NoneLeftBehind, StopIsFinal, Queued, Replies, Awaits, cloud
  <1>18. CASE CancelStart
    BY <1>0, <1>18, CooksAssumption DEF CancelStart, TypeOK, LockInv, ShadowInv,
       WithdrawalKeepsLock, NoneLeftBehind, StopIsFinal, Queued, Replies, Awaits, cloud,
       history
  <1>19. CASE CancelShielded
    BY <1>0, <1>19, CooksAssumption DEF CancelShielded, TypeOK, LockInv, ShadowInv,
       WithdrawalKeepsLock, NoneLeftBehind, StopIsFinal, Queued, Replies, Awaits, cloud,
       caller, history
  <1>20. CASE WithdrawalApplies
    BY <1>0, <1>20, CooksAssumption DEF WithdrawalApplies, Write, TypeOK, LockInv,
       ShadowInv, WithdrawalKeepsLock, NoneLeftBehind, StopIsFinal, Queued, Replies,
       Awaits, stopping
  <1>21. CASE WithdrawalEnds
    BY <1>0, <1>21, CooksAssumption DEF WithdrawalEnds, Ends, TypeOK, LockInv,
       ShadowInv, WithdrawalKeepsLock, NoneLeftBehind, StopIsFinal, Queued, Replies,
       Awaits, cloud, history
  <1>22. CASE StopBegins
    BY <1>0, <1>22, CooksAssumption DEF StopBegins, TypeOK, LockInv, ShadowInv,
       WithdrawalKeepsLock, NoneLeftBehind, StopIsFinal, Queued, Replies, Awaits, cloud,
       caller, history
  <1>23. CASE StopApplies
    BY <1>0, <1>23, CooksAssumption DEF StopApplies, Write, TypeOK, LockInv, ShadowInv,
       WithdrawalKeepsLock, NoneLeftBehind, StopIsFinal, Queued, Replies, Awaits, caller
  <1>24. CASE StopReturns
    BY <1>0, <1>24, CooksAssumption DEF StopReturns, TypeOK, LockInv, ShadowInv,
       WithdrawalKeepsLock, NoneLeftBehind, StopIsFinal, Queued, Replies, Awaits, cloud,
       caller
  <1>25. CASE StopFails
    BY <1>0, <1>25, CooksAssumption DEF StopFails, TypeOK, LockInv, ShadowInv,
       WithdrawalKeepsLock, NoneLeftBehind, StopIsFinal, Queued, Replies, Awaits, cloud,
       caller, history
  <1>26. CASE PressStop
    BY <1>0, <1>26, CooksAssumption DEF PressStop, TypeOK, LockInv, ShadowInv,
       WithdrawalKeepsLock, NoneLeftBehind, StopIsFinal, Queued, Replies, Awaits, cloud,
       caller, history
  <1>27. ASSUME NEW c \in Cooks, StartCook(c) PROVE ShadowInv'
    BY <1>0, <1>27, CooksAssumption DEF StartCook, TypeOK, LockInv, ShadowInv,
       WithdrawalKeepsLock, NoneLeftBehind, StopIsFinal, Queued, Replies, Awaits, cloud,
       stopping
  <1> QED BY <1>1, <1>2, <1>3, <1>4, <1>5, <1>6, <1>7, <1>8, <1>9, <1>10, <1>11, <1>12,
     <1>13, <1>14, <1>15, <1>16, <1>17, <1>18, <1>19, <1>20, <1>21, <1>22, <1>23, <1>24,
     <1>25, <1>26, <1>27 DEF Next, GrillStep, CallerStep, StopStep

\* Lemma: every step keeps where evidence comes from.
LEMMA EvidenceStep ==
  ASSUME IInv, Next
  PROVE  EvidenceInv'
  <1>0. TypeOK /\ EvidenceInv
    BY DEF IInv
  <1>1. CASE GrillTakes
    BY <1>0, <1>1 DEF GrillTakes, TypeOK, EvidenceInv, AcknowledgedRan, Off, Running,
       caller, stopping
  <1>2. CASE GrillReports
    BY <1>0, <1>2 DEF GrillReports, TypeOK, EvidenceInv, AcknowledgedRan, Off, Running,
       caller, stopping, history
  <1>3. CASE GrillMoves
    BY <1>0, <1>3 DEF GrillMoves, TypeOK, EvidenceInv, AcknowledgedRan, Off, Running,
       caller, stopping
  <1>4. CASE Connectivity
    BY <1>0, <1>4 DEF Connectivity, TypeOK, EvidenceInv, AcknowledgedRan, Off, Running,
       caller, stopping, history
  <1>5. CASE FindDevice
    BY <1>0, <1>5 DEF FindDevice, TypeOK, EvidenceInv, AcknowledgedRan, Off, Running,
       cloud, stopping, history
  <1>6. CASE ReadShadow
    BY <1>0, <1>6 DEF ReadShadow, TypeOK, EvidenceInv, AcknowledgedRan, Off, Running,
       cloud, stopping, history
  <1>7. CASE Refuse
    BY <1>0, <1>7 DEF Refuse, Ends, TypeOK, EvidenceInv, AcknowledgedRan, Off, Running,
       cloud, stopping
  <1>8. CASE ServerApplies
    BY <1>0, <1>8 DEF ServerApplies, Write, TypeOK, EvidenceInv, AcknowledgedRan, Off,
       Running, stopping
  <1>9. CASE Patched
    BY <1>0, <1>9 DEF Patched, TypeOK, EvidenceInv, AcknowledgedRan, Off, Running,
       cloud, stopping, history
  <1>10. CASE StartErrs
    BY <1>0, <1>10 DEF StartErrs, TypeOK, EvidenceInv, AcknowledgedRan, Off, Running,
       cloud, stopping, history
  <1>11. CASE Acknowledged
    BY <1>0, <1>11 DEF Acknowledged, EchoConfirms, TelemetryConfirms, Looks, TypeOK,
       EvidenceInv, AcknowledgedRan, Off, Running, cloud, stopping, history
  <1>12. CASE PollMisses
    BY <1>0, <1>12 DEF PollMisses, TypeOK, EvidenceInv, AcknowledgedRan, Off, Running,
       cloud, stopping, history
  <1>13. CASE Withdrawn
    BY <1>0, <1>13 DEF Withdrawn, Ends, TypeOK, EvidenceInv, AcknowledgedRan, Off,
       Running, cloud, stopping
  <1>14. CASE Cleared
    BY <1>0, <1>14 DEF Cleared, Ends, TypeOK, EvidenceInv, AcknowledgedRan, Off,
       Running, cloud, stopping
  <1>15. ASSUME NEW err \in {"transport", "auth"}, WithdrawFails(err) PROVE EvidenceInv'
    BY <1>0, <1>15 DEF WithdrawFails, Ends, TypeOK, EvidenceInv, AcknowledgedRan, Off,
       Running, cloud, stopping
  <1>16. ASSUME NEW err \in {"transport", "auth"}, ClearFails(err) PROVE EvidenceInv'
    BY <1>0, <1>16 DEF ClearFails, Ends, TypeOK, EvidenceInv, AcknowledgedRan, Off,
       Running, cloud, stopping
  <1>17. CASE CancelPlain
    BY <1>0, <1>17 DEF CancelPlain, Ends, TypeOK, EvidenceInv, AcknowledgedRan, Off,
       Running, cloud
  <1>18. CASE CancelStart
    BY <1>0, <1>18 DEF CancelStart, TypeOK, EvidenceInv, AcknowledgedRan, Off, Running,
       cloud, history
  <1>19. CASE CancelShielded
    BY <1>0, <1>19 DEF CancelShielded, TypeOK, EvidenceInv, AcknowledgedRan, Off,
       Running, cloud, caller, history
  <1>20. CASE WithdrawalApplies
    BY <1>0, <1>20 DEF WithdrawalApplies, Write, TypeOK, EvidenceInv, AcknowledgedRan,
       Off, Running, stopping
  <1>21. CASE WithdrawalEnds
    BY <1>0, <1>21 DEF WithdrawalEnds, Ends, TypeOK, EvidenceInv, AcknowledgedRan, Off,
       Running, cloud, history
  <1>22. CASE StopBegins
    BY <1>0, <1>22 DEF StopBegins, TypeOK, EvidenceInv, AcknowledgedRan, Off, Running,
       cloud, caller, history
  <1>23. CASE StopApplies
    BY <1>0, <1>23 DEF StopApplies, Write, TypeOK, EvidenceInv, AcknowledgedRan, Off,
       Running, caller
  <1>24. CASE StopReturns
    BY <1>0, <1>24 DEF StopReturns, TypeOK, EvidenceInv, AcknowledgedRan, Off, Running,
       cloud, caller
  <1>25. CASE StopFails
    BY <1>0, <1>25 DEF StopFails, TypeOK, EvidenceInv, AcknowledgedRan, Off, Running,
       cloud, caller, history
  <1>26. CASE PressStop
    BY <1>0, <1>26 DEF PressStop, TypeOK, EvidenceInv, AcknowledgedRan, Off, Running,
       cloud, caller, history
  <1>27. ASSUME NEW c \in Cooks, StartCook(c) PROVE EvidenceInv'
    BY <1>0, <1>27 DEF StartCook, TypeOK, EvidenceInv, AcknowledgedRan, Off, Running,
       cloud, stopping
  <1> QED BY <1>1, <1>2, <1>3, <1>4, <1>5, <1>6, <1>7, <1>8, <1>9, <1>10, <1>11, <1>12,
     <1>13, <1>14, <1>15, <1>16, <1>17, <1>18, <1>19, <1>20, <1>21, <1>22, <1>23, <1>24,
     <1>25, <1>26, <1>27 DEF Next, GrillStep, CallerStep, StopStep

\* Lemma: the invariant holds at first.
LEMMA InitIInv == Init => IInv
  <1> SUFFICES ASSUME Init PROVE IInv
    OBVIOUS
  <1>1. TypeOK
    <2>1. {fresh, connected, echoed, cancel, ours, took, ran, stopped} \subseteq BOOLEAN
      BY DEF Init
    <2>2. polls \in 0..MaxPolls /\ stops \in 0..MaxStops
      BY BoundAssumption DEF Init
    <2>3. /\ pc \in Awaits /\ outcome \in Outcomes
          /\ {reply, withdrawal, stopReply} \subseteq Replies
      BY DEF Init, Awaits, Replies, Outcomes
    <2>4. /\ {desired, reported} \subseteq {Nothing} \cup Commands
          /\ {grill, telemetry, before} \subseteq Running \cup {Off}
          /\ cmd \in Cooks \cup {Nothing}
      BY DEF Init, Commands
    <2> QED BY <2>1, <2>2, <2>3, <2>4 DEF TypeOK
  <1>2. LockInv
    BY DEF Init, LockInv, WithdrawalKeepsLock
  <1>3. ShadowInv
    BY DEF Init, ShadowInv, NoneLeftBehind, StopIsFinal, Queued
  <1>4. EvidenceInv
    BY DEF Init, EvidenceInv, AcknowledgedRan
  <1> QED BY <1>1, <1>2, <1>3, <1>4 DEF IInv

\* Lemma: every step keeps it.
LEMMA NextIInv == IInv /\ [Next]_vars => IInv'
  <1> SUFFICES ASSUME IInv, [Next]_vars PROVE IInv'
    OBVIOUS
  <1>1. CASE Next
    BY <1>1, TypeStep, LockStep, ShadowStep, EvidenceStep DEF IInv
  <1>2. CASE UNCHANGED vars
    BY <1>2 DEF IInv, TypeOK, LockInv, ShadowInv, EvidenceInv, WithdrawalKeepsLock,
       NoneLeftBehind, StopIsFinal, Queued, AcknowledgedRan, vars, cloud, caller, stopping,
       history
  <1> QED BY <1>1, <1>2

\* Theorem: the invariant holds always (aws.py:101-200, 278-444).
THEOREM Invariance == Spec => []IInv
  BY InitIInv, NextIInv, PTL DEF Spec

\* Theorem: every variable of a start over AWS keeps its type, for any cooks and bounds.
THEOREM TypeCorrect == Spec => []TypeOK
  <1>1. IInv => TypeOK
    BY DEF IInv
  <1> QED BY <1>1, Invariance, PTL

\* Theorem: a start that ends as refused or withdrawn has left nothing of its own in the
\* shadow, whichever request failed, before or after the server had carried it out
\* (aws.py:345-352, 382-410).
THEOREM NothingLeftBehind == Spec => []NoneLeftBehind
  <1>1. IInv => NoneLeftBehind
    BY DEF IInv, ShadowInv
  <1> QED BY <1>1, Invariance, PTL

\* Theorem: once a Stop has succeeded no queued start is left to fire (aws.py:101-110,
\* 353-373).
THEOREM StopFinal == Spec => []StopIsFinal
  <1>1. IInv => StopIsFinal
    BY DEF IInv, ShadowInv
  <1> QED BY <1>1, Invariance, PTL

\* Theorem: an acknowledged start was taken by the grill, or a cook that telemetry cannot
\* tell from it ran since the baseline (aws.py:316-344, 374-381).
THEOREM AcknowledgementWorth == Spec => []AcknowledgedRan
  <1>1. IInv => AcknowledgedRan
    BY DEF IInv, EvidenceInv
  <1> QED BY <1>1, Invariance, PTL

\* Theorem: a withdrawal is over before the command lock is free for the next command
\* (aws.py:353-373).
THEOREM WithdrawalInLock == Spec => []WithdrawalKeepsLock
  <1>1. IInv => WithdrawalKeepsLock
    BY DEF IInv, LockInv
  <1> QED BY <1>1, Invariance, PTL

\* Lemma: what a start has before it is a number of steps.
LEMMA ToComeNat ==
  ASSUME TypeOK
  PROVE  ToCome \in 0..(MaxPolls + 7)
  <1> DEFINE going == IF "going" \in {reply, withdrawal} THEN 1 ELSE 0
             cancelling == IF cancel THEN 1 ELSE 0
  <1>1. going \in 0..1 /\ cancelling \in 0..1 /\ polls \in 0..MaxPolls /\ MaxPolls \in Nat
    BY BoundAssumption DEF TypeOK
  <1>2. ToCome \in {0, MaxPolls + 6 + cancelling, MaxPolls + 5 + cancelling,
                    MaxPolls + 3 + going + cancelling, polls + 2 + cancelling,
                    1 + going + cancelling}
    BY DEF ToCome
  <1> HIDE DEF going, cancelling
  <1> QED BY <1>1, <1>2

\* Theorem: start_cook has fewer steps before it with each one it takes, whatever the grill
\* and the server do and however often it is cancelled (aws.py:327-373).
THEOREM NothingStartsOver == Spec => NothingRepeated
  <1>1. ASSUME IInv, CallerStep PROVE ToCome' < ToCome
    <2> USE BoundAssumption DEF ToCome
    <2>0. /\ polls \in 0..MaxPolls /\ cancel \in BOOLEAN /\ pc \in Awaits
          /\ (pc # "withdrawing" => withdrawal \notin {"going", "applied"})
          /\ (pc \in {"idle", "find", "baseline", "ack", "withdrawing"} => reply = "none")
      BY <1>1 DEF IInv, TypeOK, LockInv, WithdrawalKeepsLock
    <2>1. CASE FindDevice
      BY <2>0, <2>1 DEF FindDevice, stopping
    <2>2. CASE ReadShadow
      BY <2>0, <2>2 DEF ReadShadow, stopping
    <2>3. CASE Refuse
      BY <2>0, <2>3 DEF Refuse, Ends
    <2>4. CASE ServerApplies
      <3>1. /\ reply = "going" /\ reply' = "applied" /\ UNCHANGED <<pc, polls, withdrawal, cancel>>
            /\ pc \notin {"idle", "find", "baseline"}
        BY <2>0, <2>4 DEF ServerApplies, stopping
      <3>2. /\ pc \in {"patch", "undoError", "undoUnacked", "clear"}
            /\ "going" \notin {reply', withdrawal'}
        BY <2>0, <3>1 DEF Awaits
      <3> QED BY <2>0, <3>1, <3>2
    <2>5. CASE Patched
      BY <2>0, <2>5 DEF Patched, stopping
    <2>6. CASE StartErrs
      BY <2>0, <2>6 DEF StartErrs, stopping
    <2>7. CASE Acknowledged
      BY <2>0, <2>7 DEF Acknowledged, stopping
    <2>8. CASE PollMisses
      BY <2>0, <2>8 DEF PollMisses, stopping
    <2>9. CASE Withdrawn \/ Cleared \/ \E err \in {"transport", "auth"} :
                                          WithdrawFails(err) \/ ClearFails(err)
      BY <2>0, <2>9 DEF Withdrawn, Cleared, WithdrawFails, ClearFails, Ends
    <2>10. CASE CancelPlain
      BY <2>0, <2>10 DEF CancelPlain, Ends
    <2>11. CASE CancelStart
      BY <2>0, <2>11 DEF CancelStart
    <2>12. CASE CancelShielded
      BY <2>0, <2>12 DEF CancelShielded, caller
    <2>13. CASE WithdrawalApplies
      BY <2>0, <2>13 DEF WithdrawalApplies, stopping
    <2>14. CASE WithdrawalEnds
      <3>1. pc = "withdrawing" /\ pc' = "idle"
        BY <2>0, <2>14 DEF WithdrawalEnds, Ends
      <3> QED BY <2>0, <3>1
    <2> QED
      BY <1>1, <2>1, <2>2, <2>3, <2>4, <2>5, <2>6, <2>7, <2>8, <2>9, <2>10, <2>11, <2>12, <2>13,
         <2>14 DEF CallerStep
  <1> DEFINE Counted == ToCome \in 0..(MaxPolls + 7)
  <1>2. IInv => Counted
    BY ToComeNat DEF IInv
  <1>3. IInv /\ Counted /\ Counted' /\ [Next]_vars
          => [CallerStep => ToCome' \in 0..(ToCome - 1)]_vars
    <2>1. ASSUME IInv, Counted, Counted', CallerStep PROVE ToCome' \in 0..(ToCome - 1)
      <3>1. ToCome \in 0..(MaxPolls + 7) /\ ToCome' \in 0..(MaxPolls + 7) /\ MaxPolls \in Nat
        BY <2>1, BoundAssumption
      <3>2. ToCome' < ToCome
        BY <1>1, <2>1
      <3> QED BY <3>1, <3>2
    <2> QED BY <2>1
  <1> QED BY <1>2, <1>3, Invariance, PTL DEF Spec, NothingRepeated
=============================================================================
