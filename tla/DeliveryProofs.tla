--------------------------- MODULE DeliveryProofs ---------------------------
(***************************************************************************)
(* Typing, exclusion and send-once, proved for every number of messages,   *)
(* threads, runs and faults, every cap and every set of configurations.    *)
(***************************************************************************)
EXTENDS DeliveryProperties, TLAPS

\* A claim under way keeps its message out of
\* reach of every other run: the row is `sending`, or was failed meanwhile.
ClaimsHeld ==
  \A r \in Runs : InFlight(r) => status[msg[r]] \in {"sending", "failed"}

\* SMTP has reported nothing before `record`; a refused copy reaches `suppress`.
RepliesInOrder ==
  \A r \in Runs :
    /\ pc[r] \notin {"record", "suppress"} => frame[r].reply = "none"
    /\ pc[r] = "suppress" => frame[r].reply /= "accepted"

\* The copies taken, against the copies allowed, by where the message stands.
WithinAllowance ==
  \A m \in Messages : Handed(m) <= Allowed(m) /\ Handed(m) >= Allowed(m) - 1
OneToGo ==
  /\ \A m \in Messages :
       status[m] \in {"review_required", "approved", "scheduled"} => Handed(m) < Allowed(m)
  /\ \A r \in Runs :
       InFlight(r) =>
         IF frame[r].reply = "accepted"
         THEN Handed(msg[r]) = Allowed(msg[r]) ELSE Handed(msg[r]) < Allowed(msg[r])

ExclusionInv == TypeOK /\ ClaimsHeld /\ ClaimExclusive
SendOnceInv ==
  ExclusionInv /\ RepliesInOrder /\ WithinAllowance /\ OneToGo /\ OutcomeTruthful

-----------------------------------------------------------------------------
\* Typing.

LEMMA NoFrameTyped == NoFrame \in Frame
BY DEF NoFrame, Frame, Unread, DueStatuses, Replies

LEMMA ContinueTyped ==
  ASSUME TypeOK, NEW r \in Runs, NEW label \in Labels, NEW f \in Frame,
         Continue(r, label, f),
         label \in Delivering => msg[r] \in Messages,
         label \in WithinBudget => budget[r] > 0
  PROVE  /\ RunsTyped'
         /\ (\A q \in Runs : pc[q] \in Delivering => msg[q] \in Messages)'
         /\ (\A q \in Runs : pc[q] \in WithinBudget => budget[q] > 0)'
BY DEF TypeOK, RunsTyped, Continue, Go

LEMMA StopTyped ==
  ASSUME TypeOK, NEW r \in Runs, Stop(r)
  PROVE  /\ RunsTyped'
         /\ (\A q \in Runs : pc[q] \in Delivering => msg[q] \in Messages)'
         /\ (\A q \in Runs : pc[q] \in WithinBudget => budget[q] > 0)'
BY NoFrameTyped DEF TypeOK, RunsTyped, Stop, Go, Labels, Delivering, WithinBudget

LEMMA NextListedTyped ==
  ASSUME TypeOK, NEW r \in Runs, NextListed(r), budget' \in [Runs -> Nat],
         \A q \in Runs \ {r} : budget'[q] = budget[q]
  PROVE  /\ RunsTyped'
         /\ (\A q \in Runs : pc[q] \in Delivering => msg[q] \in Messages)'
         /\ (\A q \in Runs : pc[q] \in WithinBudget => budget[q] > 0)'
BY NoFrameTyped DEF TypeOK, RunsTyped, NextListed, Go, Labels, Delivering, WithinBudget

\* A finished, released or bounced row has a status again.
LEMMA FinishTyped ==
  ASSUME RowsTyped, SharedTyped, NEW m \in Messages, NEW outcome \in Statuses,
         Finish(m, outcome)
  PROVE  status' \in [Messages -> Statuses] /\ halted' \subseteq Threads
BY ThreadsAssumption DEF RowsTyped, SharedTyped, Finish, CompareAndSet

LEMMA ReleaseTyped ==
  ASSUME TypeOK, NEW r \in Runs, Release(r)
  PROVE  status' \in [Messages -> Statuses]
BY DEF TypeOK, RowsTyped, RunsTyped, Frame, Release, Statuses, DueStatuses

LEMMA TypeOKInit == Init => TypeOK
BY NoFrameTyped, ConfigurationsAssumption, NumbersAssumption
DEF Init, TypeOK, RowsTyped, SharedTyped, RunsTyped, HistoryTyped, Statuses, Labels,
    Delivering, WithinBudget

\* The steps of the run that write no row.
LEMMA TypeOKQuietSteps ==
  ASSUME TypeOK, NEW r \in Runs,
         \/ Start(r) \/ ListStale(r) \/ RunGate(r) \/ PlanBudget(r) \/ ListDue(r)
         \/ TakeNext(r) \/ EndOfList(r) \/ Reserve(r) \/ UndoReserve(r) \/ GiveBack(r)
         \/ GiveBackAndStop(r) \/ Read(r) \/ Check(r) \/ ClaimLost(r) \/ Reread(r)
         \/ GateOpens(r) \/ Transmit(r) \/ RecordTooLate(r) \/ SuppressRefused(r)
         \/ Crash(r)
  PROVE  TypeOK'
<1> USE DEF TypeOK
<1>f. frame[r] \in Frame BY DEF RunsTyped
<1>1. CASE Start(r)
  <2>1. [NoFrame EXCEPT !.seen = channel] \in Frame
    BY NoFrameTyped DEF Frame, SharedTyped
  <2> QED BY <1>1, <2>1, ContinueTyped
    DEF Start, NoEffect, rows, thread, history, RowsTyped, SharedTyped, HistoryTyped,
        Labels, Delivering, WithinBudget
<1>2. CASE ListStale(r)
  BY <1>2 DEF ListStale, Go, NoEffect, rows, thread, history, RowsTyped, SharedTyped,
     HistoryTyped, RunsTyped, Labels, Delivering, WithinBudget, StaleClaims
<1>3. CASE RunGate(r)
  BY <1>3, StopTyped, ContinueTyped, NoFrameTyped
  DEF RunGate, NoEffect, rows, thread, history, RowsTyped, SharedTyped, HistoryTyped,
      Labels, Delivering, WithinBudget
<1>4. CASE PlanBudget(r)
  BY <1>4, NumbersAssumption
  DEF PlanBudget, Go, NoEffect, rows, thread, history, RowsTyped, SharedTyped,
      HistoryTyped, RunsTyped, Labels, Delivering, WithinBudget
<1>5. CASE ListDue(r)
  BY <1>5 DEF ListDue, Waiting, Go, NoEffect, rows, thread, history, RowsTyped,
     SharedTyped, HistoryTyped, RunsTyped, Labels, Delivering, WithinBudget
<1>6. CASE TakeNext(r)
  BY <1>6 DEF TakeNext, BudgetLeft, Go, NoEffect, rows, thread, history, RowsTyped,
     SharedTyped, HistoryTyped, RunsTyped, Labels, Delivering, WithinBudget
<1>7. CASE EndOfList(r)
  BY <1>7, StopTyped
  DEF EndOfList, NoEffect, rows, thread, history, RowsTyped, SharedTyped, HistoryTyped
<1>8. CASE Reserve(r)
  BY <1>8 DEF Reserve, Fits, Go, NoRowEffect, rows, thread, history, RowsTyped,
     SharedTyped, HistoryTyped, RunsTyped, Labels, Delivering, WithinBudget
<1>9. CASE UndoReserve(r)
  BY <1>9, NextListedTyped
  DEF UndoReserve, NoRowEffect, rows, thread, history, RowsTyped, SharedTyped,
      HistoryTyped, RunsTyped
<1>10. CASE GiveBack(r)
  <2>1. counter' \in Int /\ faults' \in 0..MaxFaults
    BY <1>10, NumbersAssumption DEF GiveBack, GivePlaceBack, Fault, SharedTyped, HistoryTyped
  <2> QED BY <1>10, <2>1, NextListedTyped
    DEF GiveBack, NoRowEffect, rows, thread, history, RowsTyped, SharedTyped,
        HistoryTyped, RunsTyped
<1>11. CASE GiveBackAndStop(r)
  <2>1. counter' \in Int /\ faults' \in 0..MaxFaults
    BY <1>11, NumbersAssumption
    DEF GiveBackAndStop, GivePlaceBack, Fault, SharedTyped, HistoryTyped
  <2> QED BY <1>11, <2>1, StopTyped
    DEF GiveBackAndStop, NoRowEffect, rows, thread, history, RowsTyped, SharedTyped,
        HistoryTyped
<1>12. CASE Read(r)
  <2>1. status[msg[r]] \in DueStatuses =>
          [frame[r] EXCEPT !.from = status[msg[r]], !.seen = channel] \in Frame
    BY <1>f DEF Frame, SharedTyped
  <2>2. msg[r] \in Messages /\ budget[r] > 0
    BY <1>12 DEF Read, Delivering, WithinBudget
  <2> QED BY <1>12, <2>1, <2>2, ContinueTyped, NoFrameTyped
    DEF Read, Return, NoEffect, rows, thread, history, RowsTyped, SharedTyped,
        HistoryTyped, Labels, Delivering, WithinBudget
<1>13. CASE Check(r)
  <2>1. [frame[r] EXCEPT !.refusal = Refusal(msg[r])] \in Frame
    BY <1>f DEF Frame, Refusal
  <2>2. msg[r] \in Messages /\ budget[r] > 0
    BY <1>13 DEF Check, Delivering, WithinBudget
  <2> QED BY <1>13, <2>1, <2>2, ContinueTyped, NoFrameTyped
    DEF Check, NoEffect, rows, thread, history, RowsTyped, SharedTyped, HistoryTyped,
        Labels, Delivering, WithinBudget
<1>14. CASE ClaimLost(r)
  BY <1>14, ContinueTyped, NoFrameTyped
  DEF ClaimLost, Return, NoEffect, rows, thread, history, RowsTyped, SharedTyped,
      HistoryTyped, Labels, Delivering, WithinBudget
<1>15. CASE Reread(r)
  <2>2. msg[r] \in Messages /\ budget[r] > 0
    BY <1>15 DEF Reread, Delivering, WithinBudget
  <2>1. [frame[r] EXCEPT !.claimed = channel, !.tries = attempts[msg[r]]] \in Frame
    BY <1>f, <2>2 DEF Frame, SharedTyped, RowsTyped
  <2> QED BY <1>15, <2>1, <2>2, ContinueTyped
    DEF Reread, NoEffect, rows, thread, history, RowsTyped, SharedTyped, HistoryTyped,
        Labels, Delivering, WithinBudget
<1>16. CASE GateOpens(r)
  BY <1>16, <1>f, ContinueTyped
  DEF GateOpens, NoEffect, rows, thread, history, RowsTyped, SharedTyped, HistoryTyped,
      Labels, Delivering, WithinBudget
<1>17. CASE Transmit(r)
  <2>2. msg[r] \in Messages /\ budget[r] > 0
    BY <1>17 DEF Transmit, Delivering, WithinBudget
  <2>1. PICK reply \in {"accepted", "no_recipient", "permanent", "temporary"},
             taken \in BOOLEAN :
          /\ copies' = [copies EXCEPT ![msg[r]] = IF taken THEN @ + 1 ELSE @]
          /\ lost' = [lost EXCEPT ![msg[r]] = IF taken /\ reply /= "accepted" THEN @ + 1 ELSE @]
          /\ counted' = IF reply = "accepted" /\ place[r] THEN counted + 1 ELSE counted
          /\ Continue(r, "record", [frame[r] EXCEPT !.reply = reply])
    BY <1>17 DEF Transmit
  <2>3. [frame[r] EXCEPT !.reply = reply] \in Frame
    BY <1>f DEF Frame, Replies
  <2>4. HistoryTyped'
    BY <1>17, <2>1, <2>2 DEF HistoryTyped, Transmit
  <2> QED BY <1>17, <2>1, <2>2, <2>3, <2>4, ContinueTyped
    DEF Transmit, rows, thread, RowsTyped, SharedTyped, Labels, Delivering, WithinBudget
<1>18. CASE RecordTooLate(r)
  BY <1>18, StopTyped
  DEF RecordTooLate, NoEffect, rows, thread, history, RowsTyped, SharedTyped, HistoryTyped
<1>19. CASE SuppressRefused(r)
  <2>1. msg[r] \in Messages BY <1>19 DEF SuppressRefused, Delivering
  <2>2. suppressed' \subseteq Threads
    BY <1>19, <2>1, ThreadsAssumption DEF SuppressRefused, SharedTyped
  <2> QED BY <1>19, <2>1, <2>2, ContinueTyped, NoFrameTyped
    DEF SuppressRefused, Return, rows, history, RowsTyped, SharedTyped, HistoryTyped,
        Labels, Delivering, WithinBudget
<1>20. CASE Crash(r)
  <2>1. faults' \in 0..MaxFaults
    BY <1>20, NumbersAssumption DEF Crash, Fault, HistoryTyped
  <2> QED BY <1>20, <2>1, StopTyped
    DEF Crash, rows, thread, history, RowsTyped, SharedTyped, HistoryTyped
<1> QED BY <1>1, <1>2, <1>3, <1>4, <1>5, <1>6, <1>7, <1>8, <1>9, <1>10, <1>11, <1>12,
           <1>13, <1>14, <1>15, <1>16, <1>17, <1>18, <1>19, <1>20

\* The steps of the run that write a row.
LEMMA TypeOKRowSteps ==
  ASSUME TypeOK, NEW r \in Runs,
         \/ Sweep(r) \/ Claim(r) \/ GateDefers(r) \/ AlertLive(r) \/ GateFinishes(r)
         \/ GateRaises(r) \/ Record(r)
  PROVE  TypeOK'
<1> USE DEF TypeOK
<1>f. frame[r] \in Frame BY DEF RunsTyped
<1>1. CASE Sweep(r)
  <2>1. PICK m \in todo[r] :
          /\ todo' = [todo EXCEPT ![r] = @ \ {m}]
          /\ \/ Finish(m, StaleOutcome)
             \/ status[m] /= "sending" /\ UNCHANGED <<status, halted>>
    BY <1>1 DEF Sweep
  <2>2. m \in Messages BY <2>1 DEF RunsTyped
  <2>3. status' \in [Messages -> Statuses] /\ halted' \subseteq Threads
    BY <2>1, <2>2, FinishTyped DEF StaleOutcome, Statuses, RowsTyped, SharedTyped
  <2> QED BY <1>1, <2>1, <2>3
    DEF Sweep, OnlyOutcome, history, RowsTyped, SharedTyped, HistoryTyped, RunsTyped
<1>2. CASE Claim(r)
  <2>1. msg[r] \in Messages /\ budget[r] > 0
    BY <1>2 DEF Claim, Delivering, WithinBudget
  <2>2. [frame[r] EXCEPT !.since = {channel}] \in Frame
    BY <1>f DEF Frame, SharedTyped
  <2>3. RowsTyped'
    BY <1>2, <2>1 DEF Claim, CompareAndSet, RowsTyped, Statuses
  <2> QED BY <1>2, <2>1, <2>2, <2>3, ContinueTyped
    DEF Claim, thread, history, SharedTyped, HistoryTyped, Labels, Delivering, WithinBudget
<1>3. CASE GateDefers(r)
  BY <1>3, <1>f, ReleaseTyped, ContinueTyped, NoFrameTyped
  DEF GateDefers, Return, OnlyOutcome, history, RowsTyped, SharedTyped, HistoryTyped,
      Labels, Delivering, WithinBudget
<1>4. CASE AlertLive(r)
  <2>1. status' \in [Messages -> Statuses]
    BY <1>4, ReleaseTyped DEF AlertLive, RowsTyped
  <2> QED BY <1>4, <2>1, ContinueTyped, StopTyped, NoFrameTyped
    DEF AlertLive, Return, OnlyOutcome, history, RowsTyped, SharedTyped, HistoryTyped,
        Labels, Delivering, WithinBudget
<1>5. CASE GateFinishes(r)
  <2>1. msg[r] \in Messages BY <1>5 DEF GateFinishes, Delivering
  <2>2. status' \in [Messages -> Statuses] /\ halted' \subseteq Threads
    BY <1>5, <2>1, FinishTyped
    DEF GateFinishes, DeliveryOutcomes, Statuses, RowsTyped, SharedTyped
  <2> QED BY <1>5, <2>2, ContinueTyped, StopTyped, NoFrameTyped
    DEF GateFinishes, Return, OnlyOutcome, history, RowsTyped, SharedTyped, HistoryTyped,
        Labels, Delivering, WithinBudget
<1>6. CASE GateRaises(r)
  <2>1. faults' \in 0..MaxFaults
    BY <1>6, NumbersAssumption DEF GateRaises, Fault, HistoryTyped
  <2> QED BY <1>6, <2>1, ReleaseTyped, StopTyped
    DEF GateRaises, OnlyOutcome, history, RowsTyped, SharedTyped, HistoryTyped
<1>7. CASE Record(r)
  <2>1. msg[r] \in Messages /\ budget[r] > 0
    BY <1>7 DEF Record, Delivering, WithinBudget
  <2>2. Outcome(frame[r]) \in {"sent", "scheduled", "failed"} BY DEF Outcome
  <2>3. status' \in [Messages -> Statuses] /\ halted' \subseteq Threads
    BY <1>7, <2>1, <2>2, FinishTyped DEF Record, Statuses, RowsTyped, SharedTyped
  <2>4. attempts' \in [Messages -> Nat]
    <3>1. attempts' = [attempts EXCEPT ![msg[r]] = frame[r].tries + 1]
      BY <1>7 DEF Record
    <3>2. frame[r].tries \in Nat BY <1>f DEF Frame
    <3> QED BY <3>1, <3>2, <2>1 DEF RowsTyped
  <2>5. /\ RunsTyped'
        /\ (\A q \in Runs : pc[q] \in Delivering => msg[q] \in Messages)'
        /\ (\A q \in Runs : pc[q] \in WithinBudget => budget[q] > 0)'
    <3>1. CASE NextListed(r) /\ budget' = [budget EXCEPT ![r] = @ - 1]
      BY <3>1, <2>1, NextListedTyped DEF RunsTyped
    <3>2. CASE Return(r)
      BY <3>2, <2>1, ContinueTyped, NoFrameTyped DEF Return, Labels, Delivering, WithinBudget
    <3>3. CASE Continue(r, "suppress", frame[r])
      BY <3>3, <2>1, <1>f, ContinueTyped DEF Labels, Delivering, WithinBudget
    <3> QED BY <1>7, <3>1, <3>2, <3>3 DEF Record
  <2> QED BY <1>7, <2>3, <2>4, <2>5
    DEF Record, OnlyOutcome, history, RowsTyped, SharedTyped, HistoryTyped
<1> QED BY <1>1, <1>2, <1>3, <1>4, <1>5, <1>6, <1>7

\* The steps of the rest of the system.
LEMMA TypeOKOthers == ASSUME TypeOK, Others PROVE TypeOK'
<1> USE DEF TypeOK, NotSending, history, thread, local
<1>0. ASSUME NEW m \in Messages, Accept(m) PROVE TypeOK'
  <2>1. status' \in [Messages -> Statuses] /\ due' \in [Messages -> BOOLEAN]
    BY <1>0 DEF Accept, CompareAndSet, RowsTyped, Statuses
  <2> QED BY <1>0, <2>1 DEF Accept, RowsTyped, SharedTyped, RunsTyped, HistoryTyped
<1>1. ASSUME NEW m \in Messages, ComesDue(m) \/ ClaimAges(m) PROVE TypeOK'
  BY <1>1 DEF ComesDue, ClaimAges, RowsTyped, SharedTyped, RunsTyped, HistoryTyped
<1>2. ASSUME NEW m \in Messages, HardBounce(m) PROVE TypeOK'
  <2>1. Bounced(status[m]) \in Statuses BY DEF Bounced, RowsTyped, Statuses
  <2>2. ThreadOf[m] \in Threads BY ThreadsAssumption
  <2> QED BY <1>2, <2>1, <2>2
    DEF HardBounce, RowsTyped, SharedTyped, RunsTyped, HistoryTyped
<1>3. ASSUME NEW m \in Messages, SoftBounce(m) PROVE TypeOK'
  BY <1>3 DEF SoftBounce, CompareAndSet, RowsTyped, SharedTyped, RunsTyped, HistoryTyped,
     Statuses
<1>4. ASSUME NEW t \in Threads, ThreadChanges(t) PROVE TypeOK'
  BY <1>4 DEF ThreadChanges, RowsTyped, SharedTyped, RunsTyped, HistoryTyped
<1>5. ASSUME NEW c \in Configurations, SetMode(c) PROVE TypeOK'
  <2>1. c \in Configuration BY ConfigurationsAssumption
  <2>2. frame' \in [Runs -> Frame]
    <3>1. \A r \in Runs : [frame[r] EXCEPT !.since = @ \cup {c}] \in Frame
      BY <2>1 DEF RunsTyped, Frame
    <3> QED BY <1>5, <3>1 DEF SetMode, RunsTyped
  <2> QED BY <1>5, <2>1, <2>2 DEF SetMode, RowsTyped, SharedTyped, RunsTyped, HistoryTyped
<1> QED BY <1>0, <1>1, <1>2, <1>3, <1>4, <1>5 DEF Others

LEMMA TypeOKStep == TypeOK /\ [Next]_vars => TypeOK'
<1> SUFFICES ASSUME TypeOK, [Next]_vars PROVE TypeOK' OBVIOUS
<1>1. CASE \E r \in Runs : RunStep(r) \/ Crash(r)
  BY <1>1, TypeOKQuietSteps, TypeOKRowSteps DEF RunStep
<1>2. CASE Others BY <1>2, TypeOKOthers
<1>3. CASE UNCHANGED vars
  BY <1>3 DEF vars, rows, thread, local, history, TypeOK, RowsTyped, SharedTyped,
     RunsTyped, HistoryTyped
<1> QED BY <1>1, <1>2, <1>3 DEF Next

\* The rows, the shared state and every run are well typed, and a run at work on
\* a delivery has its message and is within its budget (_send_channel, deliver).
THEOREM TypeCorrect == Spec => []TypeOK
<1> QED BY TypeOKInit, TypeOKStep, PTL DEF Spec

-----------------------------------------------------------------------------
\* What a step does to the claims, sorted by who takes it.  InFlight and the
\* reply of a run are all that the send-once argument reads of its local state.

KeepsClaim(q) ==
  InFlight(q)' => InFlight(q) /\ msg'[q] = msg[q] /\ frame'[q].reply = frame[q].reply

\* Neither the rows nor the claims move, but a claim may be abandoned.
Quiet ==
  /\ UNCHANGED <<status, copies, lost, retried>>
  /\ \A q \in Runs : KeepsClaim(q)

\* r ends its claim and leaves its message with status s.
Settles(r, s) ==
  /\ InFlight(r) /\ ~InFlight(r)'
  /\ \A q \in Runs : KeepsClaim(q)
  /\ status' = [status EXCEPT ![msg[r]] = s]
  /\ UNCHANGED <<copies, lost, retried>>
  /\ \/ s \in {status[msg[r]], "failed"}
     \/ s = "sent" /\ frame[r].reply = "accepted"
     \/ /\ s \in {"approved", "scheduled", "suppressed", "skipped", "would_send"}
        /\ frame[r].reply /= "accepted"

\* Somebody without the claim fails a message that is not waiting to be sent.
Fails(m) ==
  /\ status[m] \in {"sending", "sent", "draft"}
  /\ status' = [status EXCEPT ![m] = "failed"]
  /\ UNCHANGED <<copies, lost, retried>>
  /\ \A q \in Runs : KeepsClaim(q)

\* A message is accepted for sending, or sent once more after a soft bounce.
Readies(m) ==
  /\ \/ /\ status[m] = "review_required" /\ status' = [status EXCEPT ![m] = "approved"]
        /\ UNCHANGED retried
     \/ /\ status[m] = "sent" /\ ~retried[m] /\ status' = [status EXCEPT ![m] = "scheduled"]
        /\ retried' = [retried EXCEPT ![m] = TRUE]
  /\ UNCHANGED <<copies, lost>>
  /\ \A q \in Runs : KeepsClaim(q)

\* r claims a waiting message.
Claims(r) ==
  /\ ~InFlight(r) /\ msg[r] \in Messages /\ msg' = msg /\ frame'[r].reply /= "accepted"
  /\ status[msg[r]] \in DueStatuses
  /\ status' = [status EXCEPT ![msg[r]] = "sending"]
  /\ UNCHANGED <<copies, lost, retried>>
  /\ \A q \in Runs \ {r} : KeepsClaim(q)

\* r hands the message it claimed to SMTP.
Hands(r) ==
  /\ InFlight(r) /\ msg[r] \in Messages /\ msg' = msg /\ frame[r].reply /= "accepted"
  /\ UNCHANGED <<status, retried>>
  /\ \A m \in Messages :
       Handed(m)' = Handed(m) + (IF m = msg[r] /\ frame'[r].reply = "accepted" THEN 1 ELSE 0)
  /\ \A q \in Runs \ {r} : KeepsClaim(q)

LEMMA ContinueKeeps ==
  ASSUME TypeOK, NEW r \in Runs, NEW label, NEW f, Continue(r, label, f),
         \/ label \notin {"reread", "gate", "smtp", "record"}
         \/ InFlight(r) /\ f.reply = frame[r].reply
  PROVE  \A q \in Runs : KeepsClaim(q)
BY DEF TypeOK, RunsTyped, Continue, Go, KeepsClaim, InFlight

LEMMA ReturnKeeps ==
  ASSUME TypeOK, NEW r \in Runs, Return(r)
  PROVE  (\A q \in Runs : KeepsClaim(q)) /\ ~InFlight(r)'
BY DEF TypeOK, RunsTyped, Return, Continue, Go, KeepsClaim, InFlight

LEMMA StopKeeps ==
  ASSUME TypeOK, NEW r \in Runs, Stop(r)
  PROVE  (\A q \in Runs : KeepsClaim(q)) /\ ~InFlight(r)'
BY DEF TypeOK, RunsTyped, Stop, Go, KeepsClaim, InFlight

LEMMA NextListedKeeps ==
  ASSUME TypeOK, NEW r \in Runs, NextListed(r)
  PROVE  (\A q \in Runs : KeepsClaim(q)) /\ ~InFlight(r)'
BY DEF TypeOK, RunsTyped, NextListed, Go, KeepsClaim, InFlight

LEMMA QuietSteps ==
  ASSUME TypeOK, NEW r \in Runs,
         \/ Start(r) \/ ListStale(r) \/ RunGate(r) \/ PlanBudget(r) \/ ListDue(r)
         \/ TakeNext(r) \/ EndOfList(r) \/ Reserve(r) \/ UndoReserve(r) \/ GiveBack(r)
         \/ GiveBackAndStop(r) \/ Read(r) \/ Check(r) \/ ClaimLost(r) \/ Reread(r)
         \/ GateOpens(r) \/ RecordTooLate(r) \/ SuppressRefused(r) \/ Crash(r)
  PROVE  Quiet
<1> USE DEF Quiet, NoEffect, NoRowEffect, rows, thread, history
<1>1. CASE Start(r) BY <1>1, ContinueKeeps DEF Start
<1>2. CASE ListStale(r) \/ PlanBudget(r) \/ ListDue(r) \/ TakeNext(r) \/ Reserve(r)
  BY <1>2 DEF ListStale, PlanBudget, ListDue, TakeNext, Reserve, Go, KeepsClaim, InFlight,
     TypeOK, RunsTyped
<1>3. CASE RunGate(r) BY <1>3, ContinueKeeps, StopKeeps DEF RunGate
<1>4. CASE EndOfList(r) \/ GiveBackAndStop(r) \/ RecordTooLate(r) \/ Crash(r)
  BY <1>4, StopKeeps DEF EndOfList, GiveBackAndStop, RecordTooLate, Crash
<1>5. CASE UndoReserve(r) \/ GiveBack(r)
  BY <1>5, NextListedKeeps DEF UndoReserve, GiveBack
<1>6. CASE Read(r) BY <1>6, ContinueKeeps, ReturnKeeps DEF Read
<1>7. CASE Check(r) BY <1>7, ContinueKeeps DEF Check
<1>8. CASE ClaimLost(r) \/ SuppressRefused(r)
  BY <1>8, ReturnKeeps DEF ClaimLost, SuppressRefused
<1>9. CASE Reread(r)
  <2>1. InFlight(r) BY <1>9 DEF Reread, InFlight
  <2>2. [frame[r] EXCEPT !.claimed = channel, !.tries = attempts[msg[r]]].reply
          = frame[r].reply
    BY DEF TypeOK, RunsTyped, Frame
  <2> QED BY <1>9, <2>1, <2>2, ContinueKeeps DEF Reread
<1>10. CASE GateOpens(r)
  BY <1>10, ContinueKeeps DEF GateOpens, InFlight
<1> QED BY <1>1, <1>2, <1>3, <1>4, <1>5, <1>6, <1>7, <1>8, <1>9, <1>10

-----------------------------------------------------------------------------
\* The order of replies.

LEMMA ContinueReplies ==
  ASSUME TypeOK, RepliesInOrder, NEW r \in Runs, NEW label, NEW f, Continue(r, label, f),
         label \notin {"record", "suppress"} => f.reply = "none",
         label = "suppress" => f.reply /= "accepted"
  PROVE  RepliesInOrder'
BY DEF TypeOK, RunsTyped, RepliesInOrder, Continue, Go

LEMMA ReturnReplies ==
  ASSUME TypeOK, RepliesInOrder, NEW r \in Runs, Return(r)
  PROVE  RepliesInOrder'
BY DEF TypeOK, RunsTyped, RepliesInOrder, Return, Continue, Go, NoFrame

LEMMA StopReplies ==
  ASSUME TypeOK, RepliesInOrder, NEW r \in Runs, Stop(r)
  PROVE  RepliesInOrder'
BY DEF TypeOK, RunsTyped, RepliesInOrder, Stop, Go, NoFrame

LEMMA NextListedReplies ==
  ASSUME TypeOK, RepliesInOrder, NEW r \in Runs, NextListed(r)
  PROVE  RepliesInOrder'
BY DEF TypeOK, RunsTyped, RepliesInOrder, NextListed, Go, NoFrame

LEMMA RepliesRunSteps ==
  ASSUME TypeOK, RepliesInOrder, NEW r \in Runs, RunStep(r) \/ Crash(r)
  PROVE  RepliesInOrder'
<1>f. frame[r] \in Frame BY DEF TypeOK, RunsTyped
<1>n. pc[r] \notin {"record", "suppress"} => frame[r].reply = "none"
  BY DEF RepliesInOrder
<1>1. CASE Start(r) \/ RunGate(r)
  BY <1>1, ContinueReplies, StopReplies DEF Start, RunGate, NoFrame
<1>2. CASE ListStale(r) \/ PlanBudget(r) \/ ListDue(r) \/ TakeNext(r) \/ Reserve(r)
  BY <1>2 DEF ListStale, PlanBudget, ListDue, TakeNext, Reserve, Go, RepliesInOrder,
     TypeOK, RunsTyped
<1>3. CASE EndOfList(r) \/ GiveBackAndStop(r) \/ RecordTooLate(r) \/ Crash(r)
           \/ GateRaises(r)
  BY <1>3, StopReplies
  DEF EndOfList, GiveBackAndStop, RecordTooLate, Crash, GateRaises
<1>4. CASE UndoReserve(r) \/ GiveBack(r)
  BY <1>4, NextListedReplies DEF UndoReserve, GiveBack
<1>5. CASE ClaimLost(r) \/ SuppressRefused(r)
  BY <1>5, ReturnReplies DEF ClaimLost, SuppressRefused
<1>6. CASE Read(r)
  <2>1. [frame[r] EXCEPT !.from = status[msg[r]], !.seen = channel].reply = "none"
    BY <1>6, <1>f, <1>n DEF Read, Frame
  <2> QED BY <1>6, <2>1, ContinueReplies, ReturnReplies DEF Read
<1>7. CASE Check(r)
  <2>1. [frame[r] EXCEPT !.refusal = Refusal(msg[r])].reply = "none"
    BY <1>7, <1>f, <1>n DEF Check, Frame
  <2> QED BY <1>7, <2>1, ContinueReplies DEF Check, NoFrame
<1>8. CASE Claim(r)
  <2>1. [frame[r] EXCEPT !.since = {channel}].reply = "none"
    BY <1>8, <1>f, <1>n DEF Claim, Frame
  <2> QED BY <1>8, <2>1, ContinueReplies DEF Claim
<1>9. CASE Reread(r)
  <2>1. [frame[r] EXCEPT !.claimed = channel, !.tries = attempts[msg[r]]].reply = "none"
    BY <1>9, <1>f, <1>n DEF Reread, Frame
  <2> QED BY <1>9, <2>1, ContinueReplies DEF Reread
<1>10. CASE GateDefers(r) BY <1>10, <1>n, ContinueReplies, ReturnReplies DEF GateDefers
<1>11. CASE AlertLive(r) BY <1>11, StopReplies, ReturnReplies DEF AlertLive
<1>12. CASE GateFinishes(r) BY <1>12, StopReplies, ReturnReplies DEF GateFinishes
<1>13. CASE GateOpens(r) BY <1>13, <1>n, ContinueReplies DEF GateOpens
<1>14. CASE Transmit(r)
  <2>1. PICK reply : Continue(r, "record", [frame[r] EXCEPT !.reply = reply])
    BY <1>14 DEF Transmit
  <2> QED BY <2>1, ContinueReplies
<1>15. CASE Record(r)
  <2>1. Outcome(frame[r]) = "failed" => frame[r].reply /= "accepted" BY DEF Outcome
  <2> QED BY <1>15, <2>1, ContinueReplies, ReturnReplies, NextListedReplies DEF Record
<1>16. CASE Sweep(r) BY <1>16 DEF Sweep, RepliesInOrder
<1> QED BY <1>1, <1>2, <1>3, <1>4, <1>5, <1>6, <1>7, <1>8, <1>9, <1>10, <1>11, <1>12,
           <1>13, <1>14, <1>15, <1>16 DEF RunStep

\* Only an operator's change of the channel reaches into a frame, for its history.
LEMMA FramesOfOthers ==
  ASSUME TypeOK, Others
  PROVE  /\ UNCHANGED <<pc, msg, place>>
         /\ \A q \in Runs : frame'[q].reply = frame[q].reply
<1>1. CASE \E c \in Configurations : SetMode(c)
  <2>1. PICK c \in Configurations : SetMode(c) BY <1>1
  <2>2. ASSUME NEW q \in Runs PROVE frame'[q].reply = frame[q].reply
    <3>1. [frame[q] EXCEPT !.since = @ \cup {c}].reply = frame[q].reply
      BY DEF TypeOK, RunsTyped, Frame
    <3> QED BY <2>1, <3>1 DEF SetMode
  <2> QED BY <2>1, <2>2 DEF SetMode
<1>2. CASE \E m \in Messages :
             Accept(m) \/ ComesDue(m) \/ ClaimAges(m) \/ HardBounce(m) \/ SoftBounce(m)
  BY <1>2 DEF Accept, ComesDue, ClaimAges, HardBounce, SoftBounce, local
<1>3. CASE \E t \in Threads : ThreadChanges(t)
  BY <1>3 DEF ThreadChanges, local
<1> QED BY <1>1, <1>2, <1>3 DEF Others

LEMMA RepliesStep == TypeOK /\ RepliesInOrder /\ [Next]_vars => RepliesInOrder'
<1> SUFFICES ASSUME TypeOK, RepliesInOrder, [Next]_vars PROVE RepliesInOrder' OBVIOUS
<1>1. CASE \E r \in Runs : RunStep(r) \/ Crash(r) BY <1>1, RepliesRunSteps
<1>2. CASE Others BY <1>2, FramesOfOthers DEF RepliesInOrder
<1>3. CASE UNCHANGED vars BY <1>3 DEF vars, local, RepliesInOrder
<1> QED BY <1>1, <1>2, <1>3 DEF Next

-----------------------------------------------------------------------------
\* The steps that move rows, sorted.

LEMMA SettlingSteps ==
  ASSUME TypeOK, RepliesInOrder, NEW r \in Runs,
         GateDefers(r) \/ GateFinishes(r) \/ GateRaises(r) \/ Record(r)
  PROVE  Quiet \/ \E s \in Statuses : Settles(r, s)
<1> USE DEF Settles, OnlyOutcome, history
<1>f. frame[r] \in Frame BY DEF TypeOK, RunsTyped
<1>h. InFlight(r)
  BY DEF GateDefers, GateFinishes, GateRaises, Record, InFlight
<1>m. msg[r] \in Messages BY <1>h DEF InFlight, TypeOK, Delivering
<1>n. pc[r] = "gate" => frame[r].reply = "none" BY DEF RepliesInOrder
<1>r. ASSUME Release(r), pc[r] = "gate"
      PROVE  \E s \in Statuses :
               /\ status' = [status EXCEPT ![msg[r]] = s]
               /\ s = status[msg[r]] \/ s \in DueStatuses
  <2>1. frame[r].from \in DueStatuses BY <1>f DEF Frame
  <2>2. CASE status[msg[r]] = "sending"
    BY <1>r, <1>m, <2>1, <2>2 DEF Release, Statuses, DueStatuses
  <2>3. CASE status[msg[r]] /= "sending"
    BY <1>r, <1>m, <2>3 DEF Release, TypeOK, RowsTyped
  <2> QED BY <2>2, <2>3
<1>1. CASE GateDefers(r)
  <2>1. (\A q \in Runs : KeepsClaim(q)) /\ ~InFlight(r)'
    <3>1. CASE Continue(r, "alert", frame[r])
      BY <3>1, ContinueKeeps DEF Continue, Go, InFlight, TypeOK, RunsTyped
    <3> QED BY <1>1, <3>1, ReturnKeeps DEF GateDefers
  <2>2. PICK s \in Statuses :
          /\ status' = [status EXCEPT ![msg[r]] = s]
          /\ s = status[msg[r]] \/ s \in DueStatuses
    BY <1>1, <1>r DEF GateDefers
  <2> QED BY <1>1, <1>h, <1>n, <2>1, <2>2 DEF GateDefers, DueStatuses
<1>2. CASE GateFinishes(r)
  <2>1. (\A q \in Runs : KeepsClaim(q)) /\ ~InFlight(r)'
    BY <1>2, ReturnKeeps, StopKeeps DEF GateFinishes
  <2>2. CASE UNCHANGED status
    BY <1>2, <2>1, <2>2 DEF GateFinishes, Quiet
  <2>3. CASE Finish(msg[r], Verdict(frame[r]))
    <3>1. Verdict(frame[r]) \in {"suppressed", "skipped", "would_send"}
      BY <1>2, <1>f DEF GateFinishes, Verdict, DeliveryOutcomes, Frame
    <3> QED BY <1>2, <1>h, <1>n, <2>1, <2>3, <3>1
      DEF GateFinishes, Finish, CompareAndSet, Statuses
  <2> QED BY <1>2, <2>2, <2>3 DEF GateFinishes
<1>3. CASE GateRaises(r)
  <2>1. (\A q \in Runs : KeepsClaim(q)) /\ ~InFlight(r)'
    BY <1>3, StopKeeps DEF GateRaises
  <2>2. PICK s \in Statuses :
          /\ status' = [status EXCEPT ![msg[r]] = s]
          /\ s = status[msg[r]] \/ s \in DueStatuses
    BY <1>3, <1>r DEF GateRaises
  <2> QED BY <1>3, <1>h, <1>n, <2>1, <2>2 DEF GateRaises, DueStatuses
<1>4. CASE Record(r)
  <2>1. (\A q \in Runs : KeepsClaim(q)) /\ ~InFlight(r)'
    <3>1. CASE Continue(r, "suppress", frame[r])
      BY <3>1, ContinueKeeps DEF Continue, Go, InFlight, TypeOK, RunsTyped
    <3> QED BY <1>4, <3>1, ReturnKeeps, NextListedKeeps DEF Record
  <2>2. /\ Outcome(frame[r]) \in {"sent", "scheduled", "failed"}
        /\ Outcome(frame[r]) = "sent" => frame[r].reply = "accepted"
        /\ Outcome(frame[r]) = "scheduled" => frame[r].reply /= "accepted"
    BY DEF Outcome
  <2>3. status' = [status EXCEPT ![msg[r]] = Outcome(frame[r])]
    BY <1>4 DEF Record, Finish, CompareAndSet
  <2>4. UNCHANGED <<copies, lost, retried>> BY <1>4 DEF Record
  <2> QED BY <1>h, <2>1, <2>2, <2>3, <2>4 DEF Statuses
<1> QED BY <1>1, <1>2, <1>3, <1>4

LEMMA SweepStep ==
  ASSUME TypeOK, NEW r \in Runs, Sweep(r)
  PROVE  Quiet \/ \E m \in Messages : Fails(m)
<1>1. PICK m \in todo[r] :
        \/ Finish(m, StaleOutcome)
        \/ UNCHANGED <<status, halted>>
  BY DEF Sweep
<1>2. m \in Messages BY DEF TypeOK, RunsTyped
<1>3. UNCHANGED <<copies, lost, retried>> BY DEF Sweep, OnlyOutcome, history
<1>4. \A q \in Runs : KeepsClaim(q) BY DEF Sweep, KeepsClaim, InFlight
<1> QED BY <1>1, <1>2, <1>3, <1>4
  DEF Quiet, Fails, Finish, CompareAndSet, StaleOutcome

LEMMA ClaimStep ==
  ASSUME TypeOK, RepliesInOrder, NEW r \in Runs, Claim(r)
  PROVE  Claims(r)
<1>1. frame[r] \in Frame /\ frame[r].reply = "none"
  BY DEF TypeOK, RunsTyped, RepliesInOrder, Claim
<1>2. [frame[r] EXCEPT !.since = {channel}].reply = "none" BY <1>1 DEF Frame
<1>3. ~InFlight(r) /\ msg[r] \in Messages /\ msg' = msg
  BY DEF Claim, Continue, InFlight, TypeOK, Delivering
<1>4. frame'[r].reply /= "accepted"
  BY <1>2 DEF Claim, Continue, TypeOK, RunsTyped
<1>5. /\ status[msg[r]] \in DueStatuses
      /\ status' = [status EXCEPT ![msg[r]] = "sending"]
  BY <1>1 DEF Claim, CompareAndSet, Frame
<1>6. \A q \in Runs \ {r} : KeepsClaim(q)
  BY DEF Claim, Continue, Go, KeepsClaim, InFlight, TypeOK, RunsTyped
<1>7. UNCHANGED <<copies, lost, retried>> BY DEF Claim, history
<1> QED BY <1>3, <1>4, <1>5, <1>6, <1>7 DEF Claims

LEMMA TransmitStep ==
  ASSUME TypeOK, RepliesInOrder, NEW r \in Runs, Transmit(r)
  PROVE  Hands(r)
<1>1. PICK reply \in {"accepted", "no_recipient", "permanent", "temporary"},
           taken \in BOOLEAN :
        /\ reply = "accepted" => taken
        /\ copies' = [copies EXCEPT ![msg[r]] = IF taken THEN @ + 1 ELSE @]
        /\ lost' = [lost EXCEPT ![msg[r]] = IF taken /\ reply /= "accepted" THEN @ + 1 ELSE @]
        /\ Continue(r, "record", [frame[r] EXCEPT !.reply = reply])
  BY DEF Transmit
<1>2. frame'[r].reply = reply
  <2>1. [frame[r] EXCEPT !.reply = reply].reply = reply BY DEF TypeOK, RunsTyped, Frame
  <2> QED BY <1>1, <2>1 DEF Continue, TypeOK, RunsTyped
<1>3. InFlight(r) /\ msg[r] \in Messages /\ frame[r].reply /= "accepted"
  BY DEF Transmit, InFlight, TypeOK, Delivering, RepliesInOrder
<1>4. msg' = msg BY <1>1 DEF Continue
<1>5. \A q \in Runs \ {r} : KeepsClaim(q)
  BY <1>1 DEF Continue, Go, KeepsClaim, InFlight, TypeOK, RunsTyped
<1>6. ASSUME NEW m \in Messages
      PROVE Handed(m)' = Handed(m) + (IF m = msg[r] /\ frame'[r].reply = "accepted"
                                      THEN 1 ELSE 0)
  <2>1. copies[m] \in Nat /\ lost[m] \in Nat BY DEF TypeOK, HistoryTyped
  <2>2. copies'[m] = IF m = msg[r] /\ taken THEN copies[m] + 1 ELSE copies[m]
    BY <1>1 DEF TypeOK, HistoryTyped
  <2>3. lost'[m] = IF m = msg[r] /\ taken /\ reply /= "accepted" THEN lost[m] + 1 ELSE lost[m]
    BY <1>1 DEF TypeOK, HistoryTyped
  <2> QED BY <1>1, <1>2, <2>1, <2>2, <2>3 DEF Handed
<1>7. UNCHANGED <<status, retried>> BY DEF Transmit, rows
<1> QED BY <1>3, <1>4, <1>5, <1>6, <1>7 DEF Hands

LEMMA OtherSteps ==
  ASSUME TypeOK, Others
  PROVE  Quiet \/ \E m \in Messages : Fails(m) \/ Readies(m)
<1>1. \A q \in Runs : KeepsClaim(q)
  BY FramesOfOthers DEF KeepsClaim, InFlight
<1>2. UNCHANGED <<copies, lost>>
  BY DEF Others, Accept, ComesDue, ClaimAges, HardBounce, SoftBounce, ThreadChanges,
     SetMode, NotSending, history
<1>3. ASSUME NEW m \in Messages, Accept(m) PROVE Readies(m)
  BY <1>1, <1>2, <1>3 DEF Accept, CompareAndSet, Readies
<1>4. ASSUME NEW m \in Messages, HardBounce(m) PROVE Quiet \/ Fails(m)
  <2>1. CASE Legal(status[m], "failed")
    BY <1>1, <1>2, <1>4, <2>1 DEF HardBounce, Bounced, Fails, Legal
  <2>2. CASE ~Legal(status[m], "failed")
    BY <1>1, <1>2, <1>4, <2>2 DEF HardBounce, Bounced, Quiet, TypeOK, RowsTyped
  <2> QED BY <2>1, <2>2
<1>5. ASSUME NEW m \in Messages, SoftBounce(m) PROVE Fails(m) \/ Readies(m)
  <2>1. CASE retried[m]
    BY <1>1, <1>2, <1>5, <2>1 DEF SoftBounce, CompareAndSet, Fails, TypeOK, RowsTyped
  <2>2. CASE ~retried[m]
    BY <1>1, <1>2, <1>5, <2>2 DEF SoftBounce, CompareAndSet, Readies
  <2> QED BY <2>1, <2>2
<1>6. CASE \E m \in Messages : ComesDue(m) \/ ClaimAges(m)
  BY <1>1, <1>2, <1>6 DEF ComesDue, ClaimAges, Quiet
<1>7. CASE \E t \in Threads : ThreadChanges(t)
  BY <1>1, <1>2, <1>7 DEF ThreadChanges, Quiet
<1>8. CASE \E c \in Configurations : SetMode(c)
  BY <1>1, <1>2, <1>8 DEF SetMode, Quiet
<1> QED BY <1>3, <1>4, <1>5, <1>6, <1>7, <1>8 DEF Others

\* A run's step with its alert raising, the one that releases a claim it does not
\* hold, is excluded where the cache behind notify_once is dependable.
LEMMA AlertStep ==
  ASSUME TypeOK, ~AlertsRaise, NEW r \in Runs, AlertLive(r)
  PROVE  Quiet
BY ReturnKeeps DEF AlertLive, OnlyOutcome, history, Quiet

LEMMA StepsSorted ==
  ASSUME TypeOK, RepliesInOrder, ~AlertsRaise, [Next]_vars
  PROVE  \/ Quiet
         \/ \E m \in Messages : Fails(m) \/ Readies(m)
         \/ \E r \in Runs : Claims(r) \/ Hands(r) \/ \E s \in Statuses : Settles(r, s)
<1>1. CASE \E r \in Runs : RunStep(r) \/ Crash(r)
  <2>1. PICK r \in Runs : RunStep(r) \/ Crash(r) BY <1>1
  <2> QED BY <2>1, QuietSteps, SettlingSteps, SweepStep, ClaimStep, TransmitStep, AlertStep
    DEF RunStep
<1>2. CASE Others BY <1>2, OtherSteps
<1>3. CASE UNCHANGED vars
  BY <1>3 DEF vars, rows, local, history, Quiet, KeepsClaim, InFlight
<1> QED BY <1>1, <1>2, <1>3 DEF Next

-----------------------------------------------------------------------------
\* Exclusion and send-once.

LEMMA MessageAtHand == ASSUME TypeOK, NEW q \in Runs, InFlight(q) PROVE msg[q] \in Messages
BY DEF TypeOK, InFlight, Delivering

LEMMA ExclusionStep ==
  ASSUME ExclusionInv, RepliesInOrder, ~AlertsRaise, [Next]_vars
  PROVE  ClaimsHeld' /\ ClaimExclusive'
<1> USE DEF ExclusionInv
<1>s. status \in [Messages -> Statuses] BY DEF TypeOK, RowsTyped
<1>m. \A q \in Runs : InFlight(q) => msg[q] \in Messages BY MessageAtHand
<1>1. CASE Quiet
  BY <1>1, <1>m DEF Quiet, KeepsClaim, ClaimsHeld, ClaimExclusive
<1>2. ASSUME NEW m \in Messages, Fails(m) PROVE ClaimsHeld' /\ ClaimExclusive'
  BY <1>2, <1>m, <1>s DEF Fails, KeepsClaim, ClaimsHeld, ClaimExclusive
<1>3. ASSUME NEW m \in Messages, Readies(m) PROVE ClaimsHeld' /\ ClaimExclusive'
  BY <1>3, <1>m, <1>s DEF Readies, KeepsClaim, ClaimsHeld, ClaimExclusive
<1>4. ASSUME NEW r \in Runs, Claims(r) PROVE ClaimsHeld' /\ ClaimExclusive'
  <2>1. \A q \in Runs \ {r} : InFlight(q)' => InFlight(q) /\ msg[q] /= msg[r]
    BY <1>4, <1>m DEF Claims, KeepsClaim, ClaimsHeld, DueStatuses
  <2>2. ClaimExclusive' BY <1>4, <2>1 DEF Claims, KeepsClaim, ClaimExclusive
  <2>3. \A q \in Runs \ {r} : InFlight(q)' => status'[msg'[q]] \in {"sending", "failed"}
    BY <1>4, <2>1, <1>m, <1>s DEF Claims, KeepsClaim, ClaimsHeld
  <2> QED BY <1>4, <1>s, <2>2, <2>3 DEF Claims, ClaimsHeld
<1>5. ASSUME NEW r \in Runs, Hands(r) PROVE ClaimsHeld' /\ ClaimExclusive'
  BY <1>5, <1>m DEF Hands, KeepsClaim, ClaimsHeld, ClaimExclusive
<1>6. ASSUME NEW r \in Runs, NEW s \in Statuses, Settles(r, s)
      PROVE  ClaimsHeld' /\ ClaimExclusive'
  <2>1. \A q \in Runs : InFlight(q)' => InFlight(q) /\ msg[q] /= msg[r]
    BY <1>6, <1>m DEF Settles, KeepsClaim, ClaimExclusive
  <2>2. ClaimExclusive' BY <1>6 DEF Settles, KeepsClaim, ClaimExclusive
  <2>3. \A q \in Runs : InFlight(q)' => status'[msg'[q]] \in {"sending", "failed"}
    BY <1>6, <2>1, <1>m, <1>s DEF Settles, KeepsClaim, ClaimsHeld
  <2> QED BY <2>2, <2>3 DEF ClaimsHeld
<1> QED BY <1>1, <1>2, <1>3, <1>4, <1>5, <1>6, StepsSorted

LEMMA CountsTyped ==
  ASSUME TypeOK PROVE \A m \in Messages : Handed(m) \in Int /\ Allowed(m) \in {1, 2}
BY DEF TypeOK, HistoryTyped, Handed, Allowed

\* The part of the argument that counts, one fact per class of steps.
CountsInv == WithinAllowance /\ OneToGo /\ OutcomeTruthful

LEMMA SendOnceStep ==
  ASSUME SendOnceInv, ~AlertsRaise, [Next]_vars
  PROVE  CountsInv'
<1> USE DEF SendOnceInv, ExclusionInv, CountsInv
<1>s. status \in [Messages -> Statuses] BY DEF TypeOK, RowsTyped
<1>m. \A q \in Runs : InFlight(q) => msg[q] \in Messages BY MessageAtHand
<1>c. \A m \in Messages : Handed(m) \in Int /\ Allowed(m) \in {1, 2} BY CountsTyped
<1>1. CASE Quiet
  <2>1. \A m \in Messages : Handed(m)' = Handed(m) /\ Allowed(m)' = Allowed(m)
    BY <1>1 DEF Quiet, Handed, Allowed
  <2>2. WithinAllowance' /\ OutcomeTruthful'
    BY <1>1, <2>1 DEF Quiet, WithinAllowance, OutcomeTruthful
  <2>3. OneToGo' BY <1>1, <2>1, <1>m DEF Quiet, KeepsClaim, OneToGo
  <2> QED BY <2>2, <2>3
<1>2. ASSUME NEW m \in Messages, Fails(m) PROVE CountsInv'
  <2>1. \A n \in Messages : Handed(n)' = Handed(n) /\ Allowed(n)' = Allowed(n)
    BY <1>2 DEF Fails, Handed, Allowed
  <2>2. WithinAllowance' BY <2>1 DEF WithinAllowance
  <2>3. OutcomeTruthful' BY <1>2, <1>s, <2>1 DEF Fails, OutcomeTruthful
  <2>4. OneToGo' BY <1>2, <1>s, <2>1, <1>m DEF Fails, KeepsClaim, OneToGo
  <2> QED BY <2>2, <2>3, <2>4
<1>3. ASSUME NEW m \in Messages, Readies(m) PROVE CountsInv'
  <2>1. \A n \in Messages : Handed(n)' = Handed(n)
    BY <1>3 DEF Readies, Handed
  <2>2. \A n \in Messages \ {m} : Allowed(n)' = Allowed(n)
    BY <1>3 DEF Readies, Allowed, TypeOK, RowsTyped
  <2>3. \/ Allowed(m)' = Allowed(m) /\ Handed(m) < Allowed(m) /\ status'[m] = "approved"
        \/ /\ Allowed(m)' = Allowed(m) + 1 /\ Handed(m) = Allowed(m)
           /\ status'[m] = "scheduled"
    BY <1>3, <1>s DEF Readies, Allowed, OneToGo, OutcomeTruthful, TypeOK, RowsTyped
  <2>4. WithinAllowance'
    BY <1>c, <2>1, <2>2, <2>3 DEF WithinAllowance
  <2>5. OutcomeTruthful' BY <1>3, <1>s, <2>1, <2>2, <2>3 DEF Readies, OutcomeTruthful
  <2>6. \A q \in Runs : InFlight(q)' => InFlight(q) /\ msg[q] /= m
    BY <1>3 DEF Readies, KeepsClaim, ClaimsHeld
  <2>7. OneToGo'
    BY <1>3, <1>s, <1>c, <1>m, <2>1, <2>2, <2>3, <2>6 DEF Readies, KeepsClaim, OneToGo
  <2> QED BY <2>4, <2>5, <2>7
<1>4. ASSUME NEW r \in Runs, Claims(r) PROVE CountsInv'
  <2>1. \A m \in Messages : Handed(m)' = Handed(m) /\ Allowed(m)' = Allowed(m)
    BY <1>4 DEF Claims, Handed, Allowed
  <2>2. WithinAllowance' BY <2>1 DEF WithinAllowance
  <2>3. OutcomeTruthful' BY <1>4, <1>s, <2>1 DEF Claims, OutcomeTruthful
  <2>4. \A q \in Runs \ {r} : InFlight(q)' => InFlight(q)
    BY <1>4 DEF Claims, KeepsClaim
  <2>5. OneToGo'
    BY <1>4, <1>s, <1>m, <2>1, <2>4 DEF Claims, KeepsClaim, OneToGo, DueStatuses
  <2> QED BY <2>2, <2>3, <2>5
<1>5. ASSUME NEW r \in Runs, Hands(r) PROVE CountsInv'
  <2>0. \A m \in Messages : Allowed(m)' = Allowed(m) BY <1>5 DEF Hands, Allowed
  <2>1. Handed(msg[r]) < Allowed(msg[r]) /\ Handed(msg[r]) >= Allowed(msg[r]) - 1
    BY <1>5 DEF Hands, OneToGo, WithinAllowance
  <2>2. \A m \in Messages \ {msg[r]} : Handed(m)' = Handed(m)
    BY <1>5, <1>c DEF Hands
  <2>3. Handed(msg[r])' =
          Handed(msg[r]) + (IF frame'[r].reply = "accepted" THEN 1 ELSE 0)
    BY <1>5 DEF Hands
  <2>4. status[msg[r]] \in {"sending", "failed"} /\ status' = status
    BY <1>5 DEF Hands, ClaimsHeld
  <2>5. WithinAllowance'
    BY <1>5, <1>c, <2>0, <2>1, <2>2, <2>3 DEF Hands, WithinAllowance
  <2>6. OutcomeTruthful' BY <2>0, <2>2, <2>4 DEF OutcomeTruthful
  <2>7. \A q \in Runs \ {r} : InFlight(q)' => InFlight(q) /\ msg[q] /= msg[r]
    BY <1>5 DEF Hands, KeepsClaim, ClaimExclusive
  <2>8. OneToGo'
    <3>1. \A m \in Messages : status'[m] \in {"review_required", "approved", "scheduled"}
            => (Handed(m) < Allowed(m))'
      BY <2>0, <2>2, <2>4 DEF OneToGo
    <3>2. ASSUME NEW q \in Runs, InFlight(q)', q /= r
          PROVE  IF frame'[q].reply = "accepted"
                 THEN (Handed(msg[q]) = Allowed(msg[q]))'
                 ELSE (Handed(msg[q]) < Allowed(msg[q]))'
      BY <1>5, <1>m, <2>0, <2>2, <2>7, <3>2 DEF Hands, KeepsClaim, OneToGo
    <3>3. IF frame'[r].reply = "accepted"
          THEN (Handed(msg[r]) = Allowed(msg[r]))'
          ELSE (Handed(msg[r]) < Allowed(msg[r]))'
      BY <1>5, <1>c, <2>0, <2>1, <2>3 DEF Hands
    <3> QED BY <3>1, <3>2, <3>3 DEF OneToGo
  <2> QED BY <2>5, <2>6, <2>8
<1>6. ASSUME NEW r \in Runs, NEW s \in Statuses, Settles(r, s) PROVE CountsInv'
  <2>1. \A m \in Messages : Handed(m)' = Handed(m) /\ Allowed(m)' = Allowed(m)
    BY <1>6 DEF Settles, Handed, Allowed
  <2>2. msg[r] \in Messages /\ status[msg[r]] \in {"sending", "failed"}
    BY <1>6, <1>m DEF Settles, ClaimsHeld
  <2>3. IF frame[r].reply = "accepted"
        THEN Handed(msg[r]) = Allowed(msg[r]) ELSE Handed(msg[r]) < Allowed(msg[r])
    BY <1>6 DEF Settles, OneToGo
  <2>4. WithinAllowance' BY <2>1 DEF WithinAllowance
  <2>5. OutcomeTruthful'
    BY <1>6, <1>s, <2>1, <2>2, <2>3 DEF Settles, OutcomeTruthful
  <2>6. OneToGo'
    BY <1>6, <1>s, <1>m, <2>1, <2>2, <2>3 DEF Settles, KeepsClaim, OneToGo
  <2> QED BY <2>4, <2>5, <2>6
<1> QED BY <1>1, <1>2, <1>3, <1>4, <1>5, <1>6, StepsSorted

LEMMA SendOnceInit == Init => SendOnceInv
<1> SUFFICES ASSUME Init PROVE SendOnceInv OBVIOUS
<1>1. TypeOK BY TypeOKInit
<1>2. ClaimsHeld /\ ClaimExclusive /\ RepliesInOrder
  BY DEF Init, ClaimsHeld, ClaimExclusive, InFlight, RepliesInOrder, NoFrame
<1>3. \A m \in Messages : Handed(m) = 0 /\ Allowed(m) = 1
  BY DEF Init, Handed, Allowed
<1>4. CountsInv
  BY <1>3 DEF Init, CountsInv, WithinAllowance, OneToGo, OutcomeTruthful, InFlight
<1> QED BY <1>1, <1>2, <1>4 DEF SendOnceInv, ExclusionInv, CountsInv

LEMMA SendOnceInductive == ~AlertsRaise /\ SendOnceInv /\ [Next]_vars => SendOnceInv'
BY TypeOKStep, RepliesStep, ExclusionStep, SendOnceStep
DEF SendOnceInv, ExclusionInv, CountsInv

LEMMA SendOnceInvariant == ASSUME ~AlertsRaise PROVE Spec => []SendOnceInv
<1>1. SendOnceInv /\ [Next]_vars => SendOnceInv' BY SendOnceInductive
<1> QED BY <1>1, SendOnceInit, PTL DEF Spec

\* No two runs hold a message between its claim and its outcome, however runs
\* overlap, crash, are swept or bounced, as long as the alert of a refused live
\* send does not raise (claim_for_sending, release_claim, fail_stale_sending).
THEOREM ClaimIsExclusive == ASSUME ~AlertsRaise PROVE Spec => []ClaimExclusive
<1>1. SendOnceInv => ClaimExclusive BY DEF SendOnceInv, ExclusionInv
<1> QED BY <1>1, SendOnceInvariant, PTL

\* No message is taken and reported by the mail server twice, save once more
\* after a soft bounce (delivery_service.deliver).
THEOREM MessagesSentOnce == ASSUME ~AlertsRaise PROVE Spec => []SendsOnce
<1>1. SendOnceInv => SendsOnce BY DEF SendOnceInv, WithinAllowance, SendsOnce
<1> QED BY <1>1, SendOnceInvariant, PTL

\* `sent` means that the copy allowed last was taken, and a refused, skipped or
\* dry-run message did not leave (_finish, _send).
THEOREM OutcomesTruthful == ASSUME ~AlertsRaise PROVE Spec => []OutcomeTruthful
<1>1. SendOnceInv => OutcomeTruthful BY DEF SendOnceInv
<1> QED BY <1>1, SendOnceInvariant, PTL

-----------------------------------------------------------------------------
\* The send path implements SendOnce.

LEMMA PromiseInit == Init => Promise!Init
BY DEF Init, Promise!Init, Handed, Allowed

LEMMA PromiseStep ==
  ASSUME SendOnceInv, ~AlertsRaise, [Next]_vars
  PROVE  [Promise!Next]_(<<[m \in Messages |-> Handed(m)], [m \in Messages |-> Allowed(m)]>>)
<1> USE DEF SendOnceInv, ExclusionInv
<1> DEFINE handed == [m \in Messages |-> Handed(m)]
           allowed == [m \in Messages |-> Allowed(m)]
<1>c. \A m \in Messages : Handed(m) \in Int /\ Allowed(m) \in {1, 2} BY CountsTyped
<1>1. CASE UNCHANGED <<copies, lost, retried>>
  <2>1. UNCHANGED <<handed, allowed>> BY <1>1 DEF Handed, Allowed
  <2> QED BY <2>1
<1>2. ASSUME NEW m \in Messages, Readies(m), retried' /= retried
      PROVE  Promise!AllowRetry(m)
  <2>1. /\ status[m] = "sent" /\ ~retried[m]
        /\ retried' = [retried EXCEPT ![m] = TRUE]
        /\ UNCHANGED <<copies, lost>>
    BY <1>2 DEF Readies
  <2>2. Handed(m) = 1 /\ Allowed(m) = 1
    BY <2>1 DEF OutcomeTruthful, Allowed
  <2>3. handed' = handed BY <2>1 DEF Handed
  <2>4. allowed' = [allowed EXCEPT ![m] = 2]
    BY <2>1 DEF Allowed, TypeOK, RowsTyped
  <2> QED BY <2>2, <2>3, <2>4 DEF Promise!AllowRetry
<1>3. ASSUME NEW r \in Runs, Hands(r)
      PROVE  \/ Promise!HandOver(msg[r])
             \/ UNCHANGED <<handed, allowed>>
  <2>1. allowed' = allowed BY <1>3 DEF Hands, Allowed
  <2>2. Handed(msg[r]) < Allowed(msg[r]) BY <1>3 DEF Hands, OneToGo
  <2>3. \A m \in Messages :
          Handed(m)' = Handed(m) + (IF m = msg[r] /\ frame'[r].reply = "accepted"
                                    THEN 1 ELSE 0)
    BY <1>3 DEF Hands
  <2>4. CASE frame'[r].reply = "accepted"
    <3>1. handed' = [handed EXCEPT ![msg[r]] = @ + 1]
      BY <1>3, <1>c, <2>3, <2>4 DEF Hands
    <3>2. msg[r] \in Messages BY <1>3 DEF Hands
    <3> QED BY <2>1, <2>2, <3>1, <3>2 DEF Promise!HandOver
  <2>5. CASE frame'[r].reply /= "accepted"
    <3>1. handed' = handed BY <1>c, <2>3, <2>5
    <3> QED BY <2>1, <3>1
  <2> QED BY <2>4, <2>5
<1>4. CASE \E m \in Messages : Readies(m)
  BY <1>1, <1>2, <1>4 DEF Readies, Promise!Next
<1>5. CASE \E r \in Runs : Hands(r)
  BY <1>3, <1>5, MessageAtHand DEF Hands, Promise!Next
<1>6. CASE \/ Quiet \/ \E m \in Messages : Fails(m)
           \/ \E r \in Runs : Claims(r) \/ \E s \in Statuses : Settles(r, s)
  BY <1>1, <1>6 DEF Quiet, Fails, Claims, Settles
<1> QED BY <1>4, <1>5, <1>6, StepsSorted

\* Every behaviour of the send path is one SendOnce allows: besides the bound, a
\* second copy becomes possible only through a bounce of the first (deliver,
\* fail_stale_sending, _soft_bounce).
THEOREM ImplementsSendOnce == ASSUME ~AlertsRaise PROVE Spec => KeepsPromise
<1>1. SendOnceInv /\ [Next]_vars =>
        [Promise!Next]_(<<[m \in Messages |-> Handed(m)], [m \in Messages |-> Allowed(m)]>>)
  BY PromiseStep
<1> QED BY <1>1, PromiseInit, SendOnceInvariant, PTL DEF Spec, KeepsPromise, Promise!Spec
=============================================================================
