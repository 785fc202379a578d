------------------------- MODULE DeliveryGateProofs -------------------------
(***************************************************************************)
(* The edges of a status, the gate before SMTP and the daily cap, proved   *)
(* for every number of messages, threads, runs and faults, every cap and   *)
(* every set of channel configurations - alerts that raise included.       *)
(***************************************************************************)
EXTENDS DeliveryProofs, FiniteSetTheorems

-----------------------------------------------------------------------------
\* The edges of a status.

Edge(m) ==
  status'[m] /= status[m] =>
    /\ \/ Legal(status[m], status'[m])
       \/ status[m] = "sending" /\ status'[m] = "approved"
    /\ status[m] = "sent" /\ status'[m] = "scheduled" => ~retried[m]

LEMMA WrittenOnce ==
  ASSUME TypeOK, NEW m \in Messages, NEW s,
         status' = [status EXCEPT ![m] = s],
         \/ s = status[m] \/ Legal(status[m], s)
         \/ status[m] = "sending" /\ s = "approved",
         status[m] = "sent" /\ s = "scheduled" => ~retried[m]
  PROVE  \A n \in Messages : Edge(n)
BY DEF Edge, TypeOK, RowsTyped

LEMMA EdgesOfRuns ==
  ASSUME TypeOK, NEW r \in Runs, RunStep(r) \/ Crash(r)
  PROVE  \A n \in Messages : Edge(n)
<1>f. frame[r] \in Frame BY DEF TypeOK, RunsTyped
<1>1. CASE UNCHANGED status BY <1>1 DEF Edge
<1>2. ASSUME Release(r), pc[r] \in {"gate", "alert"} PROVE \A n \in Messages : Edge(n)
  <2>1. msg[r] \in Messages /\ frame[r].from \in DueStatuses
    BY <1>2, <1>f DEF TypeOK, Delivering, Frame
  <2> QED BY <1>2, <2>1 DEF Release, Edge, Legal, DueStatuses, TypeOK, RowsTyped
<1>3. CASE GateDefers(r) \/ AlertLive(r) \/ GateRaises(r)
  BY <1>1, <1>2, <1>3 DEF GateDefers, AlertLive, GateRaises
<1>4. CASE Sweep(r)
  <2>1. PICK m \in todo[r] :
          Finish(m, StaleOutcome) \/ UNCHANGED status
    BY <1>4 DEF Sweep
  <2>2. m \in Messages BY DEF TypeOK, RunsTyped
  <2> QED BY <1>1, <2>1, <2>2, WrittenOnce
    DEF Finish, CompareAndSet, StaleOutcome, Legal, DeliveryOutcomes
<1>5. CASE Claim(r)
  <2>1. msg[r] \in Messages /\ frame[r].from \in DueStatuses
    BY <1>5, <1>f DEF Claim, TypeOK, Delivering, Frame
  <2> QED BY <1>5, <2>1, WrittenOnce DEF Claim, CompareAndSet, Legal, DueStatuses
<1>6. CASE GateFinishes(r)
  <2>1. msg[r] \in Messages BY <1>6 DEF GateFinishes, TypeOK, Delivering
  <2> QED BY <1>1, <1>6, <2>1, WrittenOnce DEF GateFinishes, Finish, CompareAndSet, Legal
<1>7. CASE Record(r)
  <2>1. msg[r] \in Messages BY <1>7 DEF Record, TypeOK, Delivering
  <2>2. Outcome(frame[r]) \in {"sent", "scheduled", "failed"} BY DEF Outcome
  <2>3. Finish(msg[r], Outcome(frame[r])) BY <1>7 DEF Record
  <2> QED BY <2>1, <2>2, <2>3, WrittenOnce
    DEF Finish, CompareAndSet, Legal, DeliveryOutcomes
<1>8. CASE Transmit(r) BY <1>1, <1>8 DEF Transmit, rows
<1> QED BY <1>1, <1>3, <1>4, <1>5, <1>6, <1>7, <1>8, QuietSteps DEF RunStep, Quiet

LEMMA EdgesOfOthers == ASSUME TypeOK, Others PROVE \A n \in Messages : Edge(n)
<1>1. ASSUME NEW m \in Messages, Accept(m) PROVE \A n \in Messages : Edge(n)
  BY <1>1, WrittenOnce DEF Accept, CompareAndSet, Legal
<1>2. ASSUME NEW m \in Messages, HardBounce(m) PROVE \A n \in Messages : Edge(n)
  BY <1>2, WrittenOnce DEF HardBounce, Bounced, Legal
<1>3. ASSUME NEW m \in Messages, SoftBounce(m) PROVE \A n \in Messages : Edge(n)
  BY <1>3, WrittenOnce DEF SoftBounce, CompareAndSet, Legal
<1>4. CASE UNCHANGED status BY <1>4 DEF Edge
<1> QED BY <1>1, <1>2, <1>3, <1>4
  DEF Others, ComesDue, ClaimAges, ThreadChanges, SetMode

\* A status moves along an edge of the table or a claim is undone, and `sent`
\* goes back to `scheduled` at most once (transition, release_claim,
\* _transition_logged).
THEOREM StatusMovesLegal == Spec => StatusMoves
<1>1. TypeOK /\ [Next]_vars =>
        [\A m \in Messages : status'[m] /= status[m] =>
           /\ \/ Legal(status[m], status'[m])
              \/ status[m] = "sending" /\ status'[m] = "approved"
           /\ status[m] = "sent" /\ status'[m] = "scheduled" => ~retried[m]]_vars
  BY EdgesOfRuns, EdgesOfOthers DEF Next, Edge
<1> QED BY <1>1, TypeCorrect, PTL DEF Spec, StatusMoves

-----------------------------------------------------------------------------
\* The gate before SMTP.  What a run decided on was in force since its claim, and
\* the decision was to send.

GateInv ==
  \A r \in Runs :
    /\ pc[r] = "reread" => channel \in frame[r].since
    /\ pc[r] \in {"gate", "smtp"} => frame[r].claimed \in frame[r].since
    /\ pc[r] = "smtp" => Verdict(frame[r]) = "send"

\* Of a run, no more than its place in the program and its frame change.
Moves(r, labels) ==
  /\ pc'[r] \in labels
  /\ \A q \in Runs \ {r} : pc'[q] = pc[q] /\ frame'[q] = frame[q]

LEMMA GateLeft ==
  ASSUME GateInv, NEW r \in Runs, UNCHANGED channel,
         Moves(r, Labels \ {"reread", "gate", "smtp"})
  PROVE  GateInv'
BY DEF GateInv, Moves

LEMMA ContinueMoves ==
  ASSUME TypeOK, NEW r \in Runs, NEW label, NEW f, NEW labels, Continue(r, label, f),
         label \in labels
  PROVE  Moves(r, labels) /\ pc'[r] = label /\ frame'[r] = f
BY DEF TypeOK, RunsTyped, Continue, Go, Moves

LEMMA GoMoves ==
  ASSUME TypeOK, NEW r \in Runs, NEW label, NEW labels, Go(r, label), UNCHANGED frame,
         label \in labels
  PROVE  Moves(r, labels)
BY DEF TypeOK, RunsTyped, Go, Moves

LEMMA StopMoves ==
  ASSUME TypeOK, NEW r \in Runs, Stop(r) \/ NextListed(r) \/ Return(r)
  PROVE  Moves(r, {"idle", "next", "giveback"})
BY DEF TypeOK, RunsTyped, Stop, NextListed, Return, Continue, Go, Moves

LEMMA GateRunSteps ==
  ASSUME TypeOK, GateInv, NEW r \in Runs, RunStep(r) \/ Crash(r)
  PROVE  GateInv'
<1>f. frame[r] \in Frame BY DEF TypeOK, RunsTyped
<1>c. UNCHANGED channel
  BY DEF RunStep, Crash, NoEffect, NoRowEffect, OnlyOutcome, Start, ListStale, Sweep,
     RunGate, PlanBudget, ListDue, TakeNext, EndOfList, Reserve, UndoReserve, GiveBack,
     GiveBackAndStop, Read, Check, Claim, ClaimLost, Reread, GateDefers, AlertLive,
     GateFinishes, GateOpens, GateRaises, Transmit, Record, RecordTooLate, SuppressRefused
<1>s. ASSUME Stop(r) \/ NextListed(r) \/ Return(r) PROVE GateInv'
  BY <1>s, <1>c, StopMoves, GateLeft DEF Labels, Moves
<1>k. ASSUME NEW label \in Labels \ {"reread", "gate", "smtp"}, NEW f,
             Continue(r, label, f)
      PROVE  GateInv'
  BY <1>k, <1>c, ContinueMoves, GateLeft
<1>g. ASSUME NEW label \in Labels \ {"reread", "gate", "smtp"}, Go(r, label),
             UNCHANGED frame
      PROVE  GateInv'
  BY <1>g, <1>c, GoMoves, GateLeft
<1>1. CASE Start(r) \/ RunGate(r)
  BY <1>1, <1>k, <1>s DEF Start, RunGate, Labels
<1>2. CASE ListStale(r) \/ PlanBudget(r) \/ ListDue(r)
  BY <1>2, <1>g DEF ListStale, PlanBudget, ListDue, Labels
<1>3. CASE TakeNext(r) BY <1>3, <1>g DEF TakeNext, Labels
<1>4. CASE Reserve(r) BY <1>4, <1>g DEF Reserve, Labels
<1>5. CASE EndOfList(r) \/ UndoReserve(r) \/ GiveBack(r) \/ GiveBackAndStop(r)
           \/ ClaimLost(r) \/ GateFinishes(r) \/ GateRaises(r) \/ RecordTooLate(r)
           \/ SuppressRefused(r) \/ Crash(r) \/ AlertLive(r)
  BY <1>5, <1>s
  DEF EndOfList, UndoReserve, GiveBack, GiveBackAndStop, ClaimLost, GateFinishes,
      GateRaises, RecordTooLate, SuppressRefused, Crash, AlertLive
<1>6. CASE Read(r) BY <1>6, <1>k, <1>s DEF Read, Labels
<1>7. CASE Check(r) BY <1>7, <1>k DEF Check, Labels
<1>8. CASE GateDefers(r) BY <1>8, <1>k, <1>s DEF GateDefers, Labels
<1>9. CASE Record(r) BY <1>9, <1>k, <1>s DEF Record, Labels
<1>10. CASE Transmit(r)
  <2>1. \E reply : Continue(r, "record", [frame[r] EXCEPT !.reply = reply])
    BY <1>10 DEF Transmit
  <2> QED BY <2>1, <1>k DEF Labels
<1>11. CASE Sweep(r) BY <1>11, <1>c DEF Sweep, GateInv
<1>12. CASE Claim(r)
  <2>1. Continue(r, "reread", [frame[r] EXCEPT !.since = {channel}])
    BY <1>12 DEF Claim
  <2>2. /\ pc'[r] = "reread" /\ Moves(r, {"reread"})
        /\ frame'[r] = [frame[r] EXCEPT !.since = {channel}]
    BY <2>1, ContinueMoves
  <2>3. frame'[r].since = {channel} BY <2>2, <1>f DEF Frame
  <2> QED BY <1>c, <2>2, <2>3 DEF Moves, GateInv
<1>13. CASE Reread(r)
  <2>1. Continue(r, "gate",
                 [frame[r] EXCEPT !.claimed = channel, !.tries = attempts[msg[r]]])
    BY <1>13 DEF Reread
  <2>2. /\ pc'[r] = "gate" /\ Moves(r, {"gate"})
        /\ frame'[r] = [frame[r] EXCEPT !.claimed = channel, !.tries = attempts[msg[r]]]
    BY <2>1, ContinueMoves
  <2>3. frame'[r].claimed = channel /\ frame'[r].since = frame[r].since
    BY <2>2, <1>f DEF Frame
  <2>4. channel \in frame[r].since BY <1>13 DEF Reread, GateInv
  <2> QED BY <1>c, <2>2, <2>3, <2>4 DEF Moves, GateInv
<1>14. CASE GateOpens(r)
  <2>1. pc'[r] = "smtp" /\ Moves(r, {"smtp"}) /\ frame'[r] = frame[r]
    BY <1>14, ContinueMoves DEF GateOpens
  <2>2. frame[r].claimed \in frame[r].since /\ Verdict(frame[r]) = "send"
    BY <1>14 DEF GateOpens, GateInv
  <2> QED BY <1>c, <2>1, <2>2 DEF Moves, GateInv
<1> QED BY <1>1, <1>2, <1>3, <1>4, <1>5, <1>6, <1>7, <1>8, <1>9, <1>10, <1>11, <1>12,
           <1>13, <1>14 DEF RunStep

LEMMA GateOthers == ASSUME TypeOK, GateInv, Others PROVE GateInv'
<1>1. CASE UNCHANGED <<pc, frame, channel>> BY <1>1 DEF GateInv
<1>2. ASSUME NEW c \in Configurations, SetMode(c) PROVE GateInv'
  <2>1. pc' = pc /\ channel' = c BY <1>2 DEF SetMode
  <2>2. ASSUME NEW q \in Runs, pc[q] \in {"reread", "gate", "smtp"}
        PROVE  frame'[q] = [frame[q] EXCEPT !.since = @ \cup {c}]
    BY <1>2, <2>2 DEF SetMode, InFlight
  <2>3. ASSUME NEW q \in Runs, pc[q] \in {"reread", "gate", "smtp"}
        PROVE  /\ frame'[q].since = frame[q].since \cup {c}
               /\ frame'[q].claimed = frame[q].claimed
               /\ Verdict(frame'[q]) = Verdict(frame[q])
    <3>1. frame[q] \in Frame BY DEF TypeOK, RunsTyped
    <3> QED BY <2>2, <2>3, <3>1 DEF Frame, Verdict
  <2> QED BY <2>1, <2>3 DEF GateInv
<1> QED BY <1>1, <1>2
  DEF Others, Accept, ComesDue, ClaimAges, HardBounce, SoftBounce, ThreadChanges, local

LEMMA GateInvariant == Spec => []GateInv
<1>1. Init => GateInv BY DEF Init, GateInv
<1>2. TypeOK /\ GateInv /\ [Next]_vars => GateInv'
  <2> SUFFICES ASSUME TypeOK, GateInv, [Next]_vars PROVE GateInv' OBVIOUS
  <2>1. CASE UNCHANGED vars BY <2>1 DEF vars, local, GateInv
  <2> QED BY <2>1, GateRunSteps, GateOthers DEF Next
<1> QED BY <1>1, <1>2, TypeCorrect, PTL DEF Spec

\* A mail reaches SMTP only for the mode and mailbox of a channel configuration in
\* force since the claim that was allowed to send (_before_smtp).
THEOREM MailsFollowTheChannel == Spec => []MailedAsConfigured
<1>1. TypeOK /\ GateInv => MailedAsConfigured
  <2> SUFFICES ASSUME TypeOK, GateInv, NEW r \in Runs, pc[r] = "smtp"
               PROVE \E c \in frame[r].since :
                       Route(c) = Route(frame[r].seen) /\ c.mode /= "dry_run" /\ ~LiveRefused(c)
    BY DEF MailedAsConfigured
  <2>1. frame[r].claimed \in frame[r].since /\ Verdict(frame[r]) = "send" BY DEF GateInv
  <2>2. frame[r].refusal \in {"none", "suppressed", "skipped"}
    BY DEF TypeOK, RunsTyped, Frame
  <2> QED BY <2>1, <2>2 DEF Verdict
<1> QED BY <1>1, GateInvariant, TypeCorrect, PTL

-----------------------------------------------------------------------------
\* The cap.  Every place held or being undone was counted in Redis, and so was
\* every delivery; a place is held only while the count was within the cap.

Holders == {r \in Runs : place[r] /\ frame[r].reply /= "accepted"}
Undoing == {r \in Runs : pc[r] = "undo"}

\* A run holds a place only between its reservation and the end of a delivery.
Holding ==
  {"giveback", "unconfigured", "read", "check", "claim", "reread", "gate", "alert",
   "smtp", "record", "suppress"}
PlaceInDelivery == \A r \in Runs : place[r] => pc[r] \in Holding

Places ==
  /\ counted + Cardinality(Holders) + Cardinality(Undoing) <= counter
  /\ counted + Cardinality(Holders) <= DailyCap

\* The steps, by what they do to the places of a run.
NoPlaceTaken ==
  /\ UNCHANGED <<counter, counted>>
  /\ Holders' \subseteq Holders /\ Undoing' \subseteq Undoing

Reserves(r) ==
  /\ counter' = counter + 1 /\ counted' = counted
  /\ r \notin Holders /\ r \notin Undoing
  /\ \/ counter + 1 <= DailyCap /\ Holders' = Holders \cup {r} /\ Undoing' = Undoing
     \/ Holders' = Holders /\ Undoing' = Undoing \cup {r}

GivesBack(r) ==
  /\ counter' = counter - 1 /\ counted' = counted
  /\ \/ r \in Holders /\ Holders' \subseteq Holders \ {r} /\ Undoing' \subseteq Undoing
     \/ r \in Undoing /\ Holders' \subseteq Holders /\ Undoing' \subseteq Undoing \ {r}

Delivers(r) ==
  /\ counter' = counter /\ counted' = counted + 1
  /\ r \in Holders /\ Holders' \subseteq Holders \ {r} /\ Undoing' \subseteq Undoing

LEMMA PlacesFinite ==
  /\ IsFiniteSet(Holders) /\ Cardinality(Holders) \in Nat
  /\ IsFiniteSet(Undoing) /\ Cardinality(Undoing) \in Nat
BY RunsAssumption, FS_Subset, FS_CardinalityType DEF Holders, Undoing

LEMMA PlacesTyped ==
  ASSUME TypeOK
  PROVE  counter \in Int /\ counted \in Nat /\ DailyCap \in Nat
BY NumbersAssumption DEF TypeOK, SharedTyped, HistoryTyped

LEMMA PlacesKept ==
  ASSUME TypeOK, TypeOK', Places,
         \/ NoPlaceTaken
         \/ \E r \in Runs : Reserves(r) \/ GivesBack(r) \/ Delivers(r)
  PROVE  Places'
<1>t. counter \in Int /\ counted \in Nat /\ DailyCap \in Nat BY PlacesTyped
<1>f. /\ IsFiniteSet(Holders) /\ Cardinality(Holders) \in Nat
      /\ IsFiniteSet(Undoing) /\ Cardinality(Undoing) \in Nat
  BY PlacesFinite
<1>g. /\ IsFiniteSet(Holders') /\ Cardinality(Holders') \in Nat
      /\ IsFiniteSet(Undoing') /\ Cardinality(Undoing') \in Nat
  <2>1. Holders' \subseteq Runs /\ Undoing' \subseteq Runs BY DEF Holders, Undoing
  <2> QED BY <2>1, RunsAssumption, FS_Subset, FS_CardinalityType
<1>1. CASE NoPlaceTaken
  <2>1. /\ Cardinality(Holders') <= Cardinality(Holders)
        /\ Cardinality(Undoing') <= Cardinality(Undoing)
    BY <1>1, <1>f, FS_Subset DEF NoPlaceTaken
  <2>2. counter' = counter /\ counted' = counted BY <1>1 DEF NoPlaceTaken
  <2> QED BY <1>t, <1>f, <1>g, <2>1, <2>2 DEF Places
<1>2. ASSUME NEW r \in Runs, Reserves(r) PROVE Places'
  <2>1. counter' = counter + 1 /\ counted' = counted BY <1>2 DEF Reserves
  <2>2. CASE counter + 1 <= DailyCap /\ Holders' = Holders \cup {r} /\ Undoing' = Undoing
    <3>1. Cardinality(Holders') = Cardinality(Holders) + 1
      BY <1>2, <1>f, <2>2, FS_AddElement DEF Reserves
    <3>2. counter + 1 <= DailyCap /\ Undoing' = Undoing BY <2>2
    <3> QED BY <1>t, <1>f, <1>g, <2>1, <3>1, <3>2 DEF Places
  <2>3. CASE Holders' = Holders /\ Undoing' = Undoing \cup {r}
    <3>1. Cardinality(Undoing') = Cardinality(Undoing) + 1
      BY <1>2, <1>f, <2>3, FS_AddElement DEF Reserves
    <3>2. Holders' = Holders BY <2>3
    <3> QED BY <1>t, <1>f, <1>g, <2>1, <3>1, <3>2 DEF Places
  <2> QED BY <1>2, <2>2, <2>3 DEF Reserves
<1>3. ASSUME NEW r \in Runs, GivesBack(r) PROVE Places'
  <2>1. counter' = counter - 1 /\ counted' = counted BY <1>3 DEF GivesBack
  <2>2. \/ /\ Cardinality(Holders') <= Cardinality(Holders) - 1
           /\ Cardinality(Undoing') <= Cardinality(Undoing)
        \/ /\ Cardinality(Holders') <= Cardinality(Holders)
           /\ Cardinality(Undoing') <= Cardinality(Undoing) - 1
    <3>1. /\ r \in Holders => /\ Cardinality(Holders \ {r}) = Cardinality(Holders) - 1
                              /\ IsFiniteSet(Holders \ {r})
          /\ r \in Undoing => /\ Cardinality(Undoing \ {r}) = Cardinality(Undoing) - 1
                              /\ IsFiniteSet(Undoing \ {r})
      BY <1>f, FS_RemoveElement
    <3>2. CASE r \in Holders /\ Holders' \subseteq Holders \ {r} /\ Undoing' \subseteq Undoing
      BY <1>f, <3>1, <3>2, FS_Subset
    <3>3. CASE r \in Undoing /\ Holders' \subseteq Holders /\ Undoing' \subseteq Undoing \ {r}
      BY <1>f, <3>1, <3>3, FS_Subset
    <3> QED BY <1>3, <3>2, <3>3 DEF GivesBack
  <2> QED BY <1>t, <1>f, <1>g, <2>1, <2>2 DEF Places
<1>4. ASSUME NEW r \in Runs, Delivers(r) PROVE Places'
  <2>1. counter' = counter /\ counted' = counted + 1 BY <1>4 DEF Delivers
  <2>2. /\ Cardinality(Holders') <= Cardinality(Holders) - 1
        /\ Cardinality(Undoing') <= Cardinality(Undoing)
    <3>1. IsFiniteSet(Holders \ {r}) /\ Cardinality(Holders \ {r}) = Cardinality(Holders) - 1
      BY <1>4, <1>f, FS_RemoveElement DEF Delivers
    <3> QED BY <1>4, <1>f, <3>1, FS_Subset DEF Delivers
  <2> QED BY <1>t, <1>f, <1>g, <2>1, <2>2 DEF Places
<1> QED BY <1>1, <1>2, <1>3, <1>4

\* The places after a step of one run.
LEMMA ContinuePlaces ==
  ASSUME TypeOK, PlaceInDelivery, NEW r \in Runs, NEW label, NEW f, Continue(r, label, f),
         label \in Holding \/ (label /= "undo" /\ ~place[r]),
         f.reply /= "accepted" => frame[r].reply /= "accepted"
  PROVE  PlaceInDelivery' /\ Holders' \subseteq Holders /\ Undoing' \subseteq Undoing
BY DEF TypeOK, RunsTyped, PlaceInDelivery, Continue, Go, Holders, Undoing, Holding

LEMMA EndPlaces ==
  ASSUME TypeOK, PlaceInDelivery, NEW r \in Runs, Stop(r) \/ NextListed(r)
  PROVE  /\ PlaceInDelivery'
         /\ Holders' \subseteq Holders \ {r} /\ Undoing' \subseteq Undoing \ {r}
BY DEF TypeOK, RunsTyped, PlaceInDelivery, Stop, NextListed, Go, Holders, Undoing, Holding

\* Where nothing was accepted yet, a delivery may return.
LEMMA ReturnPlaces ==
  ASSUME TypeOK, PlaceInDelivery, NEW r \in Runs, Return(r), frame[r].reply /= "accepted"
  PROVE  PlaceInDelivery' /\ Holders' \subseteq Holders /\ Undoing' \subseteq Undoing
BY ContinuePlaces DEF Return, Holding

\* The steps that neither reserve nor give back nor deliver.
PlaceQuiet == PlaceInDelivery' /\ NoPlaceTaken

LEMMA PlaceQuietSteps ==
  ASSUME TypeOK, RepliesInOrder, PlaceInDelivery, NEW r \in Runs,
         \/ Start(r) \/ ListStale(r) \/ Sweep(r) \/ RunGate(r) \/ PlanBudget(r)
         \/ ListDue(r) \/ TakeNext(r) \/ EndOfList(r) \/ Read(r) \/ Check(r) \/ Claim(r)
         \/ ClaimLost(r) \/ Reread(r) \/ GateDefers(r) \/ AlertLive(r) \/ GateFinishes(r)
         \/ GateOpens(r) \/ GateRaises(r) \/ Record(r) \/ RecordTooLate(r)
         \/ SuppressRefused(r) \/ Crash(r)
  PROVE  PlaceQuiet
<1> USE DEF PlaceQuiet, NoPlaceTaken, NoEffect, NoRowEffect, OnlyOutcome, history
<1>f. frame[r] \in Frame BY DEF TypeOK, RunsTyped
<1>n. /\ pc[r] \notin {"record", "suppress"} => frame[r].reply /= "accepted"
      /\ pc[r] = "suppress" => frame[r].reply /= "accepted"
  BY DEF RepliesInOrder
<1>p. pc[r] \notin Holding => ~place[r] BY DEF PlaceInDelivery
<1>1. CASE Start(r) \/ RunGate(r)
  <2>1. ~place[r] /\ frame[r].reply /= "accepted"
    BY <1>1, <1>n, <1>p DEF Start, RunGate, Holding
  <2> QED BY <1>1, <2>1, ContinuePlaces, EndPlaces DEF Start, RunGate
<1>2. CASE ListStale(r) \/ PlanBudget(r) \/ ListDue(r)
  BY <1>2, <1>p
  DEF ListStale, PlanBudget, ListDue, Go, TypeOK, RunsTyped, PlaceInDelivery, Holders,
      Undoing, Holding
<1>3. CASE TakeNext(r)
  BY <1>3, <1>p
  DEF TakeNext, Go, TypeOK, RunsTyped, PlaceInDelivery, Holders, Undoing, Holding
<1>4. CASE EndOfList(r) \/ GateRaises(r) \/ RecordTooLate(r) \/ Crash(r)
  BY <1>4, EndPlaces DEF EndOfList, GateRaises, RecordTooLate, Crash
<1>5. CASE Read(r) \/ ClaimLost(r) \/ SuppressRefused(r)
  BY <1>5, <1>n, ContinuePlaces, ReturnPlaces DEF Read, ClaimLost, SuppressRefused, Holding
<1>6. CASE Check(r) \/ Claim(r) \/ Reread(r)
  BY <1>6, <1>n, ContinuePlaces DEF Check, Claim, Reread, Holding
<1>7. CASE GateDefers(r) \/ AlertLive(r) \/ GateFinishes(r) \/ GateOpens(r)
  BY <1>7, <1>n, ContinuePlaces, ReturnPlaces, EndPlaces
  DEF GateDefers, AlertLive, GateFinishes, GateOpens, Holding
<1>8. CASE Record(r)
  <2>1. Outcome(frame[r]) = "scheduled" => frame[r].reply /= "accepted" BY DEF Outcome
  <2> QED BY <1>8, <2>1, ContinuePlaces, ReturnPlaces, EndPlaces DEF Record, Holding
<1>9. CASE Sweep(r) BY <1>9 DEF Sweep, PlaceInDelivery, Holders, Undoing
<1> QED BY <1>1, <1>2, <1>3, <1>4, <1>5, <1>6, <1>7, <1>8, <1>9

LEMMA PlaceRunSteps ==
  ASSUME TypeOK, RepliesInOrder, PlaceInDelivery, NEW r \in Runs, RunStep(r) \/ Crash(r)
  PROVE  /\ PlaceInDelivery'
         /\ NoPlaceTaken \/ Reserves(r) \/ GivesBack(r) \/ Delivers(r)
<1>n. pc[r] /= "record" => frame[r].reply /= "accepted" BY DEF RepliesInOrder
<1>1. CASE Reserve(r)
  <2>1. ~place[r] BY <1>1 DEF Reserve, PlaceInDelivery, Holding
  <2>2. /\ pc'[r] = IF Fits(counter + 1) THEN "read" ELSE "undo"
        /\ place'[r] = Fits(counter + 1)
        /\ \A q \in Runs \ {r} : pc'[q] = pc[q] /\ place'[q] = place[q]
        /\ frame' = frame
    BY <1>1 DEF Reserve, Go, TypeOK, RunsTyped
  <2>3. PlaceInDelivery' BY <2>2 DEF PlaceInDelivery, Holding, Fits
  <2>4. r \notin Holders /\ r \notin Undoing BY <1>1, <2>1 DEF Reserve, Holders, Undoing
  <2>5. frame[r].reply /= "accepted" BY <1>1, <1>n DEF Reserve
  <2>6. CASE Fits(counter + 1)
    <3>1. Holders' = Holders \cup {r} BY <2>1, <2>2, <2>5, <2>6 DEF Holders
    <3>2. Undoing' = Undoing BY <1>1, <2>2, <2>6 DEF Reserve, Undoing
    <3> QED BY <1>1, <2>3, <2>4, <2>6, <3>1, <3>2 DEF Reserve, Reserves, NoRowEffect, history, Fits
  <2>7. CASE ~Fits(counter + 1)
    <3>1. Holders' = Holders BY <2>1, <2>2, <2>7 DEF Holders
    <3>2. Undoing' = Undoing \cup {r} BY <2>2, <2>7 DEF Undoing
    <3> QED BY <1>1, <2>3, <2>4, <3>1, <3>2 DEF Reserve, Reserves, NoRowEffect, history
  <2> QED BY <2>6, <2>7
<1>2. CASE UndoReserve(r)
  <2>1. r \in Undoing BY <1>2 DEF UndoReserve, Undoing
  <2>2. /\ PlaceInDelivery'
        /\ Holders' \subseteq Holders \ {r} /\ Undoing' \subseteq Undoing \ {r}
    BY <1>2, EndPlaces DEF UndoReserve
  <2> QED BY <1>2, <2>1, <2>2 DEF UndoReserve, GivesBack, NoRowEffect, history
<1>3. CASE GiveBack(r) \/ GiveBackAndStop(r)
  <2>1. /\ PlaceInDelivery'
        /\ Holders' \subseteq Holders \ {r} /\ Undoing' \subseteq Undoing \ {r}
    BY <1>3, EndPlaces DEF GiveBack, GiveBackAndStop
  <2>2. counted' = counted /\ frame[r].reply /= "accepted"
    BY <1>3, <1>n DEF GiveBack, GiveBackAndStop, NoRowEffect, history
  <2>3. place[r] => r \in Holders BY <2>2 DEF Holders
  <2>4. \/ counter' = counter - 1 /\ place[r]
        \/ counter' = counter
    BY <1>3 DEF GiveBack, GiveBackAndStop, GivePlaceBack
  <2> QED BY <2>1, <2>2, <2>3, <2>4 DEF GivesBack, NoPlaceTaken
<1>4. CASE Transmit(r)
  <2>1. PICK reply \in {"accepted", "no_recipient", "permanent", "temporary"} :
          /\ counted' = IF reply = "accepted" /\ place[r] THEN counted + 1 ELSE counted
          /\ Continue(r, "record", [frame[r] EXCEPT !.reply = reply])
    BY <1>4 DEF Transmit
  <2>2. frame[r].reply /= "accepted" /\ counter' = counter
    BY <1>4, <1>n DEF Transmit
  <2>3. PlaceInDelivery' /\ Holders' \subseteq Holders /\ Undoing' \subseteq Undoing
    BY <2>1, <2>2, ContinuePlaces DEF Holding
  <2>4. CASE reply = "accepted" /\ place[r]
    <3>1. frame'[r].reply = "accepted"
      <4>1. [frame[r] EXCEPT !.reply = reply].reply = "accepted"
        BY <2>4 DEF TypeOK, RunsTyped, Frame
      <4> QED BY <2>1, <4>1 DEF Continue, TypeOK, RunsTyped
    <3>2. r \in Holders /\ r \notin Holders' BY <2>2, <2>4, <3>1 DEF Holders
    <3> QED BY <2>1, <2>2, <2>3, <2>4, <3>2 DEF Delivers
  <2> QED BY <2>1, <2>2, <2>3, <2>4 DEF NoPlaceTaken
<1> QED BY <1>1, <1>2, <1>3, <1>4, PlaceQuietSteps DEF RunStep, PlaceQuiet

LEMMA PlaceOthers ==
  ASSUME TypeOK, PlaceInDelivery, Others
  PROVE  PlaceInDelivery' /\ NoPlaceTaken
<1>1. UNCHANGED <<counter, counted>>
  BY DEF Others, Accept, ComesDue, ClaimAges, HardBounce, SoftBounce, ThreadChanges,
     SetMode, NotSending, history
<1> QED BY <1>1, FramesOfOthers DEF PlaceInDelivery, NoPlaceTaken, Holders, Undoing

CapInv == RepliesInOrder /\ PlaceInDelivery /\ Places

LEMMA CapInit == Init => CapInv
<1> SUFFICES ASSUME Init PROVE CapInv OBVIOUS
<1>1. Holders = {} /\ Undoing = {} BY DEF Init, Holders, Undoing
<1>2. Places BY <1>1, NumbersAssumption, FS_EmptySet DEF Init, Places
<1> QED BY <1>2 DEF Init, CapInv, RepliesInOrder, PlaceInDelivery, NoFrame

LEMMA CapStep == TypeOK /\ CapInv /\ [Next]_vars => CapInv'
<1> SUFFICES ASSUME TypeOK, CapInv, [Next]_vars PROVE CapInv' OBVIOUS
<1> USE DEF CapInv
<1>1. RepliesInOrder' /\ TypeOK' BY RepliesStep, TypeOKStep
<1>2. /\ PlaceInDelivery'
      /\ \/ NoPlaceTaken
         \/ \E r \in Runs : Reserves(r) \/ GivesBack(r) \/ Delivers(r)
  <2>1. CASE UNCHANGED vars
    BY <2>1 DEF vars, local, history, PlaceInDelivery, NoPlaceTaken, Holders, Undoing
  <2> QED BY <2>1, PlaceRunSteps, PlaceOthers DEF Next
<1> QED BY <1>1, <1>2, PlacesKept

\* Overlapping runs never have more messages taken on a channel day than the cap,
\* retries apart, through crashes, lost releases and errors (reserve, release,
\* _deliver_within_cap).
THEOREM CapNeverExceeded == Spec => []CapRespected
<1>1. TypeOK /\ CapInv => CapRespected
  BY PlacesTyped, PlacesFinite DEF CapInv, Places, CapRespected
<1> QED BY <1>1, CapInit, CapStep, TypeCorrect, PTL DEF Spec
=============================================================================
