---------------------- MODULE FollowUpSequencesProofs ----------------------
(***************************************************************************)
(* Every property of FollowUpSequencesProperties, for any number of steps, *)
(* texts, schedulers, mails and messages.                                  *)
(*                                                                         *)
(* The properties are about the rows; the rows are written from what       *)
(* transactions have read.  FollowUpInv says what the locks keep true of   *)
(* that: a scheduler that advanced still has the running row it locked,    *)
(* a resume a row that no reply or opt-out has ended, a removal the use    *)
(* of its text.                                                            *)
(***************************************************************************)
EXTENDS FollowUpSequencesProperties, TLAPS

Rows == [step : 0..Steps, due : Dues, stop : Stops]
Locals == [pc : {"idle", "listed", "advanced"}, step : 0..Steps, text : Texts \cup {None}]
Fates == {"none", "answering", "pausing", "undecided", "confirmed", "reply", "bounce"}
Final == {"replied", "optout"}

Notes ==
  [step : 0..Steps, status : {"waiting", "arming", "delivered", "bounced", "ended"},
   verdict : {"none", "send", "skipped", "suppressed"}, armed : 0..Steps, retried : BOOLEAN]

\* TypeOK, in the part about rows and the part about locks.
RowsTyped ==
  /\ thread \in {"open", "replied"}
  /\ row \in Rows \cup {None}
  /\ texts \in [Texts -> {"active", "inactive", "deleted"}] /\ used \subseteq Texts
  /\ messages \in Seq(Notes)
  /\ suppressed \in BOOLEAN

LocksHeld ==
  /\ lockThread = "resume" <=> resume
  /\ \A s \in Schedulers : lockRow = s <=> sched[s].pc = "advanced"
  /\ \A r \in Replies :
       /\ lockThread = r <=> replies[r] = "answering"
       /\ lockRow = r => replies[r] = "pausing"

\* What transactions hold besides locks.
WorkTyped ==
  /\ sched \in [Schedulers -> Locals]
  /\ replies \in [Replies -> Fates]
  /\ resume \in BOOLEAN
  /\ starting \in {"idle", "delivered", "none"}
  /\ missed \in BOOLEAN

\* The row an advanced scheduler will commit, and its text.
AdvancedHolds ==
  \A s \in Schedulers : sched[s].pc = "advanced" =>
    Running /\ row.step = sched[s].step /\ sched[s].step < Steps /\ sched[s].text \in Texts

\* The row a resume will write.
ResumeHolds ==
  resume => row # None /\ row.stop \notin Final /\ \A r \in Replies : ~Undecided(r)

\* An outcome that will arm the sequence has seen it.
ArmingHolds == \A i \in DOMAIN messages : messages[i].status = "arming" => row # None

\* What a removal will do to its text.
RemovalHolds ==
  removing = NoRemoval \/
    (removing.text \in Texts /\ (removing.found \/ removing.text \notin used))

\* The steps scheduled are those the row counts.
PlanHolds == plan \in Seq(Nat) /\ (row # None => Len(plan) = row.step)

FollowUpInv ==
  /\ RowsTyped /\ LocksHeld /\ WorkTyped /\ AdvancedHolds /\ ResumeHolds
  /\ ArmingHolds /\ RemovalHolds /\ PlanHolds /\ UsedTextKept /\ NeverStranded

LEMMA TypeOKParts == RowsTyped /\ LocksHeld => TypeOK
  BY DEF TypeOK, RowsTyped, LocksHeld, Rows, Notes

-----------------------------------------------------------------------------
\* What stop_sequence does to a row.

\* No row is None.
LEMMA NoneIsNoRow == None \notin Rows
  BY BoundsAssumption, NoneAssumption DEF Rows

\* A stop keeps the step and ends a running or paused sequence; any other keeps
\* its reason.
StopsRow(reason) ==
  /\ row' \in Rows \cup {None}
  /\ row' = None <=> row = None
  /\ row # None => row'.step = row.step
  /\ ~Active => row' = row
  /\ Active => row'.stop = reason /\ row'.due = "none"

LEMMA StoppedRow ==
  ASSUME RowsTyped, NEW reason \in Stops, row' = Stopped(reason)
  PROVE  StopsRow(reason)
  BY NoneIsNoRow DEF RowsTyped, StopsRow, Stopped, Active, State, Rows, Dues

\* A scheduler that advanced keeps a stop waiting.
LEMMA NoStopWhileAdvanced ==
  ASSUME FollowUpInv, StopPossible PROVE \A s \in Schedulers : sched[s].pc # "advanced"
  BY NoneAssumption DEF FollowUpInv, LocksHeld, AdvancedHolds, StopPossible, Active, Running

-----------------------------------------------------------------------------
\* What becomes of the messages.

LEMMA NotesMade == \A step \in 0..Steps : NewMessage(step) \in Notes
  BY BoundsAssumption DEF NewMessage, Notes

\* Message i becomes m, the others stay.
Rewrites(i, m) ==
  /\ messages' \in Seq(Notes) /\ DOMAIN messages' = DOMAIN messages
  /\ messages'[i] = m
  /\ \A j \in DOMAIN messages : j # i => messages'[j] = messages[j]

LEMMA NoteRewritten ==
  ASSUME RowsTyped, NEW i \in DOMAIN messages, NEW m \in Notes,
         messages' = [messages EXCEPT ![i] = m]
  PROVE  Rewrites(i, m)
  BY DEF RowsTyped, Rewrites

\* Message i has its outcome.
Settles(i, status) ==
  \E m \in Notes : Rewrites(i, m) /\ m.status = status /\ m.step = messages[i].step

LEMMA SettledNote ==
  ASSUME RowsTyped, NEW i \in DOMAIN messages,
         NEW status \in {"delivered", "bounced", "ended"},
         messages' = [messages EXCEPT ![i] = Settled(messages[i], status)]
  PROVE  Settles(i, status)
  <1>1. messages[i] \in Notes
    BY DEF RowsTyped
  <1> DEFINE m == Settled(messages[i], status)
  <1>2. m \in Notes /\ m.status = status /\ m.step = messages[i].step
    <2>1. /\ NewMessage(messages[i].step) \in Notes
          /\ NewMessage(messages[i].step).step = messages[i].step
      BY <1>1, BoundsAssumption DEF NewMessage, Notes
    <2> QED
      BY <1>1, <2>1 DEF Settled, Notes
  <1> HIDE DEF m
  <1>3. Rewrites(i, m)
    BY <1>2, NoteRewritten DEF m
  <1> QED
    BY <1>2, <1>3 DEF Settles

\* Message m joins the others, which stay.
Adds(m) ==
  /\ messages' \in Seq(Notes) /\ DOMAIN messages' = 1..(Len(messages) + 1)
  /\ DOMAIN messages = 1..Len(messages) /\ Len(messages) \in Nat
  /\ messages'[Len(messages) + 1] = m
  /\ \A j \in DOMAIN messages : messages'[j] = messages[j]

LEMMA NoteAdded ==
  ASSUME RowsTyped, NEW m \in Notes, messages' = Append(messages, m)
  PROVE  Adds(m)
  BY DEF RowsTyped, Adds

-----------------------------------------------------------------------------
\* Each action keeps the invariant.

\* start_sequence reads the deliveries.
LEMMA StartReadsKeeps ==
  ASSUME FollowUpInv, StartReads PROVE FollowUpInv'
  <1>1. RowsTyped' /\ LocksHeld' /\ AdvancedHolds' /\ ResumeHolds' /\ ArmingHolds' /\
        RemovalHolds' /\ PlanHolds' /\ UsedTextKept' /\ NeverStranded'
    BY DEF FollowUpInv, StartReads, rows, locks, RowsTyped, LocksHeld, AdvancedHolds,
        ResumeHolds, ArmingHolds, RemovalHolds, PlanHolds, UsedTextKept, NeverStranded,
        Running, Undecided, SomeDelivered, FollowUp
  <1>2. WorkTyped'
    BY DEF FollowUpInv, StartReads, rows, WorkTyped
  <1> QED
    BY <1>1, <1>2 DEF FollowUpInv

\* start_sequence writes a new row, and the plan begins again.
LEMMA StartWritesKeeps ==
  ASSUME FollowUpInv, StartWrites PROVE FollowUpInv'
  <1>1. row' \in Rows /\ row'.step = 0
    BY BoundsAssumption DEF StartWrites, State, Rows, Dues, Stops
  <1>2. LocksHeld' /\ RemovalHolds' /\ UsedTextKept'
    BY DEF FollowUpInv, StartWrites, locks, LocksHeld, RemovalHolds, UsedTextKept
  <1>3. RowsTyped'
    BY BoundsAssumption DEF FollowUpInv, StartWrites, State, RowsTyped, Rows, Dues,
        Stops
  <1>4. WorkTyped'
    BY DEF FollowUpInv, StartWrites, WorkTyped
  <1>5. AdvancedHolds'
    BY NoneAssumption DEF FollowUpInv, StartWrites, AdvancedHolds, LocksHeld
  <1>6. ResumeHolds'
    BY <1>1, NoneIsNoRow DEF FollowUpInv, StartWrites, State, ResumeHolds, Undecided,
        Final
  <1>7. ArmingHolds'
    BY <1>1, NoneIsNoRow DEF FollowUpInv, StartWrites, ArmingHolds
  <1>8. PlanHolds'
    BY DEF FollowUpInv, StartWrites, State, PlanHolds
  <1>9. NeverStranded'
    BY DEF FollowUpInv, StartWrites, State, NeverStranded, SomeDelivered, WorkTyped
  <1> QED
    BY <1>2, <1>3, <1>4, <1>5, <1>6, <1>7, <1>8, <1>9 DEF FollowUpInv

\* The due date passes.
LEMMA ComesDueKeeps ==
  ASSUME FollowUpInv, ComesDue PROVE FollowUpInv'
  <1>1. row # None /\ row' \in Rows /\ row' = State(row.step, "reached", row.stop)
    BY DEF FollowUpInv, ComesDue, RowsTyped, Rows, State, Dues
  <1>2. LocksHeld' /\ WorkTyped' /\ RemovalHolds' /\ UsedTextKept'
    BY DEF FollowUpInv, ComesDue, locks, work, history, LocksHeld, WorkTyped,
        RemovalHolds, UsedTextKept
  <1>3. RowsTyped'
    BY <1>1 DEF FollowUpInv, ComesDue, RowsTyped
  <1>4. AdvancedHolds'
    BY <1>1, NoneIsNoRow DEF FollowUpInv, ComesDue, work, AdvancedHolds, Running
  <1>5. ResumeHolds'
    BY <1>1, NoneIsNoRow DEF FollowUpInv, ComesDue, work, ResumeHolds, Undecided
  <1>6. ArmingHolds'
    BY <1>1, NoneIsNoRow DEF FollowUpInv, ComesDue, ArmingHolds
  <1>7. PlanHolds'
    BY DEF FollowUpInv, ComesDue, history, PlanHolds
  <1>8. NeverStranded'
    BY DEF FollowUpInv, ComesDue, NeverStranded
  <1> QED
    BY <1>2, <1>3, <1>4, <1>5, <1>6, <1>7, <1>8 DEF FollowUpInv

\* A run lists the due sequence.
LEMMA ListKeeps ==
  ASSUME FollowUpInv, NEW s \in Schedulers, List(s) PROVE FollowUpInv'
  <1>1. RowsTyped' /\ ResumeHolds' /\ ArmingHolds' /\ RemovalHolds' /\ PlanHolds' /\
        UsedTextKept' /\ NeverStranded'
    BY DEF FollowUpInv, List, rows, history, RowsTyped, ResumeHolds, ArmingHolds,
        RemovalHolds, PlanHolds, UsedTextKept, NeverStranded, Undecided, Running,
        SomeDelivered, FollowUp
  <1>2. LocksHeld'
    BY DEF FollowUpInv, List, rows, locks, Becomes, LocksHeld
  <1>3. WorkTyped'
    BY DEF FollowUpInv, List, rows, history, Becomes, Idle, WorkTyped, Locals,
        RowsTyped, Rows, Running
  <1>4. AdvancedHolds'
    BY DEF FollowUpInv, List, rows, Becomes, AdvancedHolds, Running
  <1> QED
    BY <1>1, <1>2, <1>3, <1>4 DEF FollowUpInv

\* _advance locks the row it found running at the step.
LEMMA AdvanceKeeps ==
  ASSUME FollowUpInv, NEW s \in Schedulers, Advance(s) PROVE FollowUpInv'
  <1>1. \E x \in Texts : sched' = [sched EXCEPT ![s] = [@ EXCEPT !.pc = "advanced", !.text = x]]
    BY DEF Advance, Becomes, Pick, Pool
  <1>2. RowsTyped' /\ ResumeHolds' /\ ArmingHolds' /\ RemovalHolds' /\ PlanHolds' /\
        UsedTextKept' /\ NeverStranded'
    BY DEF FollowUpInv, Advance, rows, history, RowsTyped, ResumeHolds, ArmingHolds,
        RemovalHolds, PlanHolds, UsedTextKept, NeverStranded, Undecided, Running,
        SomeDelivered, FollowUp
  <1>3. LocksHeld'
    BY <1>1, NoneAssumption, HoldersAssumption DEF FollowUpInv, Advance, rows,
        LocksHeld, WorkTyped
  <1>4. WorkTyped'
    BY <1>1 DEF FollowUpInv, Advance, rows, history, WorkTyped, Locals
  <1>5. AdvancedHolds'
    BY <1>1 DEF FollowUpInv, Advance, rows, AdvancedHolds, Running, StillAt
  <1> QED
    BY <1>2, <1>3, <1>4, <1>5 DEF FollowUpInv

\* _advance changes nothing.
LEMMA AdvanceRefusedKeeps ==
  ASSUME FollowUpInv, NEW s \in Schedulers, AdvanceRefused(s) PROVE FollowUpInv'
  <1>1. RowsTyped' /\ ResumeHolds' /\ ArmingHolds' /\ RemovalHolds' /\ PlanHolds' /\
        UsedTextKept' /\ NeverStranded'
    BY DEF FollowUpInv, AdvanceRefused, rows, history, RowsTyped, ResumeHolds,
        ArmingHolds, RemovalHolds, PlanHolds, UsedTextKept, NeverStranded, Undecided,
        Running, SomeDelivered, FollowUp
  <1>2. LocksHeld'
    BY DEF FollowUpInv, AdvanceRefused, rows, locks, Becomes, Idle, LocksHeld
  <1>3. WorkTyped'
    BY BoundsAssumption DEF FollowUpInv, AdvanceRefused, rows, history, Becomes, Idle,
        WorkTyped, Locals
  <1>4. AdvancedHolds'
    BY DEF FollowUpInv, AdvanceRefused, rows, Becomes, Idle, AdvancedHolds, Running
  <1> QED
    BY <1>1, <1>2, <1>3, <1>4 DEF FollowUpInv

\* A rolled back step frees the row.
LEMMA RollbackKeeps ==
  ASSUME FollowUpInv, NEW s \in Schedulers, Rollback(s) PROVE FollowUpInv'
  <1>1. RowsTyped' /\ ResumeHolds' /\ ArmingHolds' /\ RemovalHolds' /\ PlanHolds' /\
        UsedTextKept' /\ NeverStranded'
    BY DEF FollowUpInv, Rollback, rows, history, RowsTyped, ResumeHolds, ArmingHolds,
        RemovalHolds, PlanHolds, UsedTextKept, NeverStranded, Undecided, Running,
        SomeDelivered, FollowUp
  <1>2. LocksHeld'
    BY NoneAssumption DEF FollowUpInv, Rollback, rows, Becomes, Idle, LocksHeld,
        WorkTyped
  <1>3. WorkTyped'
    BY BoundsAssumption DEF FollowUpInv, Rollback, rows, history, Becomes, Idle,
        WorkTyped, Locals
  <1>4. AdvancedHolds'
    BY DEF FollowUpInv, Rollback, rows, Becomes, Idle, AdvancedHolds, Running
  <1> QED
    BY <1>1, <1>2, <1>3, <1>4 DEF FollowUpInv

\* remove_text locks a text and looks for usages.
LEMMA RemoveLocksKeeps ==
  ASSUME FollowUpInv, NEW x \in Texts, RemoveLocks(x) PROVE FollowUpInv'
  <1>1. RowsTyped' /\ LocksHeld' /\ WorkTyped' /\ AdvancedHolds' /\ ResumeHolds' /\
        ArmingHolds' /\ PlanHolds' /\ UsedTextKept' /\ NeverStranded'
    BY DEF FollowUpInv, RemoveLocks, rows, locks, history, RowsTyped, LocksHeld,
        WorkTyped, AdvancedHolds, ResumeHolds, ArmingHolds, PlanHolds, UsedTextKept,
        NeverStranded, Running, Undecided, SomeDelivered, FollowUp
  <1>2. RemovalHolds'
    BY DEF FollowUpInv, RemoveLocks, rows, RemovalHolds, Removal
  <1> QED
    BY <1>1, <1>2 DEF FollowUpInv

\* remove_text deletes a text without usages.
LEMMA RemoveWritesKeeps ==
  ASSUME FollowUpInv, RemoveWrites PROVE FollowUpInv'
  <1>1. LocksHeld' /\ WorkTyped' /\ AdvancedHolds' /\ ResumeHolds' /\ ArmingHolds' /\
        PlanHolds' /\ NeverStranded'
    BY DEF FollowUpInv, RemoveWrites, locks, history, LocksHeld, WorkTyped,
        AdvancedHolds, ResumeHolds, ArmingHolds, PlanHolds, NeverStranded, Running,
        Undecided, SomeDelivered, FollowUp
  <1>2. RowsTyped'
    BY DEF FollowUpInv, RemoveWrites, RowsTyped
  <1>3. RemovalHolds'
    BY DEF FollowUpInv, RemoveWrites, RemovalHolds
  <1>4. UsedTextKept'
    BY DEF FollowUpInv, RemoveWrites, UsedTextKept, RemovalHolds
  <1> QED
    BY <1>1, <1>2, <1>3, <1>4 DEF FollowUpInv

\* update_text switches a text on or off.
LEMMA UpdateTextKeeps ==
  ASSUME FollowUpInv, NEW x \in Texts, UpdateText(x) PROVE FollowUpInv'
  <1>1. LocksHeld' /\ WorkTyped' /\ AdvancedHolds' /\ ResumeHolds' /\ ArmingHolds' /\
        RemovalHolds' /\ PlanHolds' /\ NeverStranded'
    BY DEF FollowUpInv, UpdateText, locks, work, history, LocksHeld, WorkTyped,
        AdvancedHolds, ResumeHolds, ArmingHolds, RemovalHolds, PlanHolds, NeverStranded,
        Running, Undecided, SomeDelivered, FollowUp
  <1>2. RowsTyped'
    BY DEF FollowUpInv, UpdateText, RowsTyped
  <1>3. UsedTextKept'
    BY DEF FollowUpInv, UpdateText, UsedTextKept
  <1> QED
    BY <1>1, <1>2, <1>3 DEF FollowUpInv

\* A message without a step joins the thread.
LEMMA ComposeKeeps ==
  ASSUME FollowUpInv, Compose PROVE FollowUpInv'
  <1>1. Adds(NewMessage(0))
    BY NotesMade, NoteAdded, BoundsAssumption DEF FollowUpInv, Compose
  <1>2. LocksHeld' /\ WorkTyped' /\ AdvancedHolds' /\ ResumeHolds' /\ RemovalHolds' /\
        PlanHolds' /\ UsedTextKept'
    BY DEF FollowUpInv, Compose, locks, work, history, OnlyMessage, OnlyPlanned,
        LocksHeld, WorkTyped, AdvancedHolds, ResumeHolds, RemovalHolds, PlanHolds,
        UsedTextKept, Running, Undecided
  <1>3. RowsTyped'
    BY <1>1 DEF FollowUpInv, Compose, OnlyMessage, RowsTyped, Adds
  <1>4. ArmingHolds'
    BY DEF FollowUpInv, Compose, ArmingHolds, NewMessage
  <1>5. NeverStranded'
    BY DEF FollowUpInv, Compose, OnlyPlanned, NeverStranded, Running, SomeDelivered,
        FollowUp, NewMessage
  <1> QED
    BY <1>2, <1>3, <1>4, <1>5 DEF FollowUpInv

\* The refusals keep the status and the step of the message.
LEMMA CheckKeeps ==
  ASSUME FollowUpInv, NEW i \in DOMAIN messages, Check(i) PROVE FollowUpInv'
  <1>1. messages[i] \in Notes
    BY DEF FollowUpInv, RowsTyped
  <1>2. [messages[i] EXCEPT !.verdict = Refusal(i)] \in Notes
    BY <1>1 DEF Refusal, Notes
  <1>3. Rewrites(i, [messages[i] EXCEPT !.verdict = Refusal(i)])
    BY <1>2, NoteRewritten DEF FollowUpInv, Check
  <1>4. LocksHeld' /\ WorkTyped' /\ AdvancedHolds' /\ ResumeHolds' /\ RemovalHolds' /\
        PlanHolds' /\ UsedTextKept'
    BY DEF FollowUpInv, Check, locks, work, history, OnlyMessage, OnlyPlanned,
        LocksHeld, WorkTyped, AdvancedHolds, ResumeHolds, RemovalHolds, PlanHolds,
        UsedTextKept, Running, Undecided
  <1>5. RowsTyped'
    BY <1>3 DEF FollowUpInv, Check, OnlyMessage, RowsTyped, Rewrites
  <1>6. ArmingHolds'
    BY DEF FollowUpInv, Check, ArmingHolds
  <1>7. NeverStranded'
    BY DEF FollowUpInv, Check, OnlyPlanned, NeverStranded, Running, SomeDelivered,
        FollowUp
  <1> QED
    BY <1>4, <1>5, <1>6, <1>7 DEF FollowUpInv

\* A follow-up that fails or is suppressed stops the sequence.
LEMMA EndsKeeps ==
  ASSUME FollowUpInv, NEW i \in DOMAIN messages, Ends(i) PROVE FollowUpInv'
  <1>1. Settles(i, "ended")
    BY SettledNote DEF FollowUpInv, Ends
  <1>2. \/ row' = row /\ ~FollowUp(i)
        \/ /\ FollowUp(i) /\ StopPossible
           /\ row' = Stopped("failed") \/ row' = Stopped("suppressed")
    BY DEF Ends
  <1>3. \/ row' = row /\ ~FollowUp(i)
        \/ FollowUp(i) /\ StopPossible /\ (StopsRow("failed") \/ StopsRow("suppressed"))
    BY <1>2, StoppedRow DEF FollowUpInv, Stops
  <1>4. LocksHeld' /\ WorkTyped' /\ RemovalHolds' /\ UsedTextKept'
    BY DEF FollowUpInv, Ends, locks, work, history, OnlyMessage, OnlyPlanned, LocksHeld,
        WorkTyped, RemovalHolds, UsedTextKept
  <1>5. RowsTyped'
    BY <1>1, <1>3 DEF FollowUpInv, Ends, OnlyMessage, RowsTyped, Settles, Rewrites,
        StopsRow
  <1>6. AdvancedHolds'
    BY NoStopWhileAdvanced DEF FollowUpInv, Ends, work, OnlyMessage, AdvancedHolds,
        Running
  <1>7. ResumeHolds'
    BY <1>3 DEF FollowUpInv, Ends, work, OnlyMessage, ResumeHolds, Undecided, StopsRow,
        Final
  <1>8. ArmingHolds'
    BY <1>1, <1>3 DEF FollowUpInv, Ends, ArmingHolds, Settles, Rewrites, StopsRow
  <1>9. PlanHolds'
    BY <1>3 DEF FollowUpInv, Ends, OnlyPlanned, PlanHolds, StopsRow
  <1>10. NeverStranded'
    BY <1>1, <1>3 DEF FollowUpInv, Ends, OnlyPlanned, NeverStranded, Running,
        SomeDelivered, FollowUp, Settles, Rewrites, StopsRow, Active
  <1> QED
    BY <1>4, <1>5, <1>6, <1>7, <1>8, <1>9, <1>10 DEF FollowUpInv

\* An outcome that arms the sequence has read its row.
LEMMA ArmReadsKeeps ==
  ASSUME FollowUpInv, NEW i \in DOMAIN messages, ArmReads(i) PROVE FollowUpInv'
  <1>1. messages[i] \in Notes
    BY DEF FollowUpInv, RowsTyped
  <1>2. \/ /\ Arms(i) /\ Running
           /\ messages' =
                [messages EXCEPT ![i] = [@ EXCEPT !.status = "arming", !.armed = row.step]]
        \/ /\ ~Arms(i) \/ ~Running
           /\ \E o \in {"delivered", "ended"} :
                Outcome(i) = o /\ messages' = [messages EXCEPT ![i] = Settled(@, o)]
    BY DEF ArmReads, Outcome
  <1>3. row \in Rows \cup {None}
    BY DEF FollowUpInv, RowsTyped
  <1>4. Arms(i) /\ Running =>
          Rewrites(i, [messages[i] EXCEPT !.status = "arming", !.armed = row.step])
    BY <1>1, <1>2, <1>3, NoteRewritten DEF FollowUpInv, Rows, Running, Notes
  <1>5. ~(Arms(i) /\ Running) =>
          \E o \in {"delivered", "ended"} : o = Outcome(i) /\ Settles(i, o)
    BY <1>2, SettledNote DEF FollowUpInv
  <1>6. LocksHeld' /\ WorkTyped' /\ AdvancedHolds' /\ ResumeHolds' /\ RemovalHolds' /\
        PlanHolds' /\ UsedTextKept'
    BY DEF FollowUpInv, ArmReads, locks, work, history, OnlyMessage, OnlyPlanned,
        LocksHeld, WorkTyped, AdvancedHolds, ResumeHolds, RemovalHolds, PlanHolds,
        UsedTextKept, Running, Undecided
  <1>7. RowsTyped'
    BY <1>4, <1>5 DEF FollowUpInv, ArmReads, OnlyMessage, RowsTyped, Settles, Rewrites
  <1>8. ArmingHolds'
    BY <1>5 DEF FollowUpInv, ArmReads, ArmingHolds, Settles, Rewrites, Running
  <1>9. NeverStranded'
    BY <1>5 DEF FollowUpInv, ArmReads, OnlyPlanned, NeverStranded, Running,
        SomeDelivered, FollowUp, Settles, Rewrites, Arms, Outcome
  <1> QED
    BY <1>6, <1>7, <1>8, <1>9 DEF FollowUpInv

\* An outcome writes the due date of the sequence, or ends it after its last step.
LEMMA ArmWritesKeeps ==
  ASSUME FollowUpInv, NEW i \in DOMAIN messages, ArmWrites(i) PROVE FollowUpInv'
  <1>1. \E o \in {"delivered", "ended"} : Settles(i, o)
    BY SettledNote DEF FollowUpInv, ArmWrites, Outcome
  <1>2. row # None /\ row \in Rows
    BY DEF FollowUpInv, ArmWrites, RowsTyped, ArmingHolds
  <1>3. row' = State(row.step, "later", row.stop) \/ StopsRow("finished")
    BY StoppedRow DEF FollowUpInv, ArmWrites, Armed, Stops
  <1>4. State(row.step, "later", row.stop) \in Rows
    BY <1>2 DEF State, Rows, Dues
  <1>5. LocksHeld' /\ WorkTyped' /\ RemovalHolds' /\ UsedTextKept'
    BY DEF FollowUpInv, ArmWrites, locks, work, history, OnlyMessage, OnlyPlanned,
        LocksHeld, WorkTyped, RemovalHolds, UsedTextKept
  <1>6. RowsTyped'
    BY <1>1, <1>3, <1>4 DEF FollowUpInv, ArmWrites, OnlyMessage, RowsTyped, Settles,
        Rewrites, StopsRow
  <1>7. AdvancedHolds'
    BY NoneAssumption DEF FollowUpInv, ArmWrites, work, OnlyMessage, AdvancedHolds,
        LocksHeld
  <1>8. ResumeHolds'
    BY <1>3, <1>4, NoneIsNoRow DEF FollowUpInv, ArmWrites, work, OnlyMessage,
        ResumeHolds, Undecided, StopsRow, Final, State
  <1>9. ArmingHolds'
    BY <1>3, <1>4, NoneIsNoRow DEF FollowUpInv, ArmWrites, ArmingHolds, StopsRow
  <1>10. PlanHolds'
    BY <1>2, <1>3 DEF FollowUpInv, ArmWrites, OnlyPlanned, PlanHolds, StopsRow, State
  <1>11. NeverStranded'
    BY <1>3 DEF FollowUpInv, ArmWrites, NeverStranded, Running, StopsRow, Active, State
  <1> QED
    BY <1>5, <1>6, <1>7, <1>8, <1>9, <1>10, <1>11 DEF FollowUpInv

\* A reply locks the thread.
LEMMA ReplyMarksKeeps ==
  ASSUME FollowUpInv, NEW r \in Replies, ReplyMarks(r) PROVE FollowUpInv'
  <1>1. RowsTyped' /\ AdvancedHolds' /\ ArmingHolds' /\ RemovalHolds' /\ PlanHolds' /\
        UsedTextKept' /\ NeverStranded'
    BY DEF FollowUpInv, ReplyMarks, work, history, Mail, OnlyReply, RowsTyped,
        AdvancedHolds, ArmingHolds, RemovalHolds, PlanHolds, UsedTextKept,
        NeverStranded, Running, SomeDelivered, FollowUp
  <1>2. LocksHeld'
    BY NoneAssumption, HoldersAssumption DEF FollowUpInv, ReplyMarks, work, Mail,
        OnlyReply, LocksHeld, WorkTyped
  <1>3. WorkTyped'
    BY DEF FollowUpInv, ReplyMarks, work, history, Mail, OnlyReply, WorkTyped, Fates
  <1>4. ResumeHolds'
    BY DEF FollowUpInv, ReplyMarks, work, Mail, OnlyReply, ResumeHolds, Undecided
  <1> QED
    BY <1>1, <1>2, <1>3, <1>4 DEF FollowUpInv

\* A reply that holds the thread excludes a resume.
LEMMA ReplyStopsKeeps ==
  ASSUME FollowUpInv, NEW r \in Replies, ReplyStops(r) PROVE FollowUpInv'
  <1>1. StopPossible /\ StopsRow("replied")
    BY StoppedRow DEF FollowUpInv, ReplyStops, Stops
  <1>2. RemovalHolds' /\ UsedTextKept'
    BY DEF FollowUpInv, ReplyStops, work, Mail, OnlyReply, RemovalHolds, UsedTextKept
  <1>3. RowsTyped'
    BY <1>1 DEF FollowUpInv, ReplyStops, OnlyReply, RowsTyped, StopsRow
  <1>4. LocksHeld'
    BY NoneAssumption, HoldersAssumption DEF FollowUpInv, ReplyStops, work, Mail,
        OnlyReply, LocksHeld, WorkTyped
  <1>5. WorkTyped'
    BY DEF FollowUpInv, ReplyStops, work, history, Mail, OnlyReply, WorkTyped, Fates
  <1>6. AdvancedHolds'
    BY NoStopWhileAdvanced DEF FollowUpInv, ReplyStops, work, OnlyReply, AdvancedHolds
  <1>7. ResumeHolds'
    BY HoldersAssumption DEF FollowUpInv, ReplyStops, work, Mail, OnlyReply,
        ResumeHolds, LocksHeld
  <1>8. ArmingHolds'
    BY <1>1 DEF FollowUpInv, ReplyStops, OnlyReply, ArmingHolds, StopsRow
  <1>9. PlanHolds'
    BY <1>1 DEF FollowUpInv, ReplyStops, history, OnlyReply, PlanHolds, StopsRow
  <1>10. NeverStranded'
    BY <1>1 DEF FollowUpInv, ReplyStops, NeverStranded, Running, StopsRow, Active
  <1> QED
    BY <1>2, <1>3, <1>4, <1>5, <1>6, <1>7, <1>8, <1>9, <1>10 DEF FollowUpInv

\* A suspicion locks a row it will pause.
LEMMA SuspicionPausesKeeps ==
  ASSUME FollowUpInv, NEW r \in Replies, SuspicionPauses(r) PROVE FollowUpInv'
  <1>1. \A s \in Schedulers : Active => sched[s].pc # "advanced"
    BY NoneAssumption DEF FollowUpInv, SuspicionPauses, StopPossible, LocksHeld
  <1>2. RowsTyped' /\ AdvancedHolds' /\ ArmingHolds' /\ RemovalHolds' /\ PlanHolds' /\
        UsedTextKept' /\ NeverStranded'
    BY DEF FollowUpInv, SuspicionPauses, work, history, Mail, OnlyReply, RowsTyped,
        AdvancedHolds, ArmingHolds, RemovalHolds, PlanHolds, UsedTextKept,
        NeverStranded, Running, SomeDelivered, FollowUp
  <1>3. LocksHeld'
    BY <1>1, HoldersAssumption DEF FollowUpInv, SuspicionPauses, work, Mail, OnlyReply,
        LocksHeld, WorkTyped
  <1>4. WorkTyped'
    BY DEF FollowUpInv, SuspicionPauses, work, history, Mail, OnlyReply, WorkTyped,
        Fates
  <1>5. ResumeHolds'
    BY DEF FollowUpInv, SuspicionPauses, work, Mail, OnlyReply, ResumeHolds, Undecided
  <1> QED
    BY <1>2, <1>3, <1>4, <1>5 DEF FollowUpInv

\* A suspicion waits for a resume, and pauses only the row it holds.
LEMMA SuspicionMarksKeeps ==
  ASSUME FollowUpInv, NEW r \in Replies, SuspicionMarks(r) PROVE FollowUpInv'
  <1>1. row' = row \/ StopsRow("paused")
    BY StoppedRow DEF FollowUpInv, SuspicionMarks, Stops
  <1>2. lockRow = r => \A s \in Schedulers : sched[s].pc # "advanced"
    BY HoldersAssumption DEF FollowUpInv, LocksHeld
  <1>3. RemovalHolds' /\ UsedTextKept'
    BY DEF FollowUpInv, SuspicionMarks, work, Mail, OnlyReply, RemovalHolds,
        UsedTextKept
  <1>4. RowsTyped'
    BY <1>1 DEF FollowUpInv, SuspicionMarks, OnlyReply, RowsTyped, StopsRow
  <1>5. LocksHeld'
    BY NoneAssumption, HoldersAssumption DEF FollowUpInv, SuspicionMarks, work, Mail,
        OnlyReply, LocksHeld
  <1>6. WorkTyped'
    BY DEF FollowUpInv, SuspicionMarks, work, history, Mail, OnlyReply, WorkTyped, Fates
  <1>7. AdvancedHolds'
    BY <1>2 DEF FollowUpInv, SuspicionMarks, work, OnlyReply, AdvancedHolds, Running
  <1>8. ResumeHolds'
    BY NoneAssumption DEF FollowUpInv, SuspicionMarks, work, OnlyReply, ResumeHolds,
        LocksHeld
  <1>9. ArmingHolds'
    BY <1>1 DEF FollowUpInv, SuspicionMarks, OnlyReply, ArmingHolds, StopsRow
  <1>10. PlanHolds'
    BY <1>1 DEF FollowUpInv, SuspicionMarks, history, OnlyReply, PlanHolds, StopsRow
  <1>11. NeverStranded'
    BY <1>1 DEF FollowUpInv, SuspicionMarks, history, OnlyReply, NeverStranded, Running,
        SomeDelivered, FollowUp, StopsRow
  <1> QED
    BY <1>3, <1>4, <1>5, <1>6, <1>7, <1>8, <1>9, <1>10, <1>11 DEF FollowUpInv

\* A hard bounce ends the sequence, and the message unless that has ended or waits.
LEMMA HardBounceKeeps ==
  ASSUME FollowUpInv, NEW r \in Replies, NEW i \in DOMAIN messages, HardBounce(r, i)
  PROVE  FollowUpInv'
  <1>1. StopPossible /\ StopsRow("bounce")
    BY StoppedRow DEF FollowUpInv, HardBounce, Stops
  <1>2. messages' = messages \/ Settles(i, "bounced")
    <2>1. PICK m \in Failing(messages[i]) : messages' = [messages EXCEPT ![i] = m]
      BY DEF HardBounce
    <2>2. m = messages[i] \/ m = Settled(messages[i], "bounced")
      BY DEF Failing
    <2>3. m = messages[i] => messages' = messages
      BY <2>1 DEF FollowUpInv, RowsTyped
    <2> QED
      BY <2>1, <2>2, <2>3, SettledNote DEF FollowUpInv
  <1>3. RemovalHolds' /\ UsedTextKept'
    BY DEF FollowUpInv, HardBounce, work, Mail, Bounce, RemovalHolds, UsedTextKept
  <1>4. RowsTyped'
    BY <1>1, <1>2 DEF FollowUpInv, HardBounce, RowsTyped, StopsRow, Settles, Rewrites
  <1>5. LocksHeld'
    BY DEF FollowUpInv, HardBounce, locks, work, Mail, Bounce, LocksHeld
  <1>6. WorkTyped'
    BY DEF FollowUpInv, HardBounce, work, history, Mail, Bounce, WorkTyped, Fates
  <1>7. AdvancedHolds'
    BY NoStopWhileAdvanced DEF FollowUpInv, HardBounce, work, AdvancedHolds
  <1>8. ResumeHolds'
    BY <1>1 DEF FollowUpInv, HardBounce, work, Mail, Bounce, ResumeHolds, Undecided,
        StopsRow, Final
  <1>9. ArmingHolds'
    BY <1>1, <1>2 DEF FollowUpInv, HardBounce, ArmingHolds, StopsRow, Settles, Rewrites
  <1>10. PlanHolds'
    BY <1>1 DEF FollowUpInv, HardBounce, history, PlanHolds, StopsRow
  <1>11. NeverStranded'
    BY <1>1 DEF FollowUpInv, HardBounce, NeverStranded, Running, StopsRow, Active
  <1> QED
    BY <1>3, <1>4, <1>5, <1>6, <1>7, <1>8, <1>9, <1>10, <1>11 DEF FollowUpInv

\* A soft bounce takes a delivery back and leaves the sequence alone.
LEMMA SoftBounceKeeps ==
  ASSUME FollowUpInv, NEW r \in Replies, NEW i \in DOMAIN messages, SoftBounce(r, i)
  PROVE  FollowUpInv'
  <1>1. messages[i] \in Notes
    BY DEF FollowUpInv, RowsTyped
  <1>2. /\ NewMessage(messages[i].step) \in Notes
        /\ NewMessage(messages[i].step).status = "waiting"
        /\ NewMessage(messages[i].step).step = messages[i].step
    BY <1>1, BoundsAssumption DEF NewMessage, Notes
  <1>3. \/ messages[i].status # "delivered" /\ messages' = messages
        \/ /\ messages[i].status = "delivered"
           /\ \/ messages' = [messages EXCEPT ![i] = Settled(messages[i], "bounced")]
              \/ messages' =
                   [messages EXCEPT ![i] = [NewMessage(messages[i].step) EXCEPT !.retried = TRUE]]
    <2>1. \/ /\ messages[i].status # "delivered"
             /\ messages' = [messages EXCEPT ![i] = messages[i]]
          \/ /\ messages[i].status = "delivered"
             /\ \/ messages' = [messages EXCEPT ![i] = Settled(messages[i], "bounced")]
                \/ messages' =
                     [messages EXCEPT ![i] = [NewMessage(messages[i].step) EXCEPT !.retried = TRUE]]
      BY DEF SoftBounce
    <2>2. [messages EXCEPT ![i] = messages[i]] = messages
      BY DEF FollowUpInv, RowsTyped
    <2> QED
      BY <2>1, <2>2, Zenon
  <1>4. \/ messages' = messages
        \/ /\ messages[i].status = "delivered"
           /\ \/ Settles(i, "bounced")
              \/ Rewrites(i, [NewMessage(messages[i].step) EXCEPT !.retried = TRUE])
    BY <1>1, <1>2, <1>3, SettledNote, NoteRewritten DEF FollowUpInv, Notes
  <1>5. AdvancedHolds' /\ RemovalHolds' /\ PlanHolds' /\ UsedTextKept'
    BY DEF FollowUpInv, SoftBounce, work, history, Mail, Bounce, AdvancedHolds,
        RemovalHolds, PlanHolds, UsedTextKept, Running
  <1>6. RowsTyped'
    BY <1>4 DEF FollowUpInv, SoftBounce, RowsTyped, Settles, Rewrites
  <1>7. LocksHeld'
    BY DEF FollowUpInv, SoftBounce, locks, work, Mail, Bounce, LocksHeld
  <1>8. WorkTyped'
    BY DEF FollowUpInv, SoftBounce, work, history, Mail, Bounce, WorkTyped, Fates
  <1>9. ResumeHolds'
    BY DEF FollowUpInv, SoftBounce, work, Mail, Bounce, ResumeHolds, Undecided
  <1>10. ArmingHolds'
    BY <1>2, <1>4 DEF FollowUpInv, SoftBounce, ArmingHolds, Notes, Settles, Rewrites
  <1>11. NeverStranded'
    BY <1>2, <1>4 DEF FollowUpInv, SoftBounce, history, NeverStranded, Running,
        SomeDelivered, FollowUp, Notes, Settles, Rewrites
  <1> QED
    BY <1>5, <1>6, <1>7, <1>8, <1>9, <1>10, <1>11 DEF FollowUpInv

\* A rolled back ingest frees its rows.
LEMMA IngestRollsBackKeeps ==
  ASSUME FollowUpInv, NEW r \in Replies, IngestRollsBack(r) PROVE FollowUpInv'
  <1>1. RowsTyped' /\ AdvancedHolds' /\ ArmingHolds' /\ RemovalHolds' /\ PlanHolds' /\
        UsedTextKept' /\ NeverStranded'
    BY DEF FollowUpInv, IngestRollsBack, work, history, Freed, RowsTyped, AdvancedHolds,
        ArmingHolds, RemovalHolds, PlanHolds, UsedTextKept, NeverStranded, Running,
        SomeDelivered, FollowUp
  <1>2. LocksHeld'
    BY NoneAssumption, HoldersAssumption DEF FollowUpInv, IngestRollsBack, work, Freed,
        LocksHeld, WorkTyped
  <1>3. WorkTyped'
    BY DEF FollowUpInv, IngestRollsBack, work, history, WorkTyped, Fates
  <1>4. ResumeHolds'
    BY DEF FollowUpInv, IngestRollsBack, work, ResumeHolds, Undecided
  <1> QED
    BY <1>1, <1>2, <1>3, <1>4 DEF FollowUpInv

\* An undecided opt-out excludes a resume.
LEMMA ConfirmKeeps ==
  ASSUME FollowUpInv, NEW r \in Replies, Confirm(r) PROVE FollowUpInv'
  <1>1. StopPossible /\ StopsRow("optout")
    BY StoppedRow DEF FollowUpInv, Confirm, Stops
  <1>2. ~resume
    BY DEF FollowUpInv, Confirm, Mail, ResumeHolds, Undecided, WorkTyped
  <1>3. RemovalHolds' /\ UsedTextKept'
    BY DEF FollowUpInv, Confirm, work, Mail, OnlyReply, RemovalHolds, UsedTextKept
  <1>4. RowsTyped'
    BY <1>1 DEF FollowUpInv, Confirm, OnlyReply, RowsTyped, StopsRow
  <1>5. LocksHeld'
    BY DEF FollowUpInv, Confirm, locks, work, Mail, OnlyReply, LocksHeld
  <1>6. WorkTyped'
    BY DEF FollowUpInv, Confirm, work, history, Mail, OnlyReply, WorkTyped, Fates
  <1>7. AdvancedHolds'
    BY NoStopWhileAdvanced DEF FollowUpInv, Confirm, work, OnlyReply, AdvancedHolds
  <1>8. ResumeHolds'
    BY DEF FollowUpInv, Confirm, work, Mail, OnlyReply, ResumeHolds, Undecided
  <1>9. ArmingHolds'
    BY <1>1 DEF FollowUpInv, Confirm, OnlyReply, ArmingHolds, StopsRow
  <1>10. PlanHolds'
    BY <1>1 DEF FollowUpInv, Confirm, history, OnlyReply, PlanHolds, StopsRow
  <1>11. NeverStranded'
    BY <1>1 DEF FollowUpInv, Confirm, NeverStranded, Running, StopsRow, Active
  <1> QED
    BY <1>3, <1>4, <1>5, <1>6, <1>7, <1>8, <1>9, <1>10, <1>11 DEF FollowUpInv

\* The sequence stays as it is.
LEMMA DismissKeeps ==
  ASSUME FollowUpInv, NEW r \in Replies, Dismiss(r) PROVE FollowUpInv'
  <1>1. RowsTyped' /\ AdvancedHolds' /\ ArmingHolds' /\ RemovalHolds' /\ PlanHolds' /\
        UsedTextKept' /\ NeverStranded'
    BY DEF FollowUpInv, Dismiss, work, history, Mail, OnlyReply, RowsTyped,
        AdvancedHolds, ArmingHolds, RemovalHolds, PlanHolds, UsedTextKept,
        NeverStranded, Running, SomeDelivered, FollowUp
  <1>2. LocksHeld'
    BY DEF FollowUpInv, Dismiss, locks, work, Mail, OnlyReply, LocksHeld
  <1>3. WorkTyped'
    BY DEF FollowUpInv, Dismiss, work, history, Mail, OnlyReply, WorkTyped, Fates
  <1>4. ResumeHolds'
    BY DEF FollowUpInv, Dismiss, work, Mail, OnlyReply, ResumeHolds, Undecided
  <1> QED
    BY <1>1, <1>2, <1>3, <1>4 DEF FollowUpInv

\* A resume has found the row paused and no opt-out undecided.
LEMMA ResumeChecksKeeps ==
  ASSUME FollowUpInv, ResumeChecks PROVE FollowUpInv'
  <1>1. RowsTyped' /\ AdvancedHolds' /\ ArmingHolds' /\ RemovalHolds' /\ PlanHolds' /\
        UsedTextKept' /\ NeverStranded'
    BY DEF FollowUpInv, ResumeChecks, rows, history, RowsTyped, AdvancedHolds,
        ArmingHolds, RemovalHolds, PlanHolds, UsedTextKept, NeverStranded, Running,
        SomeDelivered, FollowUp
  <1>2. LocksHeld'
    BY NoneAssumption, HoldersAssumption DEF FollowUpInv, ResumeChecks, rows, LocksHeld,
        ResumeLock
  <1>3. WorkTyped'
    BY DEF FollowUpInv, ResumeChecks, rows, history, WorkTyped
  <1>4. ResumeHolds'
    BY DEF FollowUpInv, ResumeChecks, rows, ResumeHolds, Undecided, Final
  <1> QED
    BY <1>1, <1>2, <1>3, <1>4 DEF FollowUpInv

\* A resume writes a due date or ends the sequence.
LEMMA ResumeWritesKeeps ==
  ASSUME FollowUpInv, ResumeWrites PROVE FollowUpInv'
  <1>1. row # None /\ row \in Rows
    BY DEF FollowUpInv, ResumeWrites, RowsTyped, ResumeHolds
  <1>2. row' \in Rows /\ row'.step = row.step /\ (row'.stop = "running" => row'.due = "later")
    BY <1>1 DEF ResumeWrites, State, Rows, Dues, Stops
  <1>3. RemovalHolds' /\ UsedTextKept'
    BY DEF FollowUpInv, ResumeWrites, RemovalHolds, UsedTextKept
  <1>4. RowsTyped'
    BY <1>2 DEF FollowUpInv, ResumeWrites, RowsTyped
  <1>5. LocksHeld'
    BY NoneAssumption, HoldersAssumption DEF FollowUpInv, ResumeWrites, LocksHeld
  <1>6. WorkTyped'
    BY DEF FollowUpInv, ResumeWrites, history, WorkTyped
  <1>7. AdvancedHolds'
    BY NoneAssumption DEF FollowUpInv, ResumeWrites, AdvancedHolds, LocksHeld
  <1>8. ResumeHolds'
    BY DEF FollowUpInv, ResumeWrites, ResumeHolds
  <1>9. ArmingHolds'
    BY <1>2, NoneIsNoRow DEF FollowUpInv, ResumeWrites, ArmingHolds
  <1>10. PlanHolds'
    BY <1>1, <1>2 DEF FollowUpInv, ResumeWrites, history, PlanHolds
  <1>11. NeverStranded'
    BY <1>2 DEF FollowUpInv, ResumeWrites, NeverStranded, Running
  <1> QED
    BY <1>3, <1>4, <1>5, <1>6, <1>7, <1>8, <1>9, <1>10, <1>11 DEF FollowUpInv

\* A resume is rolled back.
LEMMA ResumeRollsBackKeeps ==
  ASSUME FollowUpInv, ResumeRollsBack PROVE FollowUpInv'
  <1>1. RowsTyped' /\ AdvancedHolds' /\ ArmingHolds' /\ RemovalHolds' /\ PlanHolds' /\
        UsedTextKept' /\ NeverStranded'
    BY DEF FollowUpInv, ResumeRollsBack, rows, history, RowsTyped, AdvancedHolds,
        ArmingHolds, RemovalHolds, PlanHolds, UsedTextKept, NeverStranded, Running,
        SomeDelivered, FollowUp
  <1>2. LocksHeld'
    BY NoneAssumption, HoldersAssumption DEF FollowUpInv, ResumeRollsBack, rows,
        LocksHeld
  <1>3. WorkTyped'
    BY DEF FollowUpInv, ResumeRollsBack, rows, history, WorkTyped
  <1>4. ResumeHolds'
    BY DEF FollowUpInv, ResumeRollsBack, ResumeHolds
  <1> QED
    BY <1>1, <1>2, <1>3, <1>4 DEF FollowUpInv

\* The step the row is at is scheduled.
LEMMA CommitKeeps ==
  ASSUME FollowUpInv, NEW s \in Schedulers, Commit(s) PROVE FollowUpInv'
  <1>1. /\ row \in Rows /\ Running /\ row.step = sched[s].step
        /\ sched[s].step < Steps /\ sched[s].text \in Texts
    BY DEF FollowUpInv, Commit, AdvancedHolds, RowsTyped, Running
  <1>2. sched[s].step \in 0..Steps /\ sched[s].step + 1 \in 0..Steps
    BY <1>1, BoundsAssumption DEF Rows
  <1>3. /\ NewMessage(sched[s].step + 1) \in Notes
        /\ NewMessage(sched[s].step + 1).step = sched[s].step + 1
        /\ NewMessage(sched[s].step + 1).status = "waiting"
    BY <1>2, BoundsAssumption DEF NewMessage, Notes
  <1>4. Settled(NewMessage(sched[s].step + 1), "ended") \in Notes
        /\ Settled(NewMessage(sched[s].step + 1), "ended").status = "ended"
    BY <1>3 DEF Settled, Notes
  <1>5. \/ /\ messages' = Append(messages, NewMessage(sched[s].step + 1))
           /\ row' = State(sched[s].step + 1, "none", row.stop)
        \/ /\ messages' = Append(messages, Settled(NewMessage(sched[s].step + 1), "ended"))
           /\ \E status \in {"suppressed", "failed"} :
                row' = State(sched[s].step + 1, "none", status)
    BY DEF Commit, Created
  <1>6. \/ Adds(NewMessage(sched[s].step + 1)) /\ row' = State(sched[s].step + 1, "none", "running")
        \/ /\ Adds(Settled(NewMessage(sched[s].step + 1), "ended"))
           /\ \E status \in {"suppressed", "failed"} :
                row' = State(sched[s].step + 1, "none", status)
    BY <1>1, <1>3, <1>4, <1>5, NoteAdded DEF FollowUpInv, Running
  <1>7. row' \in Rows /\ row'.step = sched[s].step + 1 /\ row'.stop \notin Final
    BY <1>2, <1>6 DEF State, Rows, Dues, Stops, Final
  <1>8. RowsTyped'
    BY <1>1, <1>6, <1>7 DEF FollowUpInv, Commit, RowsTyped, Adds
  <1>9. LocksHeld'
    BY NoneAssumption DEF FollowUpInv, Commit, Becomes, LocksHeld, WorkTyped, Idle
  <1>10. WorkTyped'
    BY BoundsAssumption DEF FollowUpInv, Commit, Becomes, WorkTyped, Locals, Idle
  <1>11. AdvancedHolds'
    BY DEF FollowUpInv, Commit, Becomes, AdvancedHolds, WorkTyped, LocksHeld, Idle
  <1>12. ResumeHolds'
    BY <1>7, NoneIsNoRow DEF FollowUpInv, Commit, ResumeHolds, Undecided
  <1>13. ArmingHolds'
    BY <1>7, NoneIsNoRow DEF FollowUpInv, Commit, ArmingHolds
  <1>14. RemovalHolds'
    BY DEF FollowUpInv, Commit, RemovalHolds, TextThere
  <1>15. PlanHolds'
    BY <1>1, <1>7, NoneIsNoRow DEF FollowUpInv, Commit, PlanHolds
  <1>16. UsedTextKept'
    BY DEF FollowUpInv, Commit, UsedTextKept, TextThere
  <1>17. NeverStranded'
    BY <1>2, <1>3, <1>6 DEF FollowUpInv, Commit, Becomes, NeverStranded, Running,
        SomeDelivered, FollowUp, Adds, State
  <1> QED
    BY <1>8, <1>9, <1>10, <1>11, <1>12, <1>13, <1>14, <1>15, <1>16, <1>17 DEF
        FollowUpInv

-----------------------------------------------------------------------------
\* The invariant holds.

LEMMA Starts == ASSUME Init PROVE FollowUpInv
  <1>1. NewMessage(0) \in Notes /\ NewMessage(0).step = 0 /\ NewMessage(0).status = "waiting"
    BY BoundsAssumption DEF NewMessage, Notes
  <1>2. messages \in Seq(Notes) /\ DOMAIN messages = {1} /\ messages[1] = NewMessage(0)
    BY <1>1 DEF Init
  <1>3. RowsTyped
    BY <1>2 DEF Init, RowsTyped
  <1>4. LocksHeld /\ WorkTyped
    <2>1. None # "resume" /\ None \notin Schedulers /\ None \notin Replies
      BY NoneAssumption
    <2>2. LocksHeld
      BY <2>1 DEF Init, LocksHeld, Idle
    <2>3. WorkTyped
      <3>1. Idle \in Locals
        BY BoundsAssumption DEF Idle, Locals
      <3> QED
        BY <3>1 DEF Init, WorkTyped, Fates
    <2> QED
      BY <2>2, <2>3
  <1>5. AdvancedHolds /\ ResumeHolds /\ RemovalHolds /\ PlanHolds /\ UsedTextKept
    BY DEF Init, AdvancedHolds, ResumeHolds, RemovalHolds, PlanHolds, UsedTextKept, Idle
  <1>6. ArmingHolds /\ NeverStranded
    BY <1>1, <1>2 DEF Init, ArmingHolds, NeverStranded, Running
  <1> QED
    BY <1>3, <1>4, <1>5, <1>6 DEF FollowUpInv

LEMMA Stutters == ASSUME FollowUpInv, UNCHANGED vars PROVE FollowUpInv'
  <1>1. RowsTyped' /\ LocksHeld' /\ WorkTyped' /\ AdvancedHolds' /\ ResumeHolds'
    BY DEF FollowUpInv, vars, rows, locks, work, history, RowsTyped, LocksHeld, WorkTyped,
       AdvancedHolds, ResumeHolds, Running, Undecided
  <1>2. ArmingHolds' /\ RemovalHolds' /\ PlanHolds' /\ UsedTextKept' /\ NeverStranded'
    BY DEF FollowUpInv, vars, rows, locks, work, history, ArmingHolds, RemovalHolds,
       PlanHolds, UsedTextKept, NeverStranded, Running, SomeDelivered, FollowUp
  <1> QED
    BY <1>1, <1>2 DEF FollowUpInv

LEMMA StepsKeep == ASSUME FollowUpInv, [Next]_vars PROVE FollowUpInv'
  <1>1. ASSUME NEW s \in Schedulers, SchedulerStep(s) \/ Rollback(s) PROVE FollowUpInv'
    BY <1>1, ListKeeps, AdvanceKeeps, AdvanceRefusedKeeps, CommitKeeps, RollbackKeeps
    DEF SchedulerStep
  <1>2. CASE ComesDue
    BY <1>2, ComesDueKeeps
  <1>3. ASSUME NEW x \in Texts, RemoveLocks(x) \/ UpdateText(x) PROVE FollowUpInv'
    BY <1>3, RemoveLocksKeeps, UpdateTextKeeps
  <1>4. CASE RemoveWrites
    BY <1>4, RemoveWritesKeeps
  <1>5. ASSUME NEW i \in DOMAIN messages, MessageStep(i) PROVE FollowUpInv'
    BY <1>5, CheckKeeps, EndsKeeps, ArmReadsKeeps, ArmWritesKeeps DEF MessageStep
  <1>6. ASSUME NEW r \in Replies, MailStep(r) PROVE FollowUpInv'
    BY <1>6, ReplyMarksKeeps, ReplyStopsKeeps, SuspicionPausesKeeps, SuspicionMarksKeeps,
       IngestRollsBackKeeps, HardBounceKeeps, SoftBounceKeeps DEF MailStep
  <1>7. CASE Human
    BY <1>7, ConfirmKeeps, DismissKeeps, ResumeChecksKeeps, ResumeWritesKeeps,
       ResumeRollsBackKeeps, StartReadsKeeps, StartWritesKeeps, ComposeKeeps DEF Human
  <1>8. CASE UNCHANGED vars
    BY <1>8, Stutters
  <1> QED
    BY <1>1, <1>2, <1>3, <1>4, <1>5, <1>6, <1>7, <1>8 DEF Next

\* What the locks keep true between the transactions.
THEOREM FollowUpInvHolds == Spec => []FollowUpInv
  <1>1. Init => FollowUpInv
    BY Starts
  <1>2. FollowUpInv /\ [Next]_vars => FollowUpInv'
    BY StepsKeep
  <1> QED
    BY <1>1, <1>2, PTL DEF Spec

\* Every row is one the tables admit, and every lock is held by the transaction
\* that needs it.
THEOREM TypeCorrect == Spec => []TypeOK
  <1>1. FollowUpInv => TypeOK
    BY TypeOKParts DEF FollowUpInv
  <1> QED
    BY <1>1, FollowUpInvHolds, PTL

\* A removal that found no usage and a follow-up that takes the text never both
\* commit (remove_text, schedule_follow_up).
THEOREM UsedTextsStay == Spec => []UsedTextKept
  <1>1. FollowUpInv => UsedTextKept
    BY DEF FollowUpInv
  <1> QED
    BY <1>1, FollowUpInvHolds, PTL

\* No failure, bounce, skip or race of an outcome leaves a running sequence
\* without a next step (_arm, on_follow_up_finished).
THEOREM NoneStranded == Spec => []NeverStranded
  <1>1. FollowUpInv => NeverStranded
    BY DEF FollowUpInv
  <1> QED
    BY <1>1, FollowUpInvHolds, PTL

-----------------------------------------------------------------------------
\* What a step may do to the row and to the plan.

\* A step keeps the row, or
\*   - starts the sequence again,
\*   - resumes a paused one,
\*   - schedules the step it is at,
\*   - sets a due date, and no more, or
\*   - ends what runs or is paused.
RowKept == row' = row /\ plan' = plan
StartsAgain == starting # "idle" /\ row' # None /\ row'.stop = "running" /\ plan' = <<>>
ResumesPaused == ResumeHolds /\ resume /\ row' # None /\ UNCHANGED <<plan, replies>>
SchedulesStep ==
  /\ Running /\ row' # None /\ row.step < Steps
  /\ Len(plan) = row.step /\ plan' = Append(plan, row.step + 1)
SetsDue == row # None /\ row' # None /\ row'.stop = row.stop /\ plan' = plan
EndsActive == (\E reason \in Stops \ {"running"} : row' = Stopped(reason)) /\ plan' = plan

RowStep == RowKept \/ StartsAgain \/ ResumesPaused \/ SchedulesStep \/ SetsDue \/ EndsActive

LEMMA RowSteps == ASSUME FollowUpInv, [Next]_vars PROVE RowStep
  <1>1. row # None => row \in Rows
    BY DEF FollowUpInv, RowsTyped
  <1>2. ASSUME NEW s \in Schedulers, Commit(s) PROVE SchedulesStep
    <2>1. Running /\ row.step = sched[s].step /\ sched[s].step < Steps
      BY <1>2 DEF FollowUpInv, AdvancedHolds, Commit
    <2>2. row.step + 1 \in 0..Steps
      BY <1>1, <2>1, BoundsAssumption DEF Running, Rows
    <2>3. PICK status \in Created :
            row' = State(row.step + 1, "none", IF status = "waiting" THEN row.stop ELSE status)
      BY <1>2, <2>1 DEF Commit
    <2>4. row' \in Rows
      BY <2>1, <2>2, <2>3 DEF State, Rows, Dues, Stops, Running, Created
    <2> QED
      BY <1>2, <2>1, <2>4, NoneIsNoRow
      DEF FollowUpInv, PlanHolds, Commit, SchedulesStep, Running
  <1>3. ASSUME NEW s \in Schedulers, List(s) \/ Advance(s) \/ AdvanceRefused(s) \/ Rollback(s)
        PROVE RowKept
    BY <1>3 DEF List, Advance, AdvanceRefused, Rollback, RowKept, rows, history
  <1>4. CASE ComesDue
    <2>1. row \in Rows /\ row' = State(row.step, "reached", row.stop) /\ plan' = plan
      BY <1>1, <1>4 DEF ComesDue, State, Rows, history
    <2> QED
      BY <1>4, <2>1, NoneIsNoRow DEF ComesDue, State, Rows, Dues, RowStep, SetsDue
  <1>5. ASSUME NEW x \in Texts, RemoveLocks(x) \/ UpdateText(x) PROVE RowKept
    BY <1>5 DEF RemoveLocks, UpdateText, RowKept, rows, history
  <1>6. CASE RemoveWrites
    BY <1>6 DEF RemoveWrites, RowStep, RowKept, history
  <1>7. ASSUME NEW i \in DOMAIN messages, MessageStep(i) PROVE RowStep
    <2>1. plan' = plan
      BY <1>7 DEF MessageStep, Check, Ends, ArmReads, ArmWrites, OnlyPlanned
    <2>2. CASE Check(i) \/ ArmReads(i)
      BY <2>1, <2>2 DEF Check, ArmReads, RowStep, RowKept
    <2>3. CASE Ends(i)
      BY <2>1, <2>3 DEF Ends, RowStep, RowKept, EndsActive, Stops
    <2>4. CASE ArmWrites(i)
      <3>1. row \in Rows
        BY <1>1, <2>4 DEF FollowUpInv, ArmingHolds, ArmWrites
      <3>2. row' = State(row.step, "later", row.stop) \/ row' = Stopped("finished")
        BY <2>4 DEF ArmWrites, Armed
      <3>3. State(row.step, "later", row.stop) \in Rows
        BY <3>1 DEF State, Rows, Dues
      <3> QED
        BY <2>1, <3>1, <3>2, <3>3, NoneIsNoRow DEF RowStep, SetsDue, EndsActive, State, Stops
    <2> QED
      BY <1>7, <2>2, <2>3, <2>4 DEF MessageStep
  <1>8. ASSUME NEW r \in Replies, MailStep(r) PROVE RowStep
    BY <1>8 DEF MailStep, ReplyMarks, ReplyStops, SuspicionPauses, SuspicionMarks,
       IngestRollsBack, HardBounce, SoftBounce, OnlyReply, history, RowStep, RowKept,
       EndsActive, Stops
  <1>9. ASSUME NEW r \in Replies, Confirm(r) \/ Dismiss(r) PROVE RowStep
    BY <1>9 DEF Confirm, Dismiss, OnlyReply, history, RowStep, RowKept, EndsActive, Stops
  <1>10. CASE ResumeChecks \/ ResumeRollsBack \/ StartReads \/ Compose
    BY <1>10 DEF ResumeChecks, ResumeRollsBack, StartReads, Compose, OnlyPlanned, rows,
       history, RowStep, RowKept
  <1>11. CASE ResumeWrites
    <2>1. row \in Rows /\ ResumeHolds
      BY <1>1, <1>11 DEF FollowUpInv, ResumeHolds, ResumeWrites
    <2>2. row' \in Rows
      BY <1>11, <2>1 DEF ResumeWrites, State, Rows, Dues, Stops
    <2> QED
      BY <1>11, <2>1, <2>2, NoneIsNoRow DEF ResumeWrites, history, RowStep, ResumesPaused
  <1>12. CASE StartWrites
    <2>1. row' \in Rows /\ row'.stop = "running"
      BY <1>12, BoundsAssumption DEF StartWrites, State, Rows, Dues, Stops
    <2> QED
      BY <1>12, <2>1, NoneIsNoRow DEF StartWrites, RowStep, StartsAgain
  <1>13. CASE UNCHANGED vars
    BY <1>13 DEF vars, rows, history, RowStep, RowKept
  <1> QED
    BY <1>2, <1>3, <1>4, <1>5, <1>6, <1>7, <1>8, <1>9, <1>10, <1>11, <1>12, <1>13
    DEF Next, SchedulerStep, Human, RowStep

LEMMA EndsKeepsFinal ==
  ASSUME EndsActive PROVE ~Running' /\ (row # None /\ row.stop \in Final => row' = row)
  BY DEF EndsActive, Stopped, Active, State, Running, Final, Stops

\* A reply or a confirmed opt-out is final: a resume that could write over it
\* holds the thread or has seen nothing undecided, and stop_sequence and _arm
\* leave the reason alone.
THEOREM RepliesAreFinal == Spec => ReplyIsFinal
  <1>1. ASSUME FollowUpInv, [Next]_vars, row # None, row.stop \in {"replied", "optout"}
        PROVE row'.stop = row.stop \/ starting # "idle"
    <2>1. ~Running /\ ~(ResumeHolds /\ resume)
      BY <1>1 DEF Running, ResumeHolds, Final
    <2> QED
      BY <1>1, <2>1, RowSteps, EndsKeepsFinal
      DEF RowStep, RowKept, StartsAgain, ResumesPaused, SchedulesStep, SetsDue, Final
  <1>2. FollowUpInv /\ [Next]_vars =>
          [row # None /\ row.stop \in {"replied", "optout"} =>
             row'.stop = row.stop \/ starting # "idle"]_vars
    BY <1>1
  <1> QED
    BY <1>2, FollowUpInvHolds, PTL DEF Spec, ReplyIsFinal

\* An undecided opt-out keeps the sequence from running again: a resume has
\* locked the thread before it looked, and the suspicion waits for that lock.
THEOREM SuspicionsHold == Spec => SuspicionHolds
  <1>1. ASSUME FollowUpInv, [Next]_vars, ~Running, Running',
               \E r \in Replies : replies'[r] = "undecided"
        PROVE starting # "idle"
    <2>1. ~ResumesPaused
      BY <1>1 DEF ResumesPaused, ResumeHolds, Undecided
    <2> QED
      BY <1>1, <2>1, RowSteps, EndsKeepsFinal
      DEF RowStep, RowKept, StartsAgain, SchedulesStep, SetsDue, Running
  <1>2. FollowUpInv /\ [Next]_vars =>
          [~Running /\ Running' /\ (\E r \in Replies : replies'[r] = "undecided") =>
             starting # "idle"]_vars
    BY <1>1
  <1> QED
    BY <1>2, FollowUpInvHolds, PTL DEF Spec, SuspicionHolds

\* Each step of a sequence is scheduled once, in its order and while it runs,
\* however many processes execute schedule_follow_ups.
THEOREM ImplementsPlan == Spec => KeepsPlan
  <1>1. Init => Plan!Init
    BY DEF Init, Plan!Init, Running
  <1>2. ASSUME FollowUpInv, [Next]_vars PROVE [Plan!Next]_<<plan, Running>>
    <2>1. Running \in BOOLEAN /\ Running' \in BOOLEAN
      BY DEF Running
    <2>2. CASE StartsAgain
      BY <2>2 DEF StartsAgain, Running, Plan!Next, Plan!Start
    <2>3. CASE SchedulesStep
      BY <2>1, <2>3 DEF SchedulesStep, Plan!Next, Plan!Schedule
    <2>4. CASE plan' = plan
      BY <2>1, <2>4 DEF Plan!Next, Plan!StopOrResume
    <2> QED
      BY <1>2, <2>2, <2>3, <2>4, RowSteps
      DEF RowStep, RowKept, ResumesPaused, SetsDue, EndsActive
  <1> QED
    BY <1>1, <1>2, FollowUpInvHolds, PTL DEF Spec, KeepsPlan, Plan!Spec
=============================================================================
