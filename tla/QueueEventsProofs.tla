------------------------- MODULE QueueEventsProofs -------------------------
(***************************************************************************)
(* Proofs about QueueEvents: its type invariant, that completions a pass   *)
(* saw are recorded, and that pings climb until they are acknowledged.     *)
(***************************************************************************)
EXTENDS QueueEvents, FiniteSetTheorems, TLAPS

DueKinds == CardStatuses \cup {"held", "still held", "retried", "report"}

(* What a pass handles: due events are about topics and are no pings; the  *)
(* noted event, if there is one, is a ping.                                *)
Handled ==
    /\ \A e \in due : e.kind \in DueKinds /\ e.topic \in Topics
    /\ \A p \in noted : p.kind = "ping" /\ p.topic \in Topics /\ p.level \in 1 .. LadderTop

(* A topic that was never acknowledged is counted on: the last rung        *)
(* recorded is not above its count, and a ping that is noted is above it.  *)
CountedOn ==
    \A t \in Topics \ acked :
        /\ ~ladder[t].acked /\ rung[t] <= ladder[t].count
        /\ \A p \in noted : p.topic = t => rung[t] < p.level /\ p.level <= ladder[t].count

(* A completion that a pass saw is recorded, lost, or still to be recorded *)
(* by the running pass.                                                    *)
DoneIsHandled ==
    \A c \in Cards : seen[c] = "done" /\ Stage[c] \in NotableStages
                        => Event("done", c, 0) \in log \cup lost \cup due

EventsInv == EventsTypeOK /\ Handled /\ CountedOn /\ DoneIsHandled

----------------------------------------------------------------------------
LEMMA MovesAreTyped ==
    \A move \in Moves : move[2] \in CardStatuses /\ move[3] \in Notes
BY DEF Moves, CardStatuses, Notes

(* The next count is a count, and above every rung that the count reached. *)
LEMMA NextCountClimbs ==
    ASSUME NEW row \in [count : 0 .. LadderTop, acked : BOOLEAN]
    PROVE  /\ NextCount(row) \in 1 .. LadderTop
           /\ ~row.acked => \A r \in {0} \cup Levels : r <= row.count => r < NextCount(row)
<1>1. LadderTop \in Nat /\ LadderTop >= 2 /\ Levels \subseteq 1 .. (LadderTop - 1)
  BY LevelsAreRungs, EventBounds
<1>2. row.count \in 0 .. LadderTop /\ row.acked \in BOOLEAN
  OBVIOUS
<1>3. CASE row.acked
  BY <1>1, <1>3 DEF NextCount
<1>4. CASE ~row.acked /\ row.count < LadderTop
  BY <1>1, <1>2, <1>4 DEF NextCount
<1>5. CASE ~row.acked /\ ~(row.count < LadderTop)
  BY <1>1, <1>2, <1>5 DEF NextCount
<1> QED BY <1>2, <1>3, <1>4, <1>5

LEMMA RungsAreCounts ==
    \A r \in {0} \cup Levels : r \in Int /\ r <= LadderTop
<1>1. LadderTop \in Nat /\ LadderTop >= 2 /\ Levels \subseteq 1 .. (LadderTop - 1)
  BY LevelsAreRungs, EventBounds
<1> QED BY <1>1

LEMMA InitEstablishes == EventsInit => EventsInv
<1> SUFFICES ASSUME EventsInit PROVE EventsInv
  OBVIOUS
<1>1. Cardinality({}) = 0
  BY FS_EmptySet
<1>2. EventsTypeOK
  <2>1. 0 \in 0 .. LadderTop /\ 0 \in 0 .. MaxFailures /\ 0 \in 0 .. MaxTrouble
    BY EventBounds
  <2>2. NewCard \in [status : CardStatuses, note : Notes, fails : 0 .. MaxFailures]
    BY <2>1 DEF NewCard, CardStatuses, Notes
  <2>3. NoRow \in [count : 0 .. LadderTop, acked : BOOLEAN]
    BY <2>1 DEF NoRow
  <2>4. /\ board \in [Cards -> [status : CardStatuses, note : Notes, fails : 0 .. MaxFailures]]
        /\ seen \in [Cards -> CardStatuses \cup {Unseen}]
        /\ ladder \in [Topics -> [count : 0 .. LadderTop, acked : BOOLEAN]]
    BY <2>2, <2>3 DEF EventsInit
  <2>5. noted = {} /\ Cardinality(noted) <= 1
    BY <1>1 DEF EventsInit, Nothing
  <2>6. rung \in [Topics -> {0} \cup Levels] /\ trouble \in 0 .. MaxTrouble
    BY <2>1 DEF EventsInit
  <2>7. /\ passing \in BOOLEAN /\ pinged \subseteq Cards /\ acked \subseteq Topics
        /\ ~passing => due = {} /\ noted = Nothing /\ outbox = {}
    BY DEF EventsInit
  <2> QED BY <2>4, <2>5, <2>6, <2>7 DEF EventsTypeOK
<1>3. Handled /\ CountedOn /\ DoneIsHandled
  BY DEF EventsInit, Handled, CountedOn, DoneIsHandled, Nothing, NoRow, Unseen
<1> QED BY <1>2, <1>3 DEF EventsInv

----------------------------------------------------------------------------
(* One lemma per action.                                                   *)

LEMMA BoardStep ==
    ASSUME EventsInv, NEW c \in Cards, BoardChanges(c) PROVE EventsInv'
<1> USE DEF EventsInv
<1>1. PICK move \in Moves :
        LET failed == move \in {<<"running", "blocked", "technical">>,
                                <<"running", "ready", "protocol">>}
        IN  /\ board[c].status = move[1]
            /\ failed => board[c].fails < MaxFailures
            /\ board' = [board EXCEPT ![c] =
                  [status |-> move[2], note |-> move[3],
                   fails |-> IF failed THEN @.fails + 1 ELSE @.fails]]
  BY DEF BoardChanges
<1>2. UNCHANGED <<seen, ladder, due, noted, passing, outbox, log, told, trouble>>
  BY DEF BoardChanges
<1>3. board' \in [Cards -> [status : CardStatuses, note : Notes, fails : 0 .. MaxFailures]]
  <2>1. board[c].fails \in 0 .. MaxFailures
    BY DEF EventsTypeOK
  <2>2. DEFINE f == IF move \in {<<"running", "blocked", "technical">>,
                                  <<"running", "ready", "protocol">>}
                    THEN board[c].fails + 1 ELSE board[c].fails
  <2>3. f \in 0 .. MaxFailures
    BY <1>1, <2>1, EventBounds
  <2>4. board' = [board EXCEPT ![c] = [status |-> move[2], note |-> move[3], fails |-> f]]
    BY <1>1
  <2> QED BY <2>3, <2>4, MovesAreTyped DEF EventsTypeOK
<1>4. EventsTypeOK'
  BY <1>2, <1>3 DEF EventsTypeOK, told
<1>5. Handled' /\ CountedOn' /\ DoneIsHandled'
  BY <1>2 DEF Handled, CountedOn, DoneIsHandled, told
<1> QED BY <1>4, <1>5

LEMMA AcknowledgeStep ==
    ASSUME EventsInv, NEW t \in Topics, Acknowledge(t) PROVE EventsInv'
<1> USE DEF EventsInv, Acknowledge
<1>1. EventsTypeOK'
  BY DEF EventsTypeOK
<1>2. Handled' /\ DoneIsHandled'
  BY DEF Handled, DoneIsHandled
<1>3. CountedOn'
  BY DEF CountedOn, EventsTypeOK
<1> QED BY <1>1, <1>2, <1>3

LEMMA ObservesStep ==
    ASSUME EventsInv, NEW retried \in SUBSET Cards, NEW reports \in SUBSET Reports,
           ObservesBoard(retried, reports)
    PROVE  EventsInv'
<1> USE DEF EventsInv
<1>1. /\ ~passing /\ passing' = TRUE /\ seen' = [c \in Cards |-> board[c].status]
      /\ due' = RetriesOnBoard(retried) \cup Changes \cup NewlyHeld \cup StillHeld
                  \cup {Event("report", r, 0) : r \in reports}
      /\ UNCHANGED <<board, ladder, noted, outbox, log, told, trouble>>
  BY DEF ObservesBoard
<1>2. due = {} /\ noted = Nothing /\ outbox = {}
  BY <1>1 DEF EventsTypeOK
<1>3. EventsTypeOK'
  BY <1>1, <1>2 DEF EventsTypeOK, told
<1>4. Handled'
  <2>1. ASSUME NEW e \in due' PROVE e.kind \in DueKinds /\ e.topic \in Topics
    <3>1. CASE e \in RetriesOnBoard(retried)
      <4>1. PICK c \in Cards : e = Event("retried", c, board[c].fails)
        BY <3>1 DEF RetriesOnBoard
      <4>2. e.kind = "retried" /\ e.topic = c
        BY <4>1 DEF Event
      <4> QED BY <4>2 DEF DueKinds, Topics
    <3>2. CASE e \in Changes
      <4>1. PICK c \in Cards : e = Event(board[c].status, c, 0)
        BY <3>2 DEF Changes, Moved
      <4>2. board[c].status \in CardStatuses
        BY <4>1 DEF EventsTypeOK
      <4>3. e.kind \in CardStatuses /\ e.topic = c
        BY <4>1, <4>2 DEF Event
      <4> QED BY <4>3 DEF DueKinds, Topics
    <3>3. CASE e \in NewlyHeld \cup StillHeld
      <4>1. PICK c \in Cards : e = Event("held", c, 0) \/ e = Event("still held", c, 0)
        BY <3>3 DEF NewlyHeld, StillHeld, Moved
      <4>2. CASE e = Event("held", c, 0)
        BY <4>2 DEF Event, DueKinds, Topics
      <4>3. CASE e = Event("still held", c, 0)
        BY <4>3 DEF Event, DueKinds, Topics
      <4> QED BY <4>1, <4>2, <4>3
    <3>4. CASE e \in {Event("report", r, 0) : r \in reports}
      <4>1. PICK r \in reports : e = Event("report", r, 0)
        BY <3>4
      <4>2. e.kind = "report" /\ e.topic = r
        BY <4>1 DEF Event
      <4> QED BY <4>2 DEF DueKinds, Topics
    <3> QED BY <1>1, <2>1, <3>1, <3>2, <3>3, <3>4
  <2> QED BY <1>1, <1>2, <2>1 DEF Handled, Nothing
<1>5. CountedOn'
  BY <1>1, <1>2 DEF CountedOn, told, Nothing
<1>6. DoneIsHandled'
  <2> SUFFICES ASSUME NEW c \in Cards, board[c].status = "done", Stage[c] \in NotableStages
               PROVE  Event("done", c, 0) \in log \cup lost \cup due'
    BY <1>1 DEF DoneIsHandled, told
  <2>1. CASE c \in Moved
    BY <1>1, <2>1 DEF Changes, ChangeIsTold, Moved
  <2>2. CASE c \notin Moved
    BY <1>2, <2>2 DEF Moved, DoneIsHandled
  <2> QED BY <2>1, <2>2
<1> QED BY <1>3, <1>4, <1>5, <1>6

LEMMA RecordsChangeStep ==
    ASSUME EventsInv, NEW e \in due, RecordsChange(e) PROVE EventsInv'
<1> USE DEF EventsInv, RecordsChange, IsNext
<1>1. EventsTypeOK'
  BY DEF EventsTypeOK, told
<1>2. Handled' /\ CountedOn' /\ DoneIsHandled'
  BY DEF Handled, CountedOn, DoneIsHandled, told
<1> QED BY <1>1, <1>2

LEMMA ClimbsLadderStep ==
    ASSUME EventsInv, NEW e \in due, ClimbsLadder(e) PROVE EventsInv'
<1> USE DEF EventsInv
<1> DEFINE count == NextCount(ladder[e.topic])
           ping == Event("ping", e.topic, count)
<1>1. /\ passing /\ noted = {} /\ Climbs(e)
      /\ ladder' = [ladder EXCEPT ![e.topic].count = count]
      /\ noted' = {ping} /\ due' = due \ {e}
      /\ UNCHANGED <<board, seen, passing, outbox, log, told, trouble>>
  BY DEF ClimbsLadder, IsNext, Nothing
<1>2. e.topic \in Topics
  BY DEF Handled
<1>3. ladder[e.topic] \in [count : 0 .. LadderTop, acked : BOOLEAN]
  BY <1>2 DEF EventsTypeOK
<1>4. count \in 1 .. LadderTop
  BY <1>3, NextCountClimbs
<1>5. EventsTypeOK'
  <2>1. Cardinality(noted') = 1
    BY <1>1, FS_Singleton
  <2>2. ladder' \in [Topics -> [count : 0 .. LadderTop, acked : BOOLEAN]]
    BY <1>1, <1>2, <1>4, EventBounds DEF EventsTypeOK
  <2> QED BY <1>1, <2>1, <2>2 DEF EventsTypeOK, told
<1>6. Handled'
  BY <1>1, <1>2, <1>4 DEF Handled, Event
<1>7. CountedOn'
  <2> SUFFICES ASSUME NEW t \in Topics \ acked
               PROVE  /\ ~ladder'[t].acked /\ rung[t] <= ladder'[t].count
                      /\ \A p \in noted' : p.topic = t
                            => rung[t] < p.level /\ p.level <= ladder'[t].count
    BY <1>1 DEF CountedOn, told
  <2>1. ~ladder[t].acked /\ rung[t] <= ladder[t].count
    BY DEF CountedOn
  <2>2. CASE t = e.topic
    <3>1. rung[t] \in {0} \cup Levels
      BY DEF EventsTypeOK
    <3>2. rung[t] < count
      BY <1>3, <2>1, <2>2, <3>1, NextCountClimbs
    <3>3. ladder'[t].count = count /\ ladder'[t].acked = ladder[t].acked
      BY <1>1, <1>2, <2>2 DEF EventsTypeOK
    <3>4. rung[t] \in Int
      BY <3>1, RungsAreCounts
    <3>5. count \in Int
      BY <1>4, EventBounds
    <3> QED BY <1>1, <2>1, <3>2, <3>3, <3>4, <3>5 DEF Event
  <2>3. CASE t # e.topic
    BY <1>1, <2>1, <2>3 DEF Event, EventsTypeOK
  <2> QED BY <2>2, <2>3
<1>8. DoneIsHandled'
  <2>1. \A c \in Cards : Event("done", c, 0) # e
    <3> SUFFICES ASSUME NEW c \in Cards, e = Event("done", c, 0) PROVE FALSE
      OBVIOUS
    <3>1. e.kind = "done"
      BY DEF Event
    <3> QED BY <1>1, <3>1 DEF Climbs
  <2> QED BY <1>1, <2>1 DEF DoneIsHandled, told
<1> QED BY <1>5, <1>6, <1>7, <1>8

LEMMA RecordsPingStep ==
    ASSUME EventsInv, NEW ping \in noted, RecordsPing(ping) PROVE EventsInv'
<1> USE DEF EventsInv
<1>1. ping.topic \in Topics /\ ping.level \in 1 .. LadderTop
  BY DEF Handled
<1>2. passing
  BY DEF EventsTypeOK, Nothing
<1>3. Cardinality({}) = 0
  BY FS_EmptySet
<1>4. EventsTypeOK'
  BY <1>1, <1>2, <1>3 DEF EventsTypeOK, RecordsPing, Nothing
<1>5. Handled' /\ DoneIsHandled'
  BY DEF Handled, DoneIsHandled, RecordsPing, Nothing
<1>6. CountedOn'
  BY <1>1, EventBounds DEF CountedOn, RecordsPing, Nothing, EventsTypeOK
<1> QED BY <1>4, <1>5, <1>6

LEMMA SendStep ==
    ASSUME EventsInv, NEW event \in outbox, Sends(event) \/ SendRefused(event)
    PROVE  EventsInv'
<1> USE DEF EventsInv, Sends, SendRefused, Recorded
<1>1. EventsTypeOK'
  BY EventBounds DEF EventsTypeOK, told
<1>2. Handled' /\ CountedOn' /\ DoneIsHandled'
  BY DEF Handled, CountedOn, DoneIsHandled, told
<1> QED BY <1>1, <1>2

LEMMA PassEndsStep ==
    ASSUME EventsInv, PassEnds PROVE EventsInv'
<1> USE DEF EventsInv, PassEnds, Recorded
<1>1. EventsTypeOK'
  BY DEF EventsTypeOK, told
<1>2. Handled' /\ CountedOn' /\ DoneIsHandled'
  BY DEF Handled, CountedOn, DoneIsHandled, told
<1> QED BY <1>1, <1>2

LEMMA GivesUpStep ==
    ASSUME EventsInv, PassDies \/ PassFails PROVE EventsInv'
<1> USE DEF EventsInv
<1>1. /\ trouble < MaxTrouble /\ trouble' = trouble + 1
      /\ lost' = lost \cup {e \in due : ~Climbs(e) /\ e.kind = "done"}
      /\ due' = {} /\ noted' = {}
      /\ UNCHANGED <<board, seen, ladder, rung, pinged, acked>>
  BY DEF PassDies, PassFails, GivesUp, Nothing, Climbs
<1>2. /\ log \subseteq log'
      /\ passing' \in BOOLEAN /\ (~passing' => outbox' = {})
  BY DEF PassDies, PassFails
<1>3. Cardinality({}) = 0
  BY FS_EmptySet
<1>4. EventsTypeOK'
  BY <1>1, <1>2, <1>3, EventBounds DEF EventsTypeOK, Nothing
<1>5. Handled' /\ CountedOn'
  BY <1>1 DEF Handled, CountedOn
<1>6. DoneIsHandled'
  BY <1>1, <1>2 DEF DoneIsHandled, Climbs, Event
<1> QED BY <1>4, <1>5, <1>6

LEMMA StepKeeps == ASSUME EventsInv, [EventsNext]_eventVars PROVE EventsInv'
<1>1. ASSUME NEW c \in Cards, BoardChanges(c) PROVE EventsInv'
  BY <1>1, BoardStep
<1>2. ASSUME NEW t \in Topics, Acknowledge(t) PROVE EventsInv'
  BY <1>2, AcknowledgeStep
<1>3. CASE PassStarts
  <2>1. PICK retried \in SUBSET Cards, reports \in SUBSET Reports :
             ObservesBoard(retried, reports)
    BY <1>3 DEF PassStarts
  <2> QED BY <2>1, ObservesStep
<1>4. CASE PassStep
  BY <1>4, RecordsChangeStep, ClimbsLadderStep, RecordsPingStep, SendStep, PassEndsStep
  DEF PassStep
<1>5. CASE PassDies \/ PassFails
  BY <1>5, GivesUpStep
<1>6. CASE UNCHANGED eventVars
  <2>1. EventsTypeOK'
    BY <1>6 DEF EventsInv, EventsTypeOK, eventVars, told
  <2>2. Handled' /\ CountedOn' /\ DoneIsHandled'
    BY <1>6 DEF EventsInv, Handled, CountedOn, DoneIsHandled, eventVars, told
  <2> QED BY <2>1, <2>2 DEF EventsInv
<1> QED BY <1>1, <1>2, <1>3, <1>4, <1>5, <1>6 DEF EventsNext

LEMMA Invariant == EventsSpec => []EventsInv
BY InitEstablishes, StepKeeps, PTL DEF EventsSpec

----------------------------------------------------------------------------
(* The state of cards, ladders and passes is well typed, and a pass that   *)
(* is not running has nothing to record or to send (project_queue_events). *)
THEOREM TypeCorrect == EventsSpec => []EventsTypeOK
<1>1. EventsInv => EventsTypeOK
  BY DEF EventsInv
<1> QED BY <1>1, Invariant, PTL

(* Every completion that a pass saw is recorded once no pass is running,   *)
(* unless the pass died or failed in between.                              *)
THEOREM CompletionsRecorded == EventsSpec => []DoneIsRecorded
<1>1. EventsInv => DoneIsRecorded
  BY DEF EventsInv, EventsTypeOK, DoneIsHandled, DoneIsRecorded
<1> QED BY <1>1, Invariant, PTL

(* The pings of a topic climb the ladder (note_attention) until the owner  *)
(* acknowledges it, whatever dies or is lost.                              *)
THEOREM LadderClimbs == EventsSpec => PingsClimb
<1> DEFINE Above == \A ping \in outbox' \ outbox :
                       ping.kind = "ping" /\ ping.topic \notin acked'
                          => ping.level > rung[ping.topic]
<1>1. ASSUME EventsInv, [EventsNext]_eventVars PROVE [Above]_eventVars
  <2>1. SUFFICES ASSUME NEW ping \in outbox' \ outbox,
                        ping.kind = "ping", ping.topic \notin acked'
                 PROVE  ping.level > rung[ping.topic]
    OBVIOUS
  <2>2. ASSUME NEW e \in due, RecordsChange(e) PROVE FALSE
    <3>1. ping = e
      BY <2>1, <2>2 DEF RecordsChange
    <3> QED BY <1>1, <2>1, <3>1 DEF EventsInv, Handled, DueKinds, CardStatuses
  <2>3. ASSUME NEW p \in noted, RecordsPing(p) PROVE ping.level > rung[ping.topic]
    <3>1. ping = p /\ acked' = acked
      BY <2>1, <2>3 DEF RecordsPing
    <3>2. ping.topic \in Topics \ acked /\ ping.level \in Int
      BY <1>1, <2>1, <3>1 DEF EventsInv, Handled
    <3>3. rung[ping.topic] < ping.level
      BY <1>1, <3>1, <3>2 DEF EventsInv, CountedOn
    <3>4. rung[ping.topic] \in {0} \cup Levels
      BY <1>1, <3>2 DEF EventsInv, EventsTypeOK
    <3> QED BY <3>2, <3>3, <3>4, RungsAreCounts
  <2>4. CASE PassFails
    BY <2>1, <2>4 DEF PassFails, Failure, Event
  <2>5. ASSUME outbox' \subseteq outbox PROVE FALSE
    BY <2>1, <2>5
  <2> QED BY <1>1, <2>2, <2>3, <2>4, <2>5
      DEF EventsNext, PassStep, PassStarts, BoardChanges, Acknowledge, ObservesBoard,
          ClimbsLadder, Sends, SendRefused, PassEnds, PassDies, eventVars
<1> QED BY <1>1, Invariant, PTL DEF EventsSpec, PingsClimb
=============================================================================
