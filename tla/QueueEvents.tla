---------------------------- MODULE QueueEvents ----------------------------
(***************************************************************************)
(* What a reconcile pass tells the owner: project_queue_events compares    *)
(* the board with what earlier passes saw, records an event for a card     *)
(* that changed, climbs the attention ladder of a card that is blocked on  *)
(* its owner and of every other condition that lasts, and the command then *)
(* sends the new events.  A pass runs under the repository lease; workers  *)
(* change the board and the owner acknowledges at any time, each step of a *)
(* pass is a transaction of its own, and the process may die between them. *)
(***************************************************************************)
EXTENDS Integers, FiniteSets

CONSTANTS Cards,        \* the cards of the board
          Stage,        \* per card, its stage
          Reports,      \* lasting conditions: diagnostics, warnings, failed cleanups
          Levels,       \* _ATTENTION_LEVELS
          LadderTop,    \* highest count told apart (bounds a behaviour)
          MaxFailures,  \* failures counted on a card (bounds a behaviour)
          MaxTrouble    \* deaths, failures and lost messages (bounds a behaviour)

ASSUME LevelsAreRungs == 1 \in Levels /\ Levels \subseteq 1 .. (LadderTop - 1)
ASSUME EventBounds == LadderTop \in Nat /\ MaxFailures \in Nat /\ MaxTrouble \in Nat

VARIABLES board,        \* the cards: status, what the last worker left, failures
          seen,         \* orchestration_cards: the status the last pass saw
          ladder,       \* notification_attention: count and acknowledgement per topic
          due,          \* events the running pass has still to record
          noted,        \* the due event whose ladder the pass has just climbed
          passing,      \* a pass is running
          outbox,       \* events the pass recorded and has not sent
          log,          \* events recorded, the pings left out
          rung,         \* last level recorded per topic since an acknowledgement (history)
          pinged,       \* cards whose ping reached the owner (history)
          acked,        \* topics that were acknowledged at some time (history)
          lost,         \* completions still due when a pass ended early (history)
          trouble

told == <<rung, pinged, acked, lost>>
eventVars == <<board, seen, ladder, due, noted, passing, outbox, log, told, trouble>>

Topics == Cards \cup Reports
CardStatuses == {"ready", "running", "blocked", "done"}
Notes == {"none", "owner", "technical", "protocol"}
Unseen == "unseen"
NotableStages == {"implementation", "repair", "final_review", "merge", "post_merge"}
NewCard == [status |-> "ready", note |-> "none", fails |-> 0]
NoRow == [count |-> 0, acked |-> FALSE]
Nothing == {}

EventsInit ==
    /\ board = [c \in Cards |-> NewCard] /\ seen = [c \in Cards |-> Unseen]
    /\ ladder = [t \in Topics |-> NoRow]
    /\ due = {} /\ noted = Nothing /\ passing = FALSE /\ outbox = {} /\ log = {}
    /\ rung = [t \in Topics |-> 0] /\ pinged = {} /\ acked = {} /\ lost = {}
    /\ trouble = 0

----------------------------------------------------------------------------
(* The board and the owner, at any time.                                   *)

(* A worker or an earlier step of reconcile moves a card; a card that is   *)
(* blocked says on whom, a requeued one may say its handoff was incomplete *)
Moves == {<<"ready", "running", "none">>, <<"running", "done", "none">>,
          <<"running", "blocked", "owner">>, <<"running", "blocked", "technical">>,
          <<"running", "ready", "protocol">>, <<"blocked", "ready", "none">>}
BoardChanges(c) ==
    /\ \E move \in Moves :
          LET failed == move \in {<<"running", "blocked", "technical">>,
                                  <<"running", "ready", "protocol">>}
          IN  /\ board[c].status = move[1]
              /\ failed => board[c].fails < MaxFailures
              /\ board' = [board EXCEPT ![c] =
                    [status |-> move[2], note |-> move[3],
                     fails |-> IF failed THEN @.fails + 1 ELSE @.fails]]
    /\ UNCHANGED <<seen, ladder, due, noted, passing, outbox, log, told, trouble>>

(* acknowledge_attention: marks the row, if there is one that is open.     *)
Acknowledge(t) ==
    /\ ladder[t].count > 0 /\ ~ladder[t].acked
    /\ ladder' = [ladder EXCEPT ![t].acked = TRUE]
    /\ rung' = [rung EXCEPT ![t] = 0] /\ acked' = acked \cup {t}
    /\ UNCHANGED <<board, seen, due, noted, passing, outbox, log, pinged, lost, trouble>>

----------------------------------------------------------------------------
(* A pass.                                                                 *)

Event(kind, topic, level) == [kind |-> kind, topic |-> topic, level |-> level]

(* A card whose block reason is an owner's decision, or a cancellation.    *)
OwnerHeld(c) == board[c].status = "blocked" /\ board[c].note = "owner"

(* The cards that sync_orchestration_cards finds changed.                  *)
SeenBefore == {c \in Cards : seen[c] \notin {Unseen, board[c].status}}
Moved == {c \in Cards : seen[c] # board[c].status}

(* What a changed card is worth: it started, was requeued after an         *)
(* incomplete handoff, or is done in a stage that is worth telling.  A     *)
(* blocked card that waits for its owner climbs its ladder instead.        *)
ChangeIsTold(c) ==
    \/ board[c].status = "running" /\ Stage[c] = "implementation"
    \/ board[c].status = "ready" /\ board[c].note = "protocol"
    \/ board[c].status = "done" /\ Stage[c] \in NotableStages
Changes == {Event(board[c].status, c, 0) : c \in {d \in Moved : ChangeIsTold(d)}}
NewlyHeld == {Event("held", c, 0) : c \in {d \in Moved : OwnerHeld(d)}}
NoneStillHeld == {}
StillHeld == {Event("still held", c, 0) : c \in {d \in Cards \ Moved : OwnerHeld(d)}}

(* The automatic retries and repairs of reconcile, told once per card and  *)
(* failure count, whatever the pass (event_exists).                        *)
RetriesOnBoard(retried) ==
    {e \in {Event("retried", c, board[c].fails) : c \in retried} : e \notin log}

(* reconcile has run; the pass reads the board and the diagnostics, and    *)
(* records in one transaction which cards it saw.                          *)
ObservesBoard(retried, reports) ==
    /\ ~passing /\ passing' = TRUE
    /\ seen' = [c \in Cards |-> board[c].status]
    /\ due' = RetriesOnBoard(retried) \cup Changes \cup NewlyHeld \cup StillHeld
              \cup {Event("report", r, 0) : r \in reports}
    /\ UNCHANGED <<board, ladder, noted, outbox, log, told, trouble>>

(* The order in which a pass records: retries, changed cards, cards that   *)
(* are still held, reports.                                                *)
Phase(e) == IF e.kind = "retried" THEN 1 ELSE IF e.kind = "still held" THEN 3
            ELSE IF e.kind = "report" THEN 4 ELSE 2
IsNext(e) == /\ passing /\ noted = Nothing /\ e \in due
            /\ \A o \in due : Phase(e) <= Phase(o)
Climbs(e) == e.kind \in {"held", "still held", "report"}

RecordsChange(e) ==
    /\ IsNext(e) /\ ~Climbs(e)
    /\ due' = due \ {e} /\ log' = log \cup {e} /\ outbox' = outbox \cup {e}
    /\ UNCHANGED <<board, seen, ladder, noted, passing, told, trouble>>

(* note_attention: one more than the open row's count, or one; the upsert  *)
(* leaves acknowledged_at alone, so that an acknowledgement between its    *)
(* SELECT and its upsert is one before or after both.                      *)
CountsFromOne(row) == 1
NextCount(row) == IF row.acked THEN 1
                  ELSE IF row.count < LadderTop THEN row.count + 1 ELSE LadderTop
ClimbsLadder(e) ==
    /\ IsNext(e) /\ Climbs(e)
    /\ LET count == NextCount(ladder[e.topic])
       IN  /\ ladder' = [ladder EXCEPT ![e.topic].count = count]
           /\ noted' = {Event("ping", e.topic, count)}
    /\ due' = due \ {e}
    /\ UNCHANGED <<board, seen, passing, outbox, log, told, trouble>>

(* Only the rungs of the ladder are recorded.                              *)
RecordsPing(ping) ==
    /\ ping \in noted /\ noted' = Nothing
    /\ IF ping.level \in Levels
       THEN outbox' = outbox \cup {ping} /\ rung' = [rung EXCEPT ![ping.topic] = ping.level]
       ELSE UNCHANGED <<outbox, rung>>
    /\ UNCHANGED <<board, seen, ladder, due, passing, log, pinged, acked, lost, trouble>>

Recorded == passing /\ due = {} /\ noted = Nothing

(* _send_event: what the notifier refuses is recorded as a failure, and    *)
(* the event is not sent again.                                            *)
Sends(event) ==
    /\ Recorded /\ event \in outbox /\ outbox' = outbox \ {event}
    /\ pinged' = IF event.kind = "ping" THEN pinged \cup ({event.topic} \cap Cards) ELSE pinged
    /\ UNCHANGED <<board, seen, ladder, due, noted, passing, log, rung, acked, lost, trouble>>

SendRefused(event) ==
    /\ Recorded /\ event \in outbox /\ outbox' = outbox \ {event}
    /\ trouble < MaxTrouble /\ trouble' = trouble + 1
    /\ UNCHANGED <<board, seen, ladder, due, noted, passing, log, told>>

EndsBeforeSending ==
    /\ Recorded /\ passing' = FALSE
    /\ UNCHANGED <<board, seen, ladder, due, noted, outbox, log, told, trouble>>
PassEnds ==
    /\ Recorded /\ outbox = {} /\ passing' = FALSE
    /\ UNCHANGED <<board, seen, ladder, due, noted, outbox, log, told, trouble>>

(* What was committed stays; what was due or unsent is dropped.            *)
GivesUp ==
    /\ trouble < MaxTrouble /\ trouble' = trouble + 1
    /\ lost' = lost \cup {e \in due : e.kind = "done"}
    /\ due' = {} /\ noted' = Nothing
    /\ UNCHANGED <<board, seen, ladder, rung, pinged, acked>>

PassDies ==
    /\ passing /\ passing' = FALSE /\ outbox' = {} /\ GivesUp /\ UNCHANGED log

(* An exception of reconcile or of a later step: told once, until the      *)
(* event has left the last 200.                                            *)
Failure == Event("degraded", "reconcile", 0)
PassFails ==
    /\ GivesUp /\ passing' = TRUE
    /\ log' = log \cup {Failure}
    /\ outbox' = IF Failure \in log THEN {} ELSE {Failure}

PassStarts == \E retried \in SUBSET {c \in Cards : board[c].fails > 0},
                 reports \in SUBSET Reports : ObservesBoard(retried, reports)
PassStep ==
    \/ \E e \in due : RecordsChange(e) \/ ClimbsLadder(e)
    \/ \E ping \in noted : RecordsPing(ping)
    \/ \E event \in outbox : Sends(event) \/ SendRefused(event)
    \/ PassEnds

EventsNext ==
    \/ \E c \in Cards : BoardChanges(c)
    \/ \E t \in Topics : Acknowledge(t)
    \/ PassStarts \/ PassStep \/ PassDies \/ PassFails

(* The scheduler starts a pass again and again, and a pass that is neither *)
(* killed nor stopped by an exception goes on.                             *)
EventsSpec == /\ EventsInit /\ [][EventsNext]_eventVars
              /\ WF_eventVars(PassStarts) /\ WF_eventVars(PassStep)

----------------------------------------------------------------------------
(* Properties.                                                             *)

(* Types.  A pass that is not running has nothing to record or to send.    *)
EventsTypeOK ==
    /\ board \in [Cards -> [status : CardStatuses, note : Notes, fails : 0 .. MaxFailures]]
    /\ seen \in [Cards -> CardStatuses \cup {Unseen}]
    /\ ladder \in [Topics -> [count : 0 .. LadderTop, acked : BOOLEAN]]
    /\ passing \in BOOLEAN /\ Cardinality(noted) <= 1
    /\ ~passing => due = {} /\ noted = Nothing /\ outbox = {}
    /\ rung \in [Topics -> {0} \cup Levels] /\ pinged \subseteq Cards /\ acked \subseteq Topics
    /\ trouble \in 0 .. MaxTrouble

(* Between two passes, every card that a pass saw done in a stage worth    *)
(* telling is told by a recorded event, unless a pass ended early between  *)
(* seeing and recording it.                                                *)
DoneIsRecorded ==
    ~passing => \A c \in Cards :
        seen[c] = "done" /\ Stage[c] \in NotableStages =>
            Event("done", c, 0) \in log \cup lost

(* Until the owner acknowledges a topic, each ping recorded for it is on a *)
(* higher rung than the one before, over requeues, deaths and lost         *)
(* messages: the owner never gets the same ping twice.                     *)
PingsClimb ==
    [][\A ping \in outbox' \ outbox :
          ping.kind = "ping" /\ ping.topic \notin acked' => ping.level > rung[ping.topic]]_eventVars

(* A card that stays blocked on its owner: a ping reaches the owner, even  *)
(* when passes die or messages are lost (fewer than there are rungs).      *)
OwnerIsPinged == \A c \in Cards : OwnerHeld(c) ~> (c \in pinged \/ ~OwnerHeld(c))
=============================================================================
