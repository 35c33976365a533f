----------------------------- MODULE RepoLease -----------------------------
(***************************************************************************)
(* The SQLite lease of one repository: StateStore.lease (state.py), the    *)
(* liveness probe of a CLI owner, and the sessions that run inside it.     *)
(*                                                                         *)
(* A session is one `with state.lease(repo, owner)` block of one process.  *)
(* CLI sessions name their pid in the owner string, so a later session can *)
(* probe whether they still run; engine sessions (watch, cycle) are plain  *)
(* uuids and cannot be probed.  An owner string is never used twice: a     *)
(* session name returns to use only once no row holds it.                  *)
(*                                                                         *)
(* Time is kept relative to now.  row.left is expires_at - now, age[s] is  *)
(* how long ago s read the clock it will compare with, and left[s] is what *)
(* remains of the term s was granted.  Values below Floor are equivalent   *)
(* for every comparison the code makes, so they are saturated there.       *)
(***************************************************************************)
EXTENDS Integers

CONSTANTS Cli,        \* sessions whose owner is "cli:<operation>:<pid>:<uuid>"
          Engine,     \* sessions whose owner is the engine's run id
          NoOwner,    \* the repository has no row in the table leases
          TTL,        \* ttl of the lease, in ticks (four hours in the code)
          MaxWait,    \* ticks BEGIN IMMEDIATE waits before SQLite gives up
          Margin      \* Margin[s]: ticks before its expiry by which s has left

Session == Cli \cup Engine

ASSUME OwnersDiffer == NoOwner \notin Session /\ Cli \cap Engine = {}

ASSUME TimesAreSane == /\ TTL \in Nat /\ MaxWait \in Nat
                       /\ MaxWait < TTL
                       /\ Margin \in [Session -> Int]
                       /\ \A s \in Session : Margin[s] <= TTL - MaxWait

VARIABLES row,        \* the row of the table leases: owner and remaining time
          phase,      \* where each session is
          age,        \* how old the clock value of an asking session is
          left        \* remaining term of a session that is inside

vars == <<row, phase, age, left>>

Phases == {"absent", "asking", "inside", "dead"}

\* Margin[s] <= Floor says that nothing bounds how long s stays inside.
Floor == -MaxWait
Prompt == {s \in Session : Margin[s] >= 1}

(* Type correctness of the lease row, the sessions and the relative times. *)
TypeOK == /\ row \in [owner : Session \cup {NoOwner}, left : Floor .. TTL]
          /\ phase \in [Session -> Phases]
          /\ age \in [Session -> 0 .. MaxWait]
          /\ left \in [Session -> Floor .. TTL]

Free == [owner |-> NoOwner, left |-> 0]

Init == /\ row = Free
        /\ phase = [s \in Session |-> "absent"]
        /\ age = [s \in Session |-> 0]
        /\ left = [s \in Session |-> 0]

----------------------------------------------------------------------------

(* One tick of the clock.  Time does not pass a session beyond its margin, *)
(* nor an asking session beyond SQLite's busy timeout.                     *)
Down(n) == IF n > Floor THEN n - 1 ELSE n

Tick == /\ \A s \in Session : phase[s] = "asking" => age[s] < MaxWait
        /\ \A s \in Session : phase[s] = "inside" => Down(left[s]) >= Margin[s]
        /\ row' = IF row.owner = NoOwner THEN row
                                         ELSE [row EXCEPT !.left = Down(@)]
        /\ age' = [s \in Session |-> IF phase[s] = "asking" THEN age[s] + 1 ELSE 0]
        /\ left' = [s \in Session |-> IF phase[s] = "inside" THEN Down(left[s]) ELSE 0]
        /\ UNCHANGED phase

(* `now` is read before BEGIN IMMEDIATE, which may wait for other writers. *)
ReadClock(s) == /\ phase[s] = "absent"
                /\ phase' = [phase EXCEPT ![s] = "asking"]
                /\ age' = [age EXCEPT ![s] = 0]
                /\ UNCHANGED <<row, left>>

(* os.kill(pid, 0) on the owner of the row: an engine owner has no pid,    *)
(* and the pid of a dead process may since belong to another one.          *)
UnknownIsGone(o) == IF o \notin Cli \/ phase[o] = "dead" THEN {"gone"} ELSE {"running"}
ProbeAnswers(o) == IF o \notin Cli THEN {"unknown"}
                   ELSE IF phase[o] = "dead" THEN {"running", "gone"}
                   ELSE {"running"}

NeverExpired(s) == FALSE
ExpiredEarly(s) == row.left + age[s] <= 1
ExpiredFor(s) == row.left + age[s] <= 0

Obtainable(s, answer) == \/ row.owner \in {NoOwner, s}
                         \/ ExpiredFor(s)
                         \/ answer = "gone"

(* The upsert: the term counts from the clock value read before waiting.   *)
TermAfterWait(s) == TTL + age[s]
TermGranted(s) == TTL - age[s]

Acquire(s) == /\ phase[s] = "asking"
              /\ \E answer \in ProbeAnswers(row.owner) : Obtainable(s, answer)
              /\ row' = [owner |-> s, left |-> TermGranted(s)]
              /\ left' = [left EXCEPT ![s] = TermGranted(s)]
              /\ phase' = [phase EXCEPT ![s] = "inside"]
              /\ age' = [age EXCEPT ![s] = 0]

(* LeaseBusyError: the command reports busy and leaves the row alone.      *)
Busy(s) == /\ phase[s] = "asking"
           /\ \E answer \in ProbeAnswers(row.owner) : ~Obtainable(s, answer)
           /\ phase' = [phase EXCEPT ![s] = "absent"]
           /\ age' = [age EXCEPT ![s] = 0]
           /\ UNCHANGED <<row, left>>

(* SQLite gave up waiting, or the process died while it waited.            *)
GiveUp(s) == /\ phase[s] = "asking"
             /\ phase' = [phase EXCEPT ![s] = "absent"]
             /\ age' = [age EXCEPT ![s] = 0]
             /\ UNCHANGED <<row, left>>

(* The finally clause: DELETE ... WHERE repo = ? AND owner = ?             *)
AfterAnyRelease(s) == Free
AfterRelease(s) == IF row.owner = s THEN Free ELSE row

Leave(s) == /\ phase[s] = "inside"
            /\ phase' = [phase EXCEPT ![s] = "absent"]
            /\ left' = [left EXCEPT ![s] = 0]
            /\ row' = AfterRelease(s)
            /\ UNCHANGED age

(* The process is killed inside the block: its row stays behind.           *)
Crash(s) == /\ phase[s] = "inside"
            /\ phase' = [phase EXCEPT ![s] = "dead"]
            /\ left' = [left EXCEPT ![s] = 0]
            /\ UNCHANGED <<row, age>>

(* A later process gets a new owner string.                                *)
Replace(s) == /\ phase[s] = "dead"
              /\ row.owner # s
              /\ phase' = [phase EXCEPT ![s] = "absent"]
              /\ UNCHANGED <<row, age, left>>

Step(s) == \/ ReadClock(s) \/ Acquire(s) \/ Busy(s) \/ GiveUp(s)
           \/ Leave(s) \/ Crash(s) \/ Replace(s)

Next == Tick \/ \E s \in Session : Step(s)

Spec == Init /\ [][Next]_vars

(* Time passes, the scheduler keeps starting passes, a pass ends (every    *)
(* subprocess and model call runs under a timeout), and of infinitely many *)
(* requests SQLite does not time out all.                                  *)
Fairness == /\ WF_vars(Tick)
            /\ \A s \in Session : /\ WF_vars(ReadClock(s) \/ Replace(s))
                                  /\ SF_vars(Acquire(s) \/ Busy(s))
                                  /\ WF_vars(Leave(s))

FairSpec == Spec /\ Fairness

----------------------------------------------------------------------------

InTerm(s) == phase[s] = "inside" /\ left[s] > 0

(* At most one running session is inside an unexpired term, whatever       *)
(* crashes, overruns, late releases and stale clock values happened.       *)
TermExclusive == \A s, t \in Session : InTerm(s) /\ InTerm(t) => s = t

(* Sessions that leave before their term is over are never inside the      *)
(* block together, whatever sessions that overrun theirs do.               *)
NoOverlap == \A s, t \in Prompt :
                phase[s] = "inside" /\ phase[t] = "inside" => s = t

(* A row passes straight to another owner only when its time is up or its  *)
(* owner is a CLI process that is dead: an engine's unexpired row is left  *)
(* alone even after the engine died.                                       *)
TakenOver == row.owner # NoOwner /\ row'.owner \notin {row.owner, NoOwner}

TakeoverJustified ==
    [][TakenOver => \/ row.left <= 0
                    \/ row.owner \in Cli /\ phase[row.owner] = "dead"]_vars

(* A row left behind by a dead process does not keep the repository busy   *)
(* for ever: the expiry or the probe frees it.                             *)
DeadRowGoes == \A s \in Session :
                  row.owner = s /\ phase[s] = "dead" ~> row.owner # s

(* The lease implements the single term it promises.                       *)
Term == INSTANCE SingleTerm WITH entitled <- {s \in Session : InTerm(s)}
ImplementsSingleTerm == Term!Spec
=============================================================================
