--------------------------- MODULE WorkflowProofs ---------------------------
(***************************************************************************)
(* Proofs about WorkflowReconcile, for any plans, adapters, profiles,      *)
(* budgets and bounds: the board, the stages, their evidence and their     *)
(* retries are in order although every pass decides from an old list.      *)
(*                                                                         *)
(* The operators first: what retry chains look like (Ancestry is a         *)
(* recursive function, so they are walked by induction over positions in   *)
(* the form of a set), and what a decision of a pass can be (Outcome).     *)
(* Then the actions, each reduced to what it does to a board (Worked,      *)
(* Moves, TurnOf, ...), the inductive invariant BoardInv, and what every   *)
(* step is (Change), from which the properties follow.  The order of the   *)
(* stages needs OrderFits, the chains need ChainsFit besides.              *)
(***************************************************************************)
EXTENDS WorkflowReconcile, FiniteSetTheorems, SequenceTheorems,
        WellFoundedInduction, TLAPS

----------------------------------------------------------------------------
(* Induction over the positions of a list, in the form of a set.           *)

(* Every nonempty set of naturals has a least member.                      *)
LEMMA LeastNatural ==
    ASSUME NEW S \in SUBSET Nat, S # {}
    PROVE  \E x \in S : \A y \in S : x <= y
<1> DEFINE Less == {p \in Nat \X Nat : p[1] < p[2]}
<1>1. Less = OpToRel(<, Nat)
  BY Zenon DEF OpToRel
<1>2. IsWellFoundedOn(Less, Nat)
  BY NatLessThanWellFounded, <1>1, Zenon
<1>3. PICK x \in S : \A y \in S : ~(<<y, x>> \in Less)
  BY <1>2, WFMin, Zenon
<1>4. \A y \in S : ~(y < x)
  BY <1>3
<1> QED BY <1>4

(* A set that has n whenever it has every smaller natural has them all.    *)
LEMMA SetInduction ==
    ASSUME NEW S, \A n \in Nat : (\A m \in Nat : m < n => m \in S) => n \in S
    PROVE  \A n \in Nat : n \in S
<1> SUFFICES ASSUME Nat \ S # {} PROVE FALSE
  OBVIOUS
<1>1. PICK x \in Nat \ S : \A y \in Nat \ S : x <= y
  BY LeastNatural
<1>2. \A m \in Nat : m < x => m \in S
  BY <1>1
<1> QED BY <1>1, <1>2

(* First and Last name a member of the set, the least and the greatest.    *)
LEMMA FirstIs ==
    ASSUME NEW S \in SUBSET Nat, S # {}
    PROVE  /\ First(S) \in S
           /\ \A y \in S : First(S) <= y
           /\ \A x \in S : (\A y \in S : x <= y) => x = First(S)
<1>1. \E x \in S : \A y \in S : x <= y
  BY LeastNatural
<1>2. First(S) \in S /\ \A y \in S : First(S) <= y
  BY <1>1, Zenon DEF First
<1>3. ASSUME NEW x \in S, \A y \in S : x <= y
      PROVE  x = First(S)
  <2>1. x \in Nat /\ First(S) \in Nat /\ x <= First(S) /\ First(S) <= x
    BY <1>2, <1>3
  <2> QED BY <2>1
<1> QED BY <1>2, <1>3

(* The same of Last, for positions of a list.                              *)
LEMMA LastIs ==
    ASSUME NEW n \in Nat, NEW S \in SUBSET (1 .. n), S # {}
    PROVE  Last(S) \in S
<1> DEFINE T == {n - x : x \in S}
<1>0. \A x \in S : n - x \in Nat
  OBVIOUS
<1>1. T \in SUBSET Nat /\ T # {}
  BY <1>0
<1>2. PICK t \in T : \A y \in T : t <= y
  BY <1>1, LeastNatural
<1>3. PICK x \in S : t = n - x
  OBVIOUS
<1>4. \A y \in S : x >= y
  <2> TAKE y \in S
  <2>1. n - y \in T /\ n - x <= n - y /\ x \in Nat /\ y \in Nat
    BY <1>2, <1>3
  <2> QED BY <2>1
<1> QED BY <1>4, Zenon DEF Last

----------------------------------------------------------------------------
(* The ancestry of a card.                                                 *)

(* The fields of a card that never change after its creation.              *)
Same(c, d) ==
    /\ d.slot = c.slot /\ d.stage = c.stage /\ d.qa = c.qa /\ d.deps = c.deps
    /\ d.retry = c.retry /\ d.repair = c.repair /\ d.recov = c.recov

(* A list refers only to earlier cards, and a retry is like what it        *)
(* retries.                                                                *)
Family(L) ==
    \A i \in DOMAIN L :
       /\ L[i].retry < i /\ L[i].repair < i /\ L[i].recov < i
       /\ \A d \in L[i].deps : d \in DOMAIN L /\ L[d].slot > 0
       /\ L[i].slot > 0 => L[i].retry = 0 /\ L[i].repair = 0 /\ L[i].recov = 0
       /\ L[i].slot = 0 /\ L[i].retry = 0 => L[i].deps = {}
       /\ L[i].slot = 1 => L[i].stage = "root" /\ L[i].deps = {}
       /\ L[i].retry # 0 => /\ L[i].slot = 0
                            /\ L[i].stage = L[L[i].retry].stage

Lists == {L \in Seq(CardRecords) : Family(L)}

Above(L, f, j) ==
    IF j = 0 \/ L[j].retry = 0 THEN {} ELSE {L[j].retry} \cup f[L[j].retry]

(* A retry comes after what it retries.                                    *)
LEMMA RetriesAreEarlier ==
    ASSUME NEW L \in Lists, NEW j \in DOMAIN L
    PROVE  /\ j \in 1 .. Len(L)
           /\ L[j] \in CardRecords /\ L[j].retry \in Nat /\ L[j].retry < j
           /\ L[j].retry # 0 => L[j].retry \in DOMAIN L
<1>1. L[j] \in CardRecords /\ L \in Seq(CardRecords) /\ L[j].retry < j
  BY DEF Lists, Family
<1>2. L[j].retry \in 0 .. MaxCards
  BY <1>1 DEF CardRecords
<1>3. DOMAIN L = 1 .. Len(L) /\ Len(L) \in Nat
  BY <1>1
<1> QED BY <1>1, <1>2, <1>3, WorkflowBounds

(* The recursion of Ancestry is well founded on a list: some function      *)
(* satisfies its equation, because a solution up to one position extends   *)
(* to the next.                                                            *)
LEMMA AncestryExists ==
    ASSUME NEW L \in Lists
    PROVE  \E f : f = [j \in 0 .. Len(L) |-> Above(L, f, j)]
<1> DEFINE Up(n) == {f \in [0 .. n -> SUBSET Nat] : \A j \in 0 .. n : f[j] = Above(L, f, j)}
           S == {n \in Nat : n <= Len(L) => Up(n) # {}}
<1>0. Len(L) \in Nat /\ DOMAIN L = 1 .. Len(L)
  BY DEF Lists
<1>1. ASSUME NEW n \in Nat, \A m \in Nat : m < n => m \in S
      PROVE  n \in S
  <2> SUFFICES ASSUME n <= Len(L) PROVE Up(n) # {}
    OBVIOUS
  <2>1. CASE n = 0
    <3> DEFINE f == [j \in 0 .. n |-> {}]
    <3>1. f \in Up(n)
      BY <2>1 DEF Above
    <3> QED BY <3>1
  <2>2. CASE n # 0
    <3>1. n - 1 \in Nat /\ n - 1 < n /\ n - 1 <= Len(L) /\ n \in DOMAIN L
      BY <2>2, <1>0
    <3>2. PICK f : f \in Up(n - 1)
      BY <1>1, <3>1
    <3> DEFINE g == [j \in 0 .. n |-> IF j < n THEN f[j] ELSE Above(L, f, n)]
    <3>3. \A j \in 0 .. n - 1 : g[j] = f[j] /\ f[j] \in SUBSET Nat /\ f[j] = Above(L, f, j)
      BY <3>2
    <3>4. \A j \in 1 .. n : L[j].retry \in 0 .. n - 1 /\ L[j].retry < j
      BY RetriesAreEarlier, <1>0
    <3> HIDE DEF g
    <3>5. \A j \in 0 .. n : Above(L, g, j) = Above(L, f, j)
      <4> TAKE j \in 0 .. n
      <4>1. CASE j = 0 \/ L[j].retry = 0
        BY <4>1, Zenon DEF Above
      <4>2. CASE ~(j = 0 \/ L[j].retry = 0)
        <5>1. g[L[j].retry] = f[L[j].retry]
          BY <4>2, <3>3, <3>4
        <5> QED BY <4>2, <5>1, Zenon DEF Above
      <4> QED BY <4>1, <4>2
    <3>6. g[n] = Above(L, f, n)
      BY DEF g
    <3>7. Above(L, f, n) \in SUBSET Nat
      <4>1. CASE n = 0 \/ L[n].retry = 0
        BY <4>1 DEF Above
      <4>2. CASE ~(n = 0 \/ L[n].retry = 0)
        <5>1. f[L[n].retry] \in SUBSET Nat /\ L[n].retry \in Nat
          BY <3>3, <3>4, <2>2
        <5>2. Above(L, f, n) = {L[n].retry} \cup f[L[n].retry]
          BY <4>2, Zenon DEF Above
        <5> QED BY <5>1, <5>2
      <4> QED BY <4>1, <4>2
    <3>8. \A j \in 0 .. n : j # n => j \in 0 .. n - 1
      OBVIOUS
    <3>9. \A j \in 0 .. n : g[j] = Above(L, g, j) /\ g[j] \in SUBSET Nat
      BY <3>3, <3>5, <3>6, <3>7, <3>8
    <3>10. g \in Up(n)
      BY <3>9 DEF g
    <3> QED BY <3>10
  <2> QED BY <2>1, <2>2
<1> HIDE DEF S
<1>2. \A n \in Nat : n \in S
  BY <1>1, SetInduction
<1>3. Up(Len(L)) # {}
  BY <1>2, <1>0 DEF S
<1>4. PICK f : f \in Up(Len(L))
  BY <1>3
<1>5. f = [j \in 0 .. Len(L) |-> f[j]] /\ \A j \in 0 .. Len(L) : f[j] = Above(L, f, j)
  BY <1>4
<1>6. f = [j \in 0 .. Len(L) |-> Above(L, f, j)]
  BY <1>5
<1> QED BY <1>6

(* So Ancestry satisfies it.                                               *)
LEMMA AncestryIs ==
    ASSUME NEW L \in Lists
    PROVE  Ancestry(L) = [j \in 0 .. Len(L) |-> Above(L, Ancestry(L), j)]
<1> DEFINE A == CHOOSE f : f = [j \in 0 .. Len(L) |-> Above(L, f, j)]
<1>1. A = [j \in 0 .. Len(L) |-> Above(L, A, j)]
  BY AncestryExists, Zenon
<1>2. Ancestry(L) = A
  BY DEF Ancestry, Above
<1> QED BY <1>1, <1>2

(* The equation for one card.                                              *)
LEMMA AncestorsAre ==
    ASSUME NEW L \in Lists, NEW j \in DOMAIN L
    PROVE  Ancestors(L, j) = IF L[j].retry = 0 THEN {}
                             ELSE {L[j].retry} \cup Ancestors(L, L[j].retry)
<1>1. j \in 0 .. Len(L) /\ j # 0
  BY RetriesAreEarlier DEF Lists
<1>2. Ancestry(L)[j] = Above(L, Ancestry(L), j)
  BY <1>1, AncestryIs
<1> QED BY <1>1, <1>2, Zenon DEF Ancestors, Above

(* Ancestors are earlier cards of the same stage.                          *)
LEMMA Genealogy ==
    ASSUME NEW L \in Lists, NEW j \in DOMAIN L
    PROVE  /\ Ancestors(L, j) \subseteq 1 .. j - 1
           /\ \A a \in Ancestors(L, j) : L[a].stage = L[j].stage
<1> DEFINE Fits(n) == /\ Ancestors(L, n) \subseteq 1 .. n - 1
                      /\ \A a \in Ancestors(L, n) : L[a].stage = L[n].stage
           S == {n \in Nat : n \in DOMAIN L => Fits(n)}
<1>1. ASSUME NEW n \in Nat, \A m \in Nat : m < n => m \in S
      PROVE  n \in S
  <2> SUFFICES ASSUME n \in DOMAIN L PROVE Fits(n)
    OBVIOUS
  <2>1. CASE L[n].retry = 0
    BY <2>1, AncestorsAre
  <2>2. CASE L[n].retry # 0
    <3> DEFINE r == L[n].retry
    <3>1. r \in DOMAIN L /\ r < n /\ r \in Nat /\ r \in 1 .. n - 1
      BY <2>2, RetriesAreEarlier DEF Lists
    <3>2. Ancestors(L, n) = {r} \cup Ancestors(L, r)
      BY <2>2, AncestorsAre
    <3>3. L[r].stage = L[n].stage
      BY <2>2 DEF Lists, Family
    <3>4. Fits(r)
      BY <1>1, <3>1
    <3> HIDE DEF r
    <3>5. 1 .. r - 1 \subseteq 1 .. n - 1
      BY <3>1
    <3> QED BY <3>1, <3>2, <3>3, <3>4, <3>5
  <2> QED BY <2>1, <2>2
<1> HIDE DEF S
<1>2. \A n \in Nat : n \in S
  BY <1>1, SetInduction
<1>3. j \in Nat
  BY RetriesAreEarlier
<1> QED BY <1>2, <1>3 DEF S

(* A list that has grown has the same ancestors.                           *)
Grew(L, M) == /\ Len(L) <= Len(M)
              /\ \A i \in DOMAIN L : i \in DOMAIN M /\ Same(L[i], M[i])

(* Rewriting cards and adding new ones leaves the ancestors of the old     *)
(* ones alone.                                                             *)
LEMMA AncestorsKept ==
    ASSUME NEW L \in Lists, NEW M \in Lists, Grew(L, M), NEW j \in DOMAIN L
    PROVE  Ancestors(M, j) = Ancestors(L, j)
<1> DEFINE S == {n \in Nat : n \in DOMAIN L => Ancestors(M, n) = Ancestors(L, n)}
<1>1. ASSUME NEW n \in Nat, \A m \in Nat : m < n => m \in S
      PROVE  n \in S
  <2> SUFFICES ASSUME n \in DOMAIN L PROVE Ancestors(M, n) = Ancestors(L, n)
    OBVIOUS
  <2> DEFINE r == L[n].retry
  <2>1. M[n].retry = r /\ n \in DOMAIN M
    BY DEF Grew, Same
  <2>2. r \in Nat /\ r < n /\ (r # 0 => r \in DOMAIN L)
    BY RetriesAreEarlier
  <2>3. r # 0 => Ancestors(M, r) = Ancestors(L, r)
    BY <1>1, <2>2
  <2>4. Ancestors(L, n) = IF r = 0 THEN {} ELSE {r} \cup Ancestors(L, r)
    BY AncestorsAre
  <2>5. Ancestors(M, n) = IF r = 0 THEN {} ELSE {r} \cup Ancestors(M, r)
    BY AncestorsAre, <2>1
  <2> HIDE DEF r
  <2> QED BY <2>3, <2>4, <2>5
<1> HIDE DEF S
<1>2. \A n \in Nat : n \in S
  BY <1>1, SetInduction
<1>3. j \in Nat
  BY RetriesAreEarlier
<1> QED BY <1>2, <1>3 DEF S

(* The card at the head of a chain of retries.                             *)
RootOf(L, j) == IF Ancestors(L, j) = {} THEN j ELSE First(Ancestors(L, j))

(* A card's root is that of the card it retries.                           *)
LEMMA RootIs ==
    ASSUME NEW L \in Lists, NEW j \in DOMAIN L
    PROVE  /\ RootOf(L, j) = IF L[j].retry = 0 THEN j ELSE RootOf(L, L[j].retry)
           /\ RootOf(L, j) \in DOMAIN L
           /\ L[j].retry = 0 => RootOf(L, j) = j
<1>0. Ancestors(L, j) \in SUBSET Nat
  BY Genealogy
<1>00. DOMAIN L = 1 .. Len(L) /\ Len(L) \in Nat
  BY DEF Lists
<1>1. CASE L[j].retry = 0
  <2>1. Ancestors(L, j) = {}
    BY <1>1, AncestorsAre
  <2> QED BY <1>1, <2>1 DEF RootOf
<1>2. CASE L[j].retry # 0
  <2> DEFINE r == L[j].retry
  <2>1. r \in DOMAIN L /\ r < j /\ r \in Nat
    BY <1>2, RetriesAreEarlier
  <2>2. Ancestors(L, j) = {r} \cup Ancestors(L, r)
    BY <1>2, AncestorsAre
  <2>3. Ancestors(L, r) \subseteq 1 .. r - 1
    BY <2>1, Genealogy
  <2>4. RootOf(L, j) = RootOf(L, r) /\ RootOf(L, j) \in Ancestors(L, j)
    <3>1. CASE Ancestors(L, r) = {}
      <4>1. Ancestors(L, j) = {r}
        BY <2>2, <3>1
      <4>2. First(Ancestors(L, j)) = r
        BY <4>1, <1>0, FirstIs
      <4> QED BY <4>1, <4>2, <3>1 DEF RootOf
    <3>2. CASE Ancestors(L, r) # {}
      <4>0. Ancestors(L, r) \in SUBSET Nat
        BY <2>3
      <4>1. /\ First(Ancestors(L, r)) \in Ancestors(L, r)
            /\ \A y \in Ancestors(L, r) : First(Ancestors(L, r)) <= y
        BY <3>2, <4>0, FirstIs
      <4>2. First(Ancestors(L, r)) <= r /\ First(Ancestors(L, r)) \in Ancestors(L, j)
        BY <4>1, <2>1, <2>2, <2>3
      <4>3. \A y \in Ancestors(L, j) : First(Ancestors(L, r)) <= y
        BY <4>1, <4>2, <2>2
      <4>4. First(Ancestors(L, r)) = First(Ancestors(L, j))
        BY <4>2, <4>3, <1>0, FirstIs
      <4> QED BY <4>2, <4>4, <3>2 DEF RootOf
    <3> QED BY <3>1, <3>2
  <2>5. RootOf(L, j) \in DOMAIN L
    <3>1. Ancestors(L, j) \subseteq 1 .. j - 1 /\ j \in 1 .. Len(L)
      BY Genealogy, <1>00
    <3>2. \A x \in 1 .. j - 1 : x \in 1 .. Len(L)
      BY <3>1, <1>00
    <3> QED BY <3>1, <3>2, <2>4, <1>00
  <2> QED BY <1>2, <2>4, <2>5
<1> QED BY <1>1, <1>2

(* The root of a card is no retry.                                         *)
LEMMA RootsAreNoRetries ==
    ASSUME NEW L \in Lists, NEW j \in DOMAIN L
    PROVE  L[RootOf(L, j)].retry = 0
<1> DEFINE S == {n \in Nat : n \in DOMAIN L => L[RootOf(L, n)].retry = 0}
<1>1. ASSUME NEW n \in Nat, \A m \in Nat : m < n => m \in S
      PROVE  n \in S
  <2> SUFFICES ASSUME n \in DOMAIN L PROVE L[RootOf(L, n)].retry = 0
    OBVIOUS
  <2>1. CASE L[n].retry = 0
    BY <2>1, RootIs
  <2>2. CASE L[n].retry # 0
    <3>1. L[n].retry \in DOMAIN L /\ L[n].retry \in Nat /\ L[n].retry < n
      BY <2>2, RetriesAreEarlier
    <3>2. RootOf(L, n) = RootOf(L, L[n].retry)
      BY <2>2, RootIs
    <3> QED BY <3>1, <3>2, <1>1
  <2> QED BY <2>1, <2>2
<1> HIDE DEF S
<1>2. \A n \in Nat : n \in S
  BY <1>1, SetInduction
<1>3. j \in Nat
  BY RetriesAreEarlier
<1> QED BY <1>2, <1>3 DEF S

----------------------------------------------------------------------------
(* What each way to rewrite a card keeps and changes.                      *)

ProofRecords == [form : {"none", "bare", "passed", "marked"}, head : 0 .. MaxHead]

(* The fields of a card.                                                   *)
LEMMA CardFields ==
    ASSUME NEW c \in CardRecords
    PROVE  /\ c.slot \in Nat /\ c.stage \in Stages /\ c.qa \in Profiles \cup {""}
           /\ c.deps \in SUBSET (1 .. MaxCards) /\ c.retry \in 0 .. MaxCards
           /\ c.repair \in 0 .. MaxCards /\ c.recov \in 0 .. MaxCards
           /\ c.status \in Statuses /\ c.why \in Whys /\ c.mark \in BOOLEAN
           /\ c.fails \in Nat /\ c.saw \in 0 .. MaxHead /\ c.proof \in ProofRecords
           /\ Same(c, c)
  BY DEF CardRecords, ProofRecords, Same

(* d is c but for status, why, failures, seen head and proof.              *)
Becomes(c, d, status) ==
    d \in CardRecords /\ Same(c, d) /\ d.status = status

(* The ways a card is rewritten keep what identifies it: reclaiming,       *)
LEMMA ReclaimedIs ==
    ASSUME NEW c \in CardRecords, NEW s \in Statuses
    PROVE  /\ Becomes(c, Reclaimed(c, s), s)
           /\ Reclaimed(c, s).why = c.why /\ Reclaimed(c, s).fails = c.fails
           /\ Reclaimed(c, s).proof = c.proof
  BY DEF CardRecords, Becomes, Same, Reclaimed

(* cancelling,                                                             *)
LEMMA CancelledIs ==
    ASSUME NEW c \in CardRecords
    PROVE  /\ Becomes(c, CancelledCard(c), "blocked")
           /\ CancelledCard(c).why = c.why /\ CancelledCard(c).fails = c.fails
  BY DEF CardRecords, Becomes, Same, Reclaimed, CancelledCard, Statuses

(* completing,                                                             *)
LEMMA DoneIs ==
    ASSUME NEW c \in CardRecords, NEW p \in ProofRecords
    PROVE  /\ Becomes(c, DoneWith(c, p), "done")
           /\ DoneWith(c, p).proof = p /\ DoneWith(c, p).fails = c.fails
  BY DEF CardRecords, Becomes, Same, DoneWith, Statuses, ProofRecords

(* reassigning,                                                            *)
LEMMA ReassignedIs ==
    ASSUME NEW c \in CardRecords
    PROVE  Becomes(c, [Reclaimed(c, "ready") EXCEPT !.fails = 0], "ready")
  BY DEF CardRecords, Becomes, Same, Reclaimed, Statuses

Counted(c, s, w, f) == [c EXCEPT !.status = s, !.why = w, !.fails = f]

(* counting a failure,                                                     *)
LEMMA CountedIs ==
    ASSUME NEW c \in CardRecords, NEW s \in Statuses, NEW w \in Whys, NEW f \in Nat
    PROVE  /\ Becomes(c, Counted(c, s, w, f), s)
           /\ Counted(c, s, w, f).why = w /\ Counted(c, s, w, f).fails = f
  BY DEF CardRecords, Becomes, Same, Counted

(* blocking,                                                               *)
LEMMA BlockedIs ==
    ASSUME NEW c \in CardRecords, NEW w \in Whys
    PROVE  /\ Becomes(c, BlockedFor(c, w), "blocked")
           /\ BlockedFor(c, w).why = w
           /\ BlockedFor(c, w).fails >= c.fails
           /\ backend = "workboard" => BlockedFor(c, w).fails > 0
<1> DEFINE f == IF backend = "direct" /\ w = "owner" THEN c.fails ELSE c.fails + 1
           d == Counted(c, "blocked", w, f)
<1>1. BlockedFor(c, w) = d
  BY DEF BlockedFor, Counted
<1>2. c.fails \in Nat
  BY CardFields
<1>3. f \in Nat /\ f >= c.fails /\ (backend = "workboard" => f > 0)
  BY <1>2
<1>4. "blocked" \in Statuses
  BY DEF Statuses
<1> HIDE DEF f
<1>5. Becomes(c, d, "blocked") /\ d.why = w /\ d.fails = f
  BY <1>3, <1>4, CountedIs
<1> HIDE DEF d
<1> QED BY <1>1, <1>3, <1>5

(* and what workers and owners do to it.                                   *)
LEMMA RewrittenIs ==
    ASSUME NEW c \in CardRecords
    PROVE  /\ \A h \in 0 .. MaxHead :
                LET d == [c EXCEPT !.status = "running", !.saw = h]
                IN  Becomes(c, d, "running") /\ d.fails = c.fails
           /\ LET d == [c EXCEPT !.status = "orphaned"]
              IN  Becomes(c, d, "orphaned") /\ d.fails = c.fails
           /\ LET d == [c EXCEPT !.status = "review"]
              IN  Becomes(c, d, "review") /\ d.fails = c.fails
           /\ LET d == [c EXCEPT !.status = "blocked", !.why = "cancelled"]
              IN  Becomes(c, d, "blocked") /\ d.fails = c.fails
           /\ LET d == [c EXCEPT !.status = "todo", !.why = "none"]
              IN  Becomes(c, d, "todo") /\ d.fails = c.fails
  BY DEF CardRecords, Becomes, Same, Statuses, Whys

ExpiredCard(c) ==
    [c EXCEPT !.fails = @ + 1, !.why = "technical",
              !.status = IF c.fails + 1 <= MaxRetries THEN "ready" ELSE "blocked"]

(* An expired claim counts a failure.                                      *)
LEMMA ExpiredIs ==
    ASSUME NEW c \in CardRecords
    PROVE  /\ ExpiredCard(c) \in CardRecords /\ Same(c, ExpiredCard(c))
           /\ ExpiredCard(c).status \in {"ready", "blocked"}
<1>0. c.fails \in Nat
  BY CardFields
<1>1. c.fails + 1 \in Nat
  BY <1>0
<1> DEFINE s == IF c.fails + 1 <= MaxRetries THEN "ready" ELSE "blocked"
           f == c.fails + 1
           d == [c EXCEPT !.fails = f, !.why = "technical", !.status = s]
<1>2. s \in {"ready", "blocked"} /\ s \in Statuses
  BY DEF Statuses
<1>3. ExpiredCard(c) = d
  BY DEF ExpiredCard
<1>4. f \in Nat /\ "technical" \in Whys
  BY <1>1 DEF Whys
<1> HIDE DEF s, f
<1>5. d \in CardRecords /\ Same(c, d) /\ d.status = s
  BY <1>2, <1>4 DEF CardRecords, Same
<1> HIDE DEF d
<1> QED BY <1>2, <1>3, <1>5

(* The bounds admit 0, no head and no card.                                *)
LEMMA ZeroFits == 0 \in 0 .. MaxHead /\ 0 \in 0 .. MaxCards
<1>1. MaxHead \in Nat /\ MaxCards \in Nat
  BY WorkflowBounds
<1> QED BY <1>1

NewCard(slot, stage, q, deps, status) ==
    [slot |-> slot, stage |-> stage, qa |-> q, deps |-> deps,
     retry |-> 0, repair |-> 0, recov |-> 0, status |-> status, why |-> "none",
     mark |-> FALSE, fails |-> 0, saw |-> 0, proof |-> NoProof]

(* A fresh card, field by field.                                           *)
LEMMA FreshIs ==
    ASSUME NEW slot \in Nat, NEW stage \in Stages, NEW q \in Profiles \cup {""},
           NEW deps \in SUBSET (1 .. MaxCards), NEW status \in Statuses
    PROVE  /\ Card(slot, Row(stage, q, deps), status) = NewCard(slot, stage, q, deps, status)
           /\ NewCard(slot, stage, q, deps, status) \in CardRecords
<1>2. NoProof \in [form : {"none", "bare", "passed", "marked"}, head : 0 .. MaxHead]
  BY ZeroFits DEF NoProof
<1>3. "none" \in Whys
  BY DEF Whys
<1>4. NewCard(slot, stage, q, deps, status) \in CardRecords
  BY ZeroFits, <1>2, <1>3 DEF CardRecords, NewCard
<1>5. Card(slot, Row(stage, q, deps), status) = NewCard(slot, stage, q, deps, status)
  BY DEF Card, Row, NewCard
<1> QED BY <1>4, <1>5

(* Setting a label sets nothing else.                                      *)
LEMMA LinkedIs ==
    ASSUME NEW c \in CardRecords, NEW r \in 0 .. MaxCards
    PROVE  /\ LET d == [c EXCEPT !.retry = r] IN d \in CardRecords /\ d.retry = r
                 /\ d.slot = c.slot /\ d.stage = c.stage /\ d.deps = c.deps
                 /\ d.repair = c.repair /\ d.recov = c.recov
           /\ LET d == [c EXCEPT !.repair = r] IN d \in CardRecords /\ d.repair = r
                 /\ d.slot = c.slot /\ d.stage = c.stage /\ d.deps = c.deps
                 /\ d.retry = c.retry /\ d.recov = c.recov
           /\ LET d == [c EXCEPT !.recov = r] IN d \in CardRecords /\ d.recov = r
                 /\ d.slot = c.slot /\ d.stage = c.stage /\ d.deps = c.deps
                 /\ d.retry = c.retry /\ d.repair = c.repair
  BY DEF CardRecords

(* What a pass adds for card i: a retry, a repair, a recovery.             *)
LEMMA OffspringIs ==
    ASSUME NEW L \in Lists, Len(L) <= MaxCards, NEW i \in DOMAIN L
    PROVE  /\ LET c == RetryCard(L[i], i)
              IN  /\ c \in CardRecords /\ c.slot = 0 /\ c.stage = L[i].stage
                  /\ c.deps \subseteq L[i].deps /\ c.retry = i
                  /\ c.repair = L[i].repair /\ c.recov = L[i].recov
           /\ LET c == RepairCard(i)
              IN  /\ c \in CardRecords /\ c.slot = 0 /\ c.deps = {} /\ c.retry = 0
                  /\ c.repair = i /\ c.recov = 0
           /\ LET c == RecoveryCard(i)
              IN  /\ c \in CardRecords /\ c.slot = 0 /\ c.deps = {} /\ c.retry = 0
                  /\ c.repair = 0 /\ c.recov = i
<1>0. L[i] \in CardRecords /\ i \in 1 .. Len(L) /\ Len(L) \in Nat
  BY RetriesAreEarlier DEF Lists
<1>1. i \in 0 .. MaxCards /\ {} \in SUBSET (1 .. MaxCards) /\ "" \in Profiles \cup {""}
  BY <1>0, WorkflowBounds
<1>2. /\ L[i].stage \in Stages /\ L[i].qa \in Profiles \cup {""}
      /\ L[i].repair \in 0 .. MaxCards /\ L[i].recov \in 0 .. MaxCards
      /\ L[i].deps \in SUBSET (1 .. MaxCards)
  BY <1>0, CardFields
<1>3. Visible(L[i]) \in SUBSET (1 .. MaxCards) /\ Visible(L[i]) \subseteq L[i].deps
  BY <1>2 DEF Visible
<1>4. "ready" \in Statuses /\ "repair" \in Stages /\ "control" \in Stages /\ 0 \in Nat
  BY DEF Statuses, Stages
<1>5. /\ Card(0, Row(L[i].stage, L[i].qa, Visible(L[i])), "ready")
           = NewCard(0, L[i].stage, L[i].qa, Visible(L[i]), "ready")
      /\ NewCard(0, L[i].stage, L[i].qa, Visible(L[i]), "ready") \in CardRecords
      /\ Card(0, Row("repair", "", {}), "ready") = NewCard(0, "repair", "", {}, "ready")
      /\ NewCard(0, "repair", "", {}, "ready") \in CardRecords
      /\ Card(0, Row("control", "", {}), "ready") = NewCard(0, "control", "", {}, "ready")
      /\ NewCard(0, "control", "", {}, "ready") \in CardRecords
  BY <1>1, <1>2, <1>3, <1>4, FreshIs
<1>7. LET c == RetryCard(L[i], i)
      IN  /\ c \in CardRecords /\ c.slot = 0 /\ c.stage = L[i].stage
          /\ c.deps \subseteq L[i].deps /\ c.retry = i
          /\ c.repair = L[i].repair /\ c.recov = L[i].recov
  <2> DEFINE row == Row(L[i].stage, L[i].qa, Visible(L[i]))
             c0 == Card(0, row, "ready")
             c1 == [c0 EXCEPT !.retry = i]
             c2 == [c1 EXCEPT !.repair = L[i].repair]
             c3 == [c2 EXCEPT !.recov = L[i].recov]
  <2>1. c0 = NewCard(0, L[i].stage, L[i].qa, Visible(L[i]), "ready") /\ c0 \in CardRecords
    BY <1>5
  <2>2. /\ c0 \in CardRecords /\ c0.slot = 0 /\ c0.stage = L[i].stage
        /\ c0.deps = Visible(L[i])
    BY <2>1 DEF NewCard
  <2> HIDE DEF c0
  <2>3. c1 \in CardRecords /\ c1.slot = 0 /\ c1.stage = L[i].stage /\ c1.deps = Visible(L[i])
        /\ c1.retry = i
    BY <2>2, <1>1, LinkedIs
  <2> HIDE DEF c1
  <2>4. c2 \in CardRecords /\ c2.slot = 0 /\ c2.stage = L[i].stage /\ c2.deps = Visible(L[i])
        /\ c2.retry = i /\ c2.repair = L[i].repair
    BY <2>3, <1>2, LinkedIs
  <2> HIDE DEF c2
  <2>5. c3 \in CardRecords /\ c3.slot = 0 /\ c3.stage = L[i].stage /\ c3.deps = Visible(L[i])
        /\ c3.retry = i /\ c3.repair = L[i].repair /\ c3.recov = L[i].recov
    BY <2>4, <1>2, LinkedIs
  <2>6. RetryCard(L[i], i) = c3
    BY DEF RetryCard, c2, c1, c0
  <2> HIDE DEF c3
  <2> QED BY <2>5, <2>6, <1>3
<1>8. LET c == RepairCard(i)
      IN  /\ c \in CardRecords /\ c.slot = 0 /\ c.deps = {} /\ c.retry = 0
          /\ c.repair = i /\ c.recov = 0
  <2> DEFINE row == Row("repair", "", {})
             c0 == Card(0, row, "ready")
             c1 == [c0 EXCEPT !.repair = i]
  <2>1. c0 = NewCard(0, "repair", "", {}, "ready") /\ c0 \in CardRecords
    BY <1>5
  <2>2. c0 \in CardRecords /\ c0.slot = 0 /\ c0.deps = {} /\ c0.retry = 0 /\ c0.recov = 0
    <3>1. c0 = NewCard(0, "repair", "", {}, "ready")
      BY <2>1
    <3> HIDE DEF c0
    <3>2. c0.slot = 0 /\ c0.deps = {} /\ c0.retry = 0 /\ c0.recov = 0
      BY <3>1 DEF NewCard
    <3>3. c0 \in CardRecords
      BY <1>5, <3>1
    <3> QED BY <3>2, <3>3
  <2> HIDE DEF c0
  <2>3. c1 \in CardRecords /\ c1.slot = 0 /\ c1.deps = {} /\ c1.retry = 0 /\ c1.recov = 0
        /\ c1.repair = i
    BY <2>2, <1>1, LinkedIs
  <2>4. RepairCard(i) = c1
    BY DEF RepairCard, c0
  <2> HIDE DEF c1
  <2> QED BY <2>3, <2>4
<1>9. LET c == RecoveryCard(i)
      IN  /\ c \in CardRecords /\ c.slot = 0 /\ c.deps = {} /\ c.retry = 0
          /\ c.repair = 0 /\ c.recov = i
  <2> DEFINE row == Row("control", "", {})
             c0 == Card(0, row, "ready")
             c1 == [c0 EXCEPT !.recov = i]
  <2>1. c0 = NewCard(0, "control", "", {}, "ready") /\ c0 \in CardRecords
    BY <1>5
  <2>2. c0 \in CardRecords /\ c0.slot = 0 /\ c0.deps = {} /\ c0.retry = 0 /\ c0.repair = 0
    <3>1. c0 = NewCard(0, "control", "", {}, "ready")
      BY <2>1
    <3> HIDE DEF c0
    <3>2. c0.slot = 0 /\ c0.deps = {} /\ c0.retry = 0 /\ c0.repair = 0
      BY <3>1 DEF NewCard
    <3>3. c0 \in CardRecords
      BY <1>5, <3>1
    <3> QED BY <3>2, <3>3
  <2> HIDE DEF c0
  <2>3. c1 \in CardRecords /\ c1.slot = 0 /\ c1.deps = {} /\ c1.retry = 0 /\ c1.repair = 0
        /\ c1.recov = i
    BY <2>2, <1>1, LinkedIs
  <2>4. RecoveryCard(i) = c1
    BY DEF RecoveryCard, c0
  <2> HIDE DEF c1
  <2> QED BY <2>3, <2>4
<1> QED BY <1>7, <1>8, <1>9, Zenon

----------------------------------------------------------------------------
(* What a pass may decide about a card of its list.                        *)

Counts(stage, proof) ==
    proof.form \in (IF stage = "final" THEN {"marked"} ELSE {"passed", "marked"})

Ended(c) == c.status \in {"review", "done", "blocked"}

Outcome(L, i, op) ==
    \/ op.name = "nothing"
    \/ /\ op.name = "complete" /\ op.card = i
       /\ Ended(L[i]) /\ (L[i].status = "blocked" => ~OwnerSide(L[i]))
       /\ op.proof \in ProofRecords /\ Counts(L[i].stage, op.proof)
    \/ /\ op.name = "requeue" /\ op.card \in DOMAIN L
       /\ \/ op.card = i /\ L[i].status = "blocked" /\ ~OwnerSide(L[i])
          \/ L[op.card].repair = i
    \/ /\ op.name = "reassign" /\ op.card = i
       /\ L[i].status \in {"ready", "todo"} /\ ~WithinBudget(L[i])
    \/ /\ op.name = "retry" /\ op.card = i
       /\ Ended(L[i]) \/ (backend = "workboard" /\ L[i].fails > 0)
       /\ L[i].stage = "merge" \/ ~RetriesExhausted(L, i)
    \/ op.name = "repair" /\ op.card = i
    \/ op.name = "recovery" /\ op.card \in DOMAIN L
    \/ /\ op.name = "recheck" /\ op.card = i
       /\ L[i].stage = "final" /\ L[i].status = "blocked"

(* The parts of an operation.                                              *)
LEMMA OpIs ==
    ASSUME NEW n, NEW c, NEW p
    PROVE  Op(n, c, p).name = n /\ Op(n, c, p).card = c /\ Op(n, c, p).proof = p
  BY DEF Op

(* The decisions of a pass, one lemma per operator: deciding nothing,      *)
LEMMA NothingIs == \A L, i : Outcome(L, i, Nothing)
<1>1. Nothing.name = "nothing"
  BY DEF Nothing, Op
<1> QED BY <1>1, Zenon DEF Outcome

(* promoting a retry's proof,                                              *)
LEMMA PromoteIs ==
    ASSUME NEW L \in Lists, NEW i \in DOMAIN L, PassedRetries(L, i) # {},
           Ended(L[i]), L[i].status = "blocked" => ~OwnerSide(L[i])
    PROVE  Outcome(L, i, Promote(L, i))
<1> DEFINE f == First(PassedRetries(L, i))
           op == Promote(L, i)
<1>1. PassedRetries(L, i) \in SUBSET DOMAIN L
  BY DEF PassedRetries, Descendants
<1>2. DOMAIN L = 1 .. Len(L) /\ Len(L) \in Nat
  BY DEF Lists
<1>3. PassedRetries(L, i) \in SUBSET Nat
  BY <1>1, <1>2
<1>4. f \in PassedRetries(L, i)
  BY <1>3, FirstIs
<1>5. f \in DOMAIN L /\ i \in Ancestors(L, f) /\ HasProof(L[f])
  BY <1>4 DEF PassedRetries, Descendants
<1>6. L[f].stage = L[i].stage
  BY <1>5, Genealogy
<1>7. L[f].proof \in ProofRecords
  BY <1>5, RetriesAreEarlier, CardFields
<1>8. Counts(L[i].stage, L[f].proof)
  BY <1>5, <1>6 DEF HasProof, Counts
<1>9. op.name = "complete" /\ op.card = i /\ op.proof = L[f].proof
  BY OpIs DEF Promote, CompleteWith
<1> HIDE DEF f, op
<1>10. Outcome(L, i, op)
  BY <1>7, <1>8, <1>9 DEF Outcome
<1> QED BY <1>10 DEF op

(* a recovery card,                                                        *)
LEMMA RecoveryIs ==
    ASSUME NEW L \in Lists, NEW i, NEW j \in DOMAIN L
    PROVE  Outcome(L, i, FreshRecovery(L, j))
<1>1. CASE FreshRecovery(L, j) = Nothing
  BY <1>1, NothingIs
<1>2. CASE FreshRecovery(L, j) = Op("recovery", j, NoProof)
  <2>1. FreshRecovery(L, j).name = "recovery" /\ FreshRecovery(L, j).card = j
    BY <1>2, OpIs
  <2> QED BY <2>1 DEF Outcome
<1> QED BY <1>1, <1>2 DEF FreshRecovery

(* a fresh retry,                                                          *)
LEMMA RetryIs ==
    ASSUME NEW L \in Lists, NEW i \in DOMAIN L,
           Ended(L[i]) \/ (backend = "workboard" /\ L[i].fails > 0),
           L[i].stage = "merge" \/ ~RetriesExhausted(L, i)
    PROVE  Outcome(L, i, FreshRetry(L, i))
<1>1. CASE FreshRetry(L, i) = Nothing
  BY <1>1, NothingIs
<1>2. CASE FreshRetry(L, i) = Op("retry", i, NoProof)
  <2>1. FreshRetry(L, i).name = "retry" /\ FreshRetry(L, i).card = i
    BY <1>2, OpIs
  <2> QED BY <2>1 DEF Outcome
<1> QED BY <1>1, <1>2 DEF FreshRetry

(* either of them, as the chain allows,                                    *)
LEMMA RetryOrRecoverIs ==
    ASSUME NEW L \in Lists, NEW i \in DOMAIN L, Ended(L[i])
    PROVE  Outcome(L, i, RetryOrRecover(L, i))
<1>1. CASE ActiveRetries(L, i) # {}
  <2> DEFINE r == First(ActiveRetries(L, i))
  <2>1. ActiveRetries(L, i) \in SUBSET DOMAIN L
    BY DEF ActiveRetries, RetriesOf
  <2>2. DOMAIN L = 1 .. Len(L) /\ Len(L) \in Nat
    BY DEF Lists
  <2>3. ActiveRetries(L, i) \in SUBSET Nat
    BY <2>1, <2>2
  <2>4. r \in DOMAIN L
    BY <1>1, <2>1, <2>3, FirstIs
  <2>5. RetryOrRecover(L, i) = IF RetriesExhausted(L, r) THEN FreshRecovery(L, r) ELSE Nothing
    BY <1>1 DEF RetryOrRecover
  <2> HIDE DEF r
  <2> QED BY <2>4, <2>5, RecoveryIs, NothingIs, Zenon
<1>2. CASE ActiveRetries(L, i) = {}
  <2>1. RetryOrRecover(L, i) = IF RetriesExhausted(L, i) THEN FreshRecovery(L, i)
                               ELSE FreshRetry(L, i)
    BY <1>2 DEF RetryOrRecover
  <2>2. CASE RetriesExhausted(L, i)
    BY <2>1, <2>2, RecoveryIs, Zenon
  <2>3. CASE ~RetriesExhausted(L, i)
    <3>1. Outcome(L, i, FreshRetry(L, i))
      BY <2>3, RetryIs, Zenon
    <3> QED BY <2>1, <2>3, <3>1, Zenon
  <2> QED BY <2>2, <2>3
<1> QED BY <1>1, <1>2

(* a requeue,                                                              *)
LEMMA RequeueIs ==
    ASSUME NEW L \in Lists, NEW i, NEW j \in DOMAIN L,
           \/ j = i /\ L[i].status = "blocked" /\ ~OwnerSide(L[i])
           \/ L[j].repair = i
    PROVE  Outcome(L, i, RequeueOrRecover(L, j))
<1>1. CASE WithinBudget(L[j])
  <2>1. RequeueOrRecover(L, j) = Op("requeue", j, NoProof)
    BY <1>1 DEF RequeueOrRecover
  <2>2. RequeueOrRecover(L, j).name = "requeue" /\ RequeueOrRecover(L, j).card = j
    BY <2>1, OpIs
  <2> QED BY <2>2 DEF Outcome
<1>2. CASE ~WithinBudget(L[j])
  <2>1. RequeueOrRecover(L, j) = FreshRecovery(L, j)
    BY <1>2 DEF RequeueOrRecover
  <2> QED BY <2>1, RecoveryIs, Zenon
<1> QED BY <1>1, <1>2

(* the turn of a blocked reviewer,                                         *)
LEMMA BlockedReviewerIs ==
    ASSUME NEW L \in Lists, NEW i \in DOMAIN L, L[i].status = "blocked", ~OwnerSide(L[i])
    PROVE  Outcome(L, i, BlockedReviewer(L, i))
<1>1. CASE L[i].stage = "final" /\ L[i].why \in {"none", "stale"} /\ ValidPredecessors(L, i)
  <2>1. BlockedReviewer(L, i) = Op("recheck", i, NoProof)
    BY <1>1, Zenon DEF BlockedReviewer
  <2>2. BlockedReviewer(L, i).name = "recheck" /\ BlockedReviewer(L, i).card = i
    BY <2>1, OpIs
  <2> QED BY <2>2, <1>1 DEF Outcome
<1>2. CASE ~(L[i].stage = "final" /\ L[i].why \in {"none", "stale"} /\ ValidPredecessors(L, i))
  <2>1. CASE \E j \in RepairsOf(L, i) : L[j].status = "done" /\ Valid(L, j)
    <3>1. BlockedReviewer(L, i) = RetryOrRecover(L, i)
      BY <1>2, <2>1, Zenon DEF BlockedReviewer
    <3>2. Ended(L[i])
      BY DEF Ended
    <3> QED BY <3>1, <3>2, RetryOrRecoverIs, Zenon
  <2>2. CASE ~\E j \in RepairsOf(L, i) : L[j].status = "done" /\ Valid(L, j)
    <3>1. CASE RepairsOf(L, i) # {}
      <4> DEFINE r == Last(RepairsOf(L, i))
      <4>1. BlockedReviewer(L, i) = RequeueOrRecover(L, r)
        BY <1>2, <2>2, <3>1, Zenon DEF BlockedReviewer
      <4>2. DOMAIN L = 1 .. Len(L) /\ Len(L) \in Nat
        BY DEF Lists
      <4>3. RepairsOf(L, i) \in SUBSET (1 .. Len(L))
        BY <4>2 DEF RepairsOf
      <4>4. r \in RepairsOf(L, i)
        BY <3>1, <4>2, <4>3, LastIs
      <4>5. r \in DOMAIN L /\ L[r].repair = i
        BY <4>4 DEF RepairsOf
      <4> HIDE DEF r
      <4> QED BY <4>1, <4>5, RequeueIs, Zenon
    <3>2. CASE RepairsOf(L, i) = {}
      <4>1. BlockedReviewer(L, i) = Op("repair", i, NoProof)
        BY <1>2, <2>2, <3>2, Zenon DEF BlockedReviewer
      <4>2. BlockedReviewer(L, i).name = "repair" /\ BlockedReviewer(L, i).card = i
        BY <4>1, OpIs
      <4> QED BY <4>2 DEF Outcome
    <3> QED BY <3>1, <3>2
  <2> QED BY <2>1, <2>2
<1> QED BY <1>1, <1>2

(* of any blocked card,                                                    *)
LEMMA BlockedOutcome ==
    ASSUME NEW L \in Lists, NEW i \in DOMAIN L, L[i].status = "blocked"
    PROVE  Outcome(L, i, Blocked(L, i))
<1>0. Ended(L[i])
  BY DEF Ended
<1>1. CASE OwnerSide(L[i]) \/ L[i].mark
  <2>1. Blocked(L, i) = Nothing
    BY <1>1, Zenon DEF Blocked
  <2> QED BY <2>1, NothingIs
<1>2. CASE ~(OwnerSide(L[i]) \/ L[i].mark)
  <2>1. CASE PassedRetries(L, i) # {}
    <3>1. Blocked(L, i) = Promote(L, i)
      BY <1>2, <2>1, Zenon DEF Blocked
    <3>2. Outcome(L, i, Promote(L, i))
      BY <1>0, <1>2, <2>1, PromoteIs, Zenon
    <3> QED BY <3>1, <3>2
  <2>2. CASE PassedRetries(L, i) = {}
    <3>1. CASE L[i].stage = "merge" /\ MergeReviewed(L, i)
      <4>1. Blocked(L, i) = FreshRetry(L, i)
        BY <1>2, <2>2, <3>1, Zenon DEF Blocked
      <4> QED BY <4>1, <1>0, <3>1, RetryIs, Zenon
    <3>2. CASE ~(L[i].stage = "merge" /\ MergeReviewed(L, i))
      <4>1. CASE L[i].stage \in ReviewerStages
        <5>1. Blocked(L, i) = BlockedReviewer(L, i)
          BY <1>2, <2>2, <3>2, <4>1, Zenon DEF Blocked
        <5> QED BY <5>1, <1>2, BlockedReviewerIs, Zenon
      <4>2. CASE L[i].stage \notin ReviewerStages
        <5>1. Blocked(L, i) = RequeueOrRecover(L, i)
          BY <1>2, <2>2, <3>2, <4>2, Zenon DEF Blocked
        <5> QED BY <5>1, <1>2, RequeueIs, Zenon
      <4> QED BY <4>1, <4>2
    <3> QED BY <3>1, <3>2
  <2> QED BY <2>1, <2>2
<1> QED BY <1>1, <1>2

(* and of a card that ended without a proof that counts.                   *)
LEMMA UnprovenIs ==
    ASSUME NEW L \in Lists, NEW i \in DOMAIN L, L[i].status \in {"review", "done"}
    PROVE  Outcome(L, i, Unproven(L, i))
<1>0. Ended(L[i]) /\ L[i].status # "blocked"
  BY DEF Ended
<1>1. CASE PassedRetries(L, i) # {}
  <2>1. Outcome(L, i, Promote(L, i))
    BY <1>0, <1>1, PromoteIs, Zenon
  <2>2. Unproven(L, i) = Promote(L, i)
    BY <1>1, Zenon DEF Unproven
  <2> QED BY <2>1, <2>2
<1>2. CASE PassedRetries(L, i) = {}
  <2>1. Unproven(L, i) = RetryOrRecover(L, i)
    BY <1>2, Zenon DEF Unproven
  <2> QED BY <2>1, <1>0, RetryOrRecoverIs, Zenon
<1> QED BY <1>1, <1>2

(* Every decision is one of the outcomes above.                            *)
LEMMA Decisions ==
    ASSUME NEW L \in Lists, NEW i \in DOMAIN L
    PROVE  Outcome(L, i, Decision(L, i))
<1> DEFINE c == L[i]
           A1 == c.stage = "repair" /\ RepairObsolete(L, i)
           A2 == /\ c.stage = "merge" /\ c.retry = 0
                 /\ HasFailureEvidence(c) /\ MergeReviewed(L, i)
           A3 == c.status \in {"ready", "todo"} /\ ~WithinBudget(c)
           A4 == c.stage # "root" /\ c.status = "review"
           A5 == c.stage # "root" /\ c.status = "done" /\ ~Valid(L, i)
<1>0. Decision(L, i) =
        IF A1 THEN Nothing ELSE IF A2 THEN FreshRetry(L, i)
        ELSE IF A3 THEN Op("reassign", i, NoProof)
        ELSE IF A4 THEN IF Valid(L, i) THEN CompleteWith(i, c.proof) ELSE Unproven(L, i)
        ELSE IF A5 THEN Unproven(L, i)
        ELSE IF c.status = "blocked" THEN Blocked(L, i)
        ELSE Nothing
  BY Zenon DEF Decision
<1>1. A2 => Outcome(L, i, FreshRetry(L, i))
  <2>1. ASSUME A2
        PROVE  /\ L[i].stage = "merge"
               /\ Ended(L[i]) \/ (backend = "workboard" /\ L[i].fails > 0)
    BY <2>1 DEF HasFailureEvidence, Ended
  <2> QED BY <2>1, RetryIs, Zenon
<1>2. A3 => Outcome(L, i, Op("reassign", i, NoProof))
  <2>1. /\ Op("reassign", i, NoProof).name = "reassign"
        /\ Op("reassign", i, NoProof).card = i
    BY OpIs
  <2> QED BY <2>1, Zenon DEF Outcome
<1>3. A4 /\ Valid(L, i) => Outcome(L, i, CompleteWith(i, c.proof))
  <2> SUFFICES ASSUME A4, Valid(L, i) PROVE Outcome(L, i, CompleteWith(i, c.proof))
    OBVIOUS
  <2> DEFINE op == CompleteWith(i, c.proof)
  <2>1. op.name = "complete" /\ op.card = i /\ op.proof = L[i].proof
    BY OpIs DEF CompleteWith
  <2>2. L[i].proof \in ProofRecords
    BY RetriesAreEarlier, CardFields
  <2>3. Counts(L[i].stage, L[i].proof)
    BY DEF Valid, HasProof, Counts
  <2>4. Ended(L[i]) /\ L[i].status # "blocked"
    BY DEF Ended
  <2> HIDE DEF op
  <2>5. Outcome(L, i, op)
    BY <2>1, <2>2, <2>3, <2>4, Zenon DEF Outcome
  <2> QED BY <2>5 DEF op
<1>4. A4 \/ A5 => Outcome(L, i, Unproven(L, i))
  BY UnprovenIs
<1>5. c.status = "blocked" => Outcome(L, i, Blocked(L, i))
  BY BlockedOutcome
<1> HIDE DEF c, A1, A2, A3, A4, A5
<1> QED BY <1>0, <1>1, <1>2, <1>3, <1>4, <1>5, NothingIs, Zenon

----------------------------------------------------------------------------
(* The rows of a plan.                                                     *)

RowRecords == [stage : Stages, qa : Profiles \cup {""}, deps : SUBSET (Nat \ {0})]

(* Short tuples are sequences.                                             *)
LEMMA Tuples ==
    ASSUME NEW S, NEW a \in S, NEW b \in S
    PROVE  <<>> \in Seq(S) /\ <<a>> \in Seq(S) /\ <<a, b>> \in Seq(S)
  OBVIOUS

(* A function on 1 .. n is a sequence.                                     *)
LEMMA Enumerations ==
    ASSUME NEW S, NEW n \in Nat, NEW f \in [1 .. n -> S]
    PROVE  f \in Seq(S) /\ Len(f) = n
  OBVIOUS

(* Ranges of positive numbers.                                             *)
LEMMA Positives ==
    /\ \A n \in Nat : n + 1 \in Nat \ {0}
    /\ \A n \in Nat \ {0} : n \in Nat /\ {n} \in SUBSET (Nat \ {0})
    /\ \A n \in Nat \ {0}, m \in Int : n .. m \in SUBSET (Nat \ {0})
  OBVIOUS

(* The rows of a plan are typed: one row,                                  *)
LEMMA RowFits ==
    ASSUME NEW stage \in Stages, NEW q \in Profiles \cup {""}, NEW deps \in SUBSET (Nat \ {0})
    PROVE  /\ Row(stage, q, deps) \in RowRecords
           /\ <<Row(stage, q, deps)>> \in Seq(RowRecords)
<1>1. Row(stage, q, deps) \in RowRecords
  BY DEF Row, RowRecords
<1> QED BY <1>1, Tuples, Zenon

(* the row of a QA profile,                                                *)
LEMMA QARowFits ==
    \A q \in Profiles, n \in Nat \ {0} : Row("qa", q, {n}) \in RowRecords
  BY DEF Row, RowRecords, Stages

(* and the parts put together.                                             *)
LEMMA RowConcat ==
    ASSUME NEW s \in Seq(RowRecords), NEW t \in Seq(RowRecords)
    PROVE  s \o t \in Seq(RowRecords)
  OBVIOUS

(* The fields of a plan.                                                   *)
LEMMA PlanFields ==
    ASSUME plan \in Plans
    PROVE  plan.kind \in Kinds /\ plan.auto \in BOOLEAN /\ plan.qa \in Seq(Profiles)
  BY PlansAreTyped

(* Whatever the plan, its rows are typed and the first is the root's       *)
(* (_stage_sequence).                                                      *)
LEMMA RowsFit ==
    ASSUME plan \in Plans
    PROVE  /\ Rows \in Seq(RowRecords) /\ Len(Rows) \in Nat /\ Len(Rows) >= 1
           /\ Rows[1].stage = "root" /\ Rows[1].deps = {}
<1>0. plan.qa \in Seq(Profiles)
  BY PlanFields
<1>1. \A n \in Nat \ {0} : {n} \in SUBSET (Nat \ {0})
  OBVIOUS
<1>2. /\ "root" \in Stages /\ "control" \in Stages /\ "post_merge" \in Stages
      /\ "repair" \in Stages /\ "implementation" \in Stages /\ "review" \in Stages
      /\ "qa" \in Stages /\ "final" \in Stages /\ "merge" \in Stages
      /\ "" \in Profiles \cup {""}
  BY DEF Stages
<1>3. 1 \in Nat \ {0} /\ 2 \in Nat \ {0}
  OBVIOUS
<1>4. BuildRows(plan) \in Seq(RowRecords)
  <2>1. <<>> \in Seq(RowRecords)
    OBVIOUS
  <2>2. <<Row(IF plan.kind = "repair" THEN "repair" ELSE "implementation", "", {1})>>
          \in Seq(RowRecords)
    BY <1>1, <1>2, <1>3, RowFits
  <2> QED BY <2>1, <2>2, Zenon DEF BuildRows
<1>5. PullRequestRows(plan) \in Seq(RowRecords)
  <2> DEFINE fst == 1 + Len(BuildRows(plan))
             rev == fst + 1
             fin == rev + Len(plan.qa) + 1
             gates == [k \in 1 .. Len(plan.qa) |-> Row("qa", plan.qa[k], {fst})]
             merges == IF plan.auto THEN <<Row("merge", "", {fin}),
                                           Row("post_merge", "", {fin + 1})>> ELSE <<>>
  <2>1. Len(BuildRows(plan)) \in Nat /\ Len(plan.qa) \in Nat
    BY <1>0, <1>4
  <2>2. fst \in Nat \ {0} /\ rev \in Nat \ {0} /\ fin \in Nat \ {0}
        /\ fin + 1 \in Nat \ {0}
    <3> DEFINE n == Len(BuildRows(plan))
               m == Len(plan.qa)
    <3>1. n \in Nat /\ m \in Nat
      BY <2>1
    <3> HIDE DEF n, m
    <3>2. n + 1 + 1 \in Nat /\ n + 1 + 1 + m \in Nat /\ n + 1 + 1 + m + 1 \in Nat
      BY <3>1
    <3>3. /\ n + 1 \in Nat \ {0} /\ n + 1 + 1 \in Nat \ {0}
          /\ n + 1 + 1 + m + 1 \in Nat \ {0} /\ n + 1 + 1 + m + 1 + 1 \in Nat \ {0}
      <4>1. n + 1 \in Nat
        BY <3>1
      <4> QED BY <3>1, <3>2, <4>1, Positives
    <3>4. 1 + n = n + 1
      BY <3>1
    <3>5. fst = n + 1 /\ rev = n + 1 + 1 /\ fin = n + 1 + 1 + m + 1
      BY <3>4 DEF n, m
    <3> QED BY <3>2, <3>3, <3>5, Zenon
  <2> HIDE DEF fst, rev, fin
  <2>3. rev .. fin - 1 \in SUBSET (Nat \ {0})
    <3>1. fin - 1 \in Int
      BY <2>2
    <3> QED BY <2>2, <3>1, Positives
  <2>4. <<Row("review", "", {fst})>> \in Seq(RowRecords)
    BY <2>2, <1>1, <1>2, RowFits
  <2>5. gates \in Seq(RowRecords)
    <3>1. \A k \in 1 .. Len(plan.qa) : Row("qa", plan.qa[k], {fst}) \in RowRecords
      <4> TAKE k \in 1 .. Len(plan.qa)
      <4>1. plan.qa[k] \in Profiles
        BY <1>0
      <4> QED BY <4>1, <2>2, QARowFits, Zenon
    <3>2. gates \in [1 .. Len(plan.qa) -> RowRecords]
      BY <3>1
    <3> HIDE DEF gates
    <3> QED BY <2>1, <3>2, Enumerations
  <2>6. <<Row("final", "", rev .. fin - 1)>> \in Seq(RowRecords)
    BY <2>3, <1>2, RowFits
  <2>7. merges \in Seq(RowRecords)
    <3>1. Row("merge", "", {fin}) \in RowRecords
          /\ Row("post_merge", "", {fin + 1}) \in RowRecords
      BY <2>2, <1>1, <1>2, RowFits
    <3>2. <<>> \in Seq(RowRecords)
      OBVIOUS
    <3>3. <<Row("merge", "", {fin}), Row("post_merge", "", {fin + 1})>> \in Seq(RowRecords)
      BY <3>1, Tuples, Zenon
    <3> QED BY <3>2, <3>3, Zenon
  <2>8. PullRequestRows(plan) =
          BuildRows(plan) \o <<Row("review", "", {fst})>> \o gates
            \o <<Row("final", "", rev .. fin - 1)>> \o merges
    BY Zenon DEF PullRequestRows, fst, rev, fin
  <2> HIDE DEF gates, merges
  <2>9. BuildRows(plan) \o <<Row("review", "", {fst})>> \in Seq(RowRecords)
    BY <1>4, <2>4, RowConcat
  <2>10. BuildRows(plan) \o <<Row("review", "", {fst})>> \o gates \in Seq(RowRecords)
    BY <2>9, <2>5, RowConcat
  <2>11. BuildRows(plan) \o <<Row("review", "", {fst})>> \o gates
            \o <<Row("final", "", rev .. fin - 1)>> \in Seq(RowRecords)
    BY <2>10, <2>6, RowConcat
  <2> QED BY <2>7, <2>8, <2>11, RowConcat
<1>6. StageRows(plan) \in Seq(RowRecords)
  <2>1. Row("control", "", {1}) \in RowRecords /\ Row("post_merge", "", {2}) \in RowRecords
    BY <1>1, <1>2, <1>3, RowFits
  <2>2. <<Row("control", "", {1}), Row("post_merge", "", {2})>> \in Seq(RowRecords)
    BY <2>1, Tuples, Zenon
  <2> QED BY <1>5, <2>2, Zenon DEF StageRows
<1> DEFINE root == Row("root", "", {})
<1>7. root \in RowRecords /\ root.stage = "root" /\ root.deps = {}
  <2>1. {} \in SUBSET (Nat \ {0})
    OBVIOUS
  <2>2. root \in RowRecords
    BY <1>2, <2>1, RowFits
  <2>3. root.stage = "root" /\ root.deps = {}
    BY DEF Row
  <2> QED BY <2>2, <2>3
<1>8. Rows = <<root>> \o StageRows(plan)
  BY DEF Rows
<1> HIDE DEF root
<1>9. <<root>> \in Seq(RowRecords) /\ Len(<<root>>) = 1 /\ <<root>>[1] = root
  BY <1>7
<1>10. Rows \in Seq(RowRecords) /\ Len(Rows) = 1 + Len(StageRows(plan)) /\ Rows[1] = root
  <2> DEFINE t == StageRows(plan)
  <2> HIDE DEF t
  <2>1. t \in Seq(RowRecords)
    BY <1>6 DEF t
  <2>2. <<root>> \o t \in Seq(RowRecords) /\ Len(<<root>> \o t) = 1 + Len(t)
        /\ (<<root>> \o t)[1] = root
    BY <2>1, <1>9
  <2> QED BY <2>2, <1>8 DEF t
<1>11. Len(StageRows(plan)) \in Nat
  BY <1>6
<1> QED BY <1>7, <1>10, <1>11

----------------------------------------------------------------------------
(* How a board grows.                                                      *)

OneEach(L) == \A i, j \in DOMAIN L : L[i].slot > 0 /\ L[i].slot = L[j].slot => i = j

Board(L) == L \in Seq(CardRecords) /\ Len(L) <= MaxCards /\ Family(L) /\ OneEach(L)

(* c can be added to L by a pass.                                          *)
Born(L, c) ==
    /\ c \in CardRecords /\ c.slot = 0
    /\ c.retry <= Len(L) /\ c.repair <= Len(L) /\ c.recov <= Len(L)
    /\ c.retry = 0 => c.deps = {}
    /\ c.retry # 0 => /\ c.stage = L[c.retry].stage
                      /\ c.deps \subseteq L[c.retry].deps

(* M is L with cards rewritten and cards added by a pass.                  *)
Extends(L, M) ==
    /\ M \in Seq(CardRecords) /\ Len(M) <= MaxCards /\ Grew(L, M)
    /\ \A k \in DOMAIN M : k > Len(L) => Born(L, M[k])

(* M is L with cards rewritten.                                            *)
Rewrites(L, M) ==
    /\ M \in Seq(CardRecords) /\ Len(M) = Len(L)
    /\ \A i \in DOMAIN L : Same(L[i], M[i])

(* The positions of a list.                                                *)
LEMMA Domains ==
    \A L \in Seq(CardRecords) : Len(L) \in Nat /\ DOMAIN L = 1 .. Len(L)
  OBVIOUS

(* A board is a list.                                                      *)
LEMMA BoardIsList == \A L : Board(L) => L \in Lists /\ Len(L) <= MaxCards
  BY Zenon DEF Board, Lists

(* Being the same card is reflexive and transitive.                        *)
LEMMA SameIs ==
    /\ \A c : Same(c, c)
    /\ \A c, d, e : Same(c, d) /\ Same(d, e) => Same(c, e)
  BY DEF Same

(* A rewritten list has grown, by nothing.                                 *)
LEMMA RewritesGrow ==
    ASSUME NEW L \in Seq(CardRecords), NEW M, Rewrites(L, M), Len(L) <= MaxCards
    PROVE  Extends(L, M)
<1>1. Len(L) \in Nat /\ DOMAIN L = 1 .. Len(L) /\ DOMAIN M = 1 .. Len(M) /\ Len(M) = Len(L)
  BY Domains DEF Rewrites
<1>2. \A k \in DOMAIN M : ~(k > Len(L))
  BY <1>1
<1>3. Len(L) <= Len(M) /\ Len(M) <= MaxCards
  BY <1>1
<1> QED BY <1>1, <1>2, <1>3 DEF Extends, Rewrites, Grew

(* A board that a pass extends is a board.                                 *)
LEMMA BoardGrows ==
    ASSUME NEW L, Board(L), NEW M, Extends(L, M)
    PROVE  Board(M)
<1>1. /\ L \in Seq(CardRecords) /\ M \in Seq(CardRecords) /\ Len(L) \in Nat /\ Len(M) \in Nat
      /\ DOMAIN L = 1 .. Len(L) /\ DOMAIN M = 1 .. Len(M) /\ Len(L) <= Len(M)
  BY Domains DEF Board, Extends, Grew
<1>2. \A i \in DOMAIN L : i \in DOMAIN M /\ Same(L[i], M[i])
  BY DEF Extends, Grew
<1>3. \A k \in DOMAIN M : k \notin DOMAIN L => k > Len(L) /\ Born(L, M[k])
  BY <1>1 DEF Extends
<1>4. \A k \in DOMAIN M : M[k].slot > 0 => k \in DOMAIN L
  <2>1. \A k \in DOMAIN M : k \notin DOMAIN L => M[k].slot = 0
    BY <1>3 DEF Born
  <2> QED BY <2>1
<1>5. OneEach(M)
  <2> SUFFICES ASSUME NEW i \in DOMAIN M, NEW j \in DOMAIN M,
                      M[i].slot > 0, M[i].slot = M[j].slot
               PROVE  i = j
    BY DEF OneEach
  <2>1. i \in DOMAIN L /\ j \in DOMAIN L
    BY <1>4
  <2>2. L[i].slot = M[i].slot /\ L[j].slot = M[j].slot
    BY <2>1, <1>2 DEF Same
  <2> QED BY <2>1, <2>2 DEF Board, OneEach
<1>6. Family(M)
  <2> SUFFICES ASSUME NEW i \in DOMAIN M
               PROVE  /\ M[i].retry < i /\ M[i].repair < i /\ M[i].recov < i
                      /\ \A d \in M[i].deps : d \in DOMAIN M /\ M[d].slot > 0
                      /\ M[i].slot > 0 => M[i].retry = 0 /\ M[i].repair = 0 /\ M[i].recov = 0
                      /\ M[i].slot = 0 /\ M[i].retry = 0 => M[i].deps = {}
                      /\ M[i].slot = 1 => M[i].stage = "root" /\ M[i].deps = {}
                      /\ M[i].retry # 0 => /\ M[i].slot = 0
                                           /\ M[i].stage = M[M[i].retry].stage
    BY DEF Family
  <2>0. M[i] \in CardRecords
    BY <1>1
  <2>1. CASE i \in DOMAIN L
    <3>1. Same(L[i], M[i])
      BY <2>1, <1>2
    <3>2. /\ L[i].retry < i /\ L[i].repair < i /\ L[i].recov < i
          /\ \A d \in L[i].deps : d \in DOMAIN L /\ L[d].slot > 0
          /\ L[i].slot > 0 => L[i].retry = 0 /\ L[i].repair = 0 /\ L[i].recov = 0
          /\ L[i].slot = 0 /\ L[i].retry = 0 => L[i].deps = {}
          /\ L[i].slot = 1 => L[i].stage = "root" /\ L[i].deps = {}
          /\ L[i].retry # 0 => L[i].slot = 0 /\ L[i].stage = L[L[i].retry].stage
      BY <2>1 DEF Board, Family
    <3>3. L[i].retry # 0 => L[i].retry \in DOMAIN L
      BY <2>1, BoardIsList, RetriesAreEarlier
    <3>4. L[i].retry # 0 => M[L[i].retry].stage = L[L[i].retry].stage
      BY <3>3, <1>2 DEF Same
    <3>5. \A d \in L[i].deps : d \in DOMAIN M /\ M[d].slot > 0
      <4> TAKE d \in L[i].deps
      <4>1. d \in DOMAIN L /\ L[d].slot > 0
        BY <3>2
      <4>2. d \in DOMAIN M /\ M[d].slot = L[d].slot
        BY <4>1, <1>2 DEF Same
      <4> QED BY <4>1, <4>2
    <3>6. /\ M[i].retry = L[i].retry /\ M[i].repair = L[i].repair /\ M[i].recov = L[i].recov
          /\ M[i].deps = L[i].deps /\ M[i].slot = L[i].slot /\ M[i].stage = L[i].stage
      BY <3>1 DEF Same
    <3> QED BY <3>2, <3>4, <3>5, <3>6
  <2>2. CASE i \notin DOMAIN L
    <3>1. i > Len(L) /\ i \in Nat /\ Born(L, M[i])
      BY <2>2, <1>1, <1>3
    <3>2. /\ M[i].retry \in Nat /\ M[i].repair \in Nat /\ M[i].recov \in Nat
          /\ M[i].retry <= Len(L) /\ M[i].repair <= Len(L) /\ M[i].recov <= Len(L)
      <4>1. M[i].retry \in 0 .. MaxCards /\ M[i].repair \in 0 .. MaxCards
            /\ M[i].recov \in 0 .. MaxCards
        BY <2>0, CardFields
      <4>2. \A x \in 0 .. MaxCards : x \in Nat
        OBVIOUS
      <4> QED BY <3>1, <4>1, <4>2 DEF Born
    <3>3. M[i].retry < i /\ M[i].repair < i /\ M[i].recov < i
      BY <3>1, <3>2, <1>1
    <3>4. M[i].slot = 0 /\ (M[i].retry = 0 => M[i].deps = {})
      BY <3>1 DEF Born
    <3>5. CASE M[i].retry = 0
      BY <3>3, <3>4, <3>5
    <3>6. CASE M[i].retry # 0
      <4> DEFINE r == M[i].retry
      <4>1. r \in DOMAIN L
        BY <3>2, <3>6, <1>1
      <4>2. M[i].stage = L[r].stage /\ M[i].deps \subseteq L[r].deps
        BY <3>1, <3>6 DEF Born
      <4>3. M[r].stage = L[r].stage
        BY <4>1, <1>2 DEF Same
      <4>4. \A d \in L[r].deps : d \in DOMAIN M /\ M[d].slot > 0
        <5> TAKE d \in L[r].deps
        <5>1. d \in DOMAIN L /\ L[d].slot > 0
          BY <4>1 DEF Board, Family
        <5>2. d \in DOMAIN M /\ M[d].slot = L[d].slot
          BY <5>1, <1>2 DEF Same
        <5> QED BY <5>1, <5>2
      <4>5. \A d \in M[i].deps : d \in DOMAIN M /\ M[d].slot > 0
        BY <4>2, <4>4
      <4> HIDE DEF r
      <4>6. M[i].stage = M[r].stage
        BY <4>2, <4>3
      <4> QED BY <3>3, <3>4, <3>6, <4>5, <4>6 DEF r
    <3> QED BY <3>5, <3>6
  <2> QED BY <2>1, <2>2
<1>7. Len(M) <= MaxCards
  BY DEF Extends
<1> QED BY <1>1, <1>5, <1>6, <1>7 DEF Board

(* The ways in which the actions rewrite a board.                          *)
LEMMA SetIs ==
    ASSUME NEW L \in Seq(CardRecords), NEW i \in DOMAIN L, NEW c \in CardRecords,
           Same(L[i], c)
    PROVE  /\ Rewrites(L, [L EXCEPT ![i] = c])
           /\ [L EXCEPT ![i] = c][i] = c
           /\ \A j \in DOMAIN L : j # i => [L EXCEPT ![i] = c][j] = L[j]
<1>1. /\ [L EXCEPT ![i] = c] \in Seq(CardRecords)
      /\ Len([L EXCEPT ![i] = c]) = Len(L)
      /\ [L EXCEPT ![i] = c][i] = c
      /\ \A j \in DOMAIN L : j # i => [L EXCEPT ![i] = c][j] = L[j]
  OBVIOUS
<1>2. \A j \in DOMAIN L : Same(L[j], [L EXCEPT ![i] = c][j])
  BY <1>1, SameIs
<1> QED BY <1>1, <1>2 DEF Rewrites

(* Rewriting every card at once rewrites the list.                         *)
LEMMA MapIs ==
    ASSUME NEW L \in Seq(CardRecords), NEW M, M = [i \in DOMAIN L |-> M[i]],
           \A i \in DOMAIN L : M[i] \in CardRecords /\ Same(L[i], M[i])
    PROVE  Rewrites(L, M)
<1>1. DOMAIN L = 1 .. Len(L) /\ Len(L) \in Nat
  BY Domains
<1>2. M \in [1 .. Len(L) -> CardRecords]
  BY <1>1
<1>3. M \in Seq(CardRecords) /\ Len(M) = Len(L)
  BY <1>1, <1>2, Enumerations
<1> QED BY <1>3 DEF Rewrites

(* Rewriting twice is rewriting.                                           *)
LEMMA RewritesTwice ==
    ASSUME NEW L \in Seq(CardRecords), NEW M, NEW N, Rewrites(L, M), Rewrites(M, N)
    PROVE  Rewrites(L, N)
<1>1. DOMAIN M = DOMAIN L
  BY Domains DEF Rewrites
<1> QED BY <1>1, SameIs DEF Rewrites

(* A list with a card at its end.                                          *)
LEMMA AppendIs ==
    ASSUME NEW L \in Seq(CardRecords), NEW M, Rewrites(L, M),
           NEW c, Born(L, c), Len(Append(M, c)) <= MaxCards
    PROVE  /\ Extends(L, Append(M, c))
           /\ Len(Append(M, c)) = Len(L) + 1 /\ Append(M, c)[Len(L) + 1] = c
           /\ \A i \in DOMAIN L : Append(M, c)[i] = M[i]
<1>1. M \in Seq(CardRecords) /\ Len(M) = Len(L) /\ c \in CardRecords
  BY DEF Rewrites, Born
<1>2. Len(L) \in Nat /\ DOMAIN L = 1 .. Len(L)
  BY Domains
<1>3. /\ Append(M, c) \in Seq(CardRecords) /\ Len(Append(M, c)) = Len(L) + 1
      /\ Append(M, c)[Len(L) + 1] = c
      /\ \A i \in 1 .. Len(L) : Append(M, c)[i] = M[i]
  BY <1>1, <1>2
<1>4. DOMAIN Append(M, c) = 1 .. Len(L) + 1
  BY <1>3, Domains
<1>5. \A k \in DOMAIN Append(M, c) : k > Len(L) => k = Len(L) + 1
  BY <1>2, <1>4
<1>6. \A i \in DOMAIN L : i \in DOMAIN Append(M, c) /\ Same(L[i], Append(M, c)[i])
  <2> TAKE i \in DOMAIN L
  <2>1. i \in DOMAIN Append(M, c) /\ Append(M, c)[i] = M[i]
    BY <1>2, <1>3, <1>4
  <2> QED BY <2>1 DEF Rewrites
<1>7. Len(L) <= Len(Append(M, c))
  BY <1>2, <1>3
<1>8. Grew(L, Append(M, c))
  BY <1>6, <1>7 DEF Grew
<1>9. \A k \in DOMAIN Append(M, c) : k > Len(L) => Born(L, Append(M, c)[k])
  BY <1>3, <1>5
<1> QED BY <1>2, <1>3, <1>8, <1>9 DEF Extends

----------------------------------------------------------------------------
(* What the actions do to the board.                                       *)

(* A disturbance is counted within its bound.                              *)
LEMMA HitIs ==
    ASSUME WorkflowTypeOK, Hit
    PROVE  trouble' \in 0 .. MaxTrouble[plan.kind]
<1>1. plan.kind \in Kinds
  BY PlanFields DEF WorkflowTypeOK
<1>2. MaxTrouble[plan.kind] \in Nat
  BY <1>1, TroubleIsBounded
<1> DEFINE m == MaxTrouble[plan.kind]
<1>3. m \in Nat /\ trouble \in 0 .. m /\ trouble < m /\ trouble' = trouble + 1
  BY <1>2 DEF WorkflowTypeOK, Hit
<1> HIDE DEF m
<1>4. trouble' \in 0 .. m
  BY <1>3
<1> QED BY <1>4 DEF m

(* A worker moves its card.                                                *)
Worked(i, c) ==
    /\ cards' = [cards EXCEPT ![i] = c]
    /\ c \in CardRecords /\ Same(cards[i], c)
    /\ cards[i].status \in {"ready", "running"}
    /\ c.status \in {"running", "done", "blocked", "orphaned"}
    /\ c.fails >= cards[i].fails
    /\ backend = "workboard" /\ c.status = "blocked" => c.fails > 0
    /\ UNCHANGED <<setting, enq, ws, pass>>
    /\ head' \in 0 .. MaxHead /\ merged' \in BOOLEAN
    /\ trouble' \in 0 .. MaxTrouble[plan.kind]

(* Whatever a worker or a disturbance does to its card is Worked.          *)
LEMMA WorkerIs ==
    ASSUME WorkflowTypeOK, NEW i \in DOMAIN cards, WorkerOn(i) \/ TroubleOn(i)
    PROVE  \E c : Worked(i, c)
<1> DEFINE o == cards[i]
<1>0. /\ o \in CardRecords /\ head \in 0 .. MaxHead /\ merged \in BOOLEAN
      /\ trouble \in 0 .. MaxTrouble[plan.kind]
  BY DEF WorkflowTypeOK
<1>00. o.fails \in Nat /\ o.saw \in 0 .. MaxHead
  BY <1>0, CardFields
<1>1. CASE Claim(i)
  <2> DEFINE c == [o EXCEPT !.status = "running", !.saw = head]
  <2>1. Becomes(o, c, "running") /\ c.fails = o.fails
    BY <1>0, RewrittenIs
  <2>2. cards' = [cards EXCEPT ![i] = c] /\ o.status = "ready"
        /\ UNCHANGED <<setting, enq, ws, pass>> /\ UNCHANGED <<head, merged, trouble>>
    BY <1>1 DEF Claim, Set, OfWorkers
  <2> HIDE DEF c
  <2>3. Worked(i, c)
    BY <2>1, <2>2, <1>0, <1>00 DEF Worked, Becomes
  <2> QED BY <2>3
<1>2. CASE Succeed(i)
  <2> DEFINE p == [form |-> "marked", head |-> IF Coding(o) THEN head' ELSE o.saw]
             c == DoneWith(o, p)
  <2>1. /\ cards' = [cards EXCEPT ![i] = c] /\ o.status = "running"
        /\ head' = IF Coding(o) /\ head < MaxHead /\ GateOpen THEN head + 1 ELSE head
        /\ merged' = (merged \/ o.stage = "merge")
        /\ UNCHANGED <<setting, enq, ws, pass>> /\ trouble' = trouble
    BY <1>2 DEF Succeed, Set, OfWorkers
  <2>2. head' \in 0 .. MaxHead
    <3>1. MaxHead \in Nat
      BY WorkflowBounds
    <3>2. CASE Coding(o) /\ head < MaxHead /\ GateOpen
      <4>1. head' = head + 1
        BY <2>1, <3>2
      <4> QED BY <4>1, <3>1, <3>2, <1>0
    <3>3. CASE ~(Coding(o) /\ head < MaxHead /\ GateOpen)
      BY <2>1, <3>3, <1>0, Zenon
    <3> QED BY <3>2, <3>3
  <2>3. p \in ProofRecords
    <3>1. (IF Coding(o) THEN head' ELSE o.saw) \in 0 .. MaxHead
      BY <2>2, <1>00
    <3> QED BY <3>1 DEF ProofRecords
  <2> HIDE DEF p
  <2>4. Becomes(o, c, "done") /\ c.fails = o.fails
    BY <2>3, <1>0, DoneIs
  <2>5. merged' \in BOOLEAN
    BY <2>1
  <2> HIDE DEF c
  <2>6. Worked(i, c)
    BY <2>1, <2>2, <2>4, <2>5, <1>0, <1>00 DEF Worked, Becomes
  <2> QED BY <2>6
<1>3. ASSUME NEW form \in {"bare", "passed"}, CompleteWithout(i, form)
      PROVE  \E c : Worked(i, c)
  <2> DEFINE p == [form |-> form, head |-> o.saw]
             c == DoneWith(o, p)
  <2>1. /\ cards' = [cards EXCEPT ![i] = c] /\ o.status = "running" /\ Hit
        /\ UNCHANGED <<setting, enq, ws, pass>> /\ UNCHANGED <<head, merged>>
    BY <1>3 DEF CompleteWithout, Set, OfWorkers
  <2>2. p \in ProofRecords
    BY <1>00 DEF ProofRecords
  <2> HIDE DEF p
  <2>3. Becomes(o, c, "done") /\ c.fails = o.fails
    BY <2>2, <1>0, DoneIs
  <2>4. trouble' \in 0 .. MaxTrouble[plan.kind]
    BY <2>1, HitIs
  <2> HIDE DEF c
  <2>5. Worked(i, c)
    BY <2>1, <2>3, <2>4, <1>0, <1>00 DEF Worked, Becomes
  <2> QED BY <2>5
<1>4. ASSUME NEW why \in {"technical", "stale", "owner"}, BlockCard(i, why)
      PROVE  \E c : Worked(i, c)
  <2> DEFINE c == BlockedFor(o, why)
  <2>1. /\ cards' = [cards EXCEPT ![i] = c] /\ o.status = "running" /\ Hit
        /\ UNCHANGED <<setting, enq, ws, pass>> /\ UNCHANGED <<head, merged>>
    BY <1>4 DEF BlockCard, Set, OfWorkers
  <2>2. why \in Whys
    BY DEF Whys
  <2>3. Becomes(o, c, "blocked") /\ c.fails >= o.fails
        /\ (backend = "workboard" => c.fails > 0)
    BY <2>2, <1>0, BlockedIs
  <2>4. trouble' \in 0 .. MaxTrouble[plan.kind]
    BY <2>1, HitIs
  <2> HIDE DEF c
  <2>5. Worked(i, c)
    BY <2>1, <2>3, <2>4, <1>0, <1>00 DEF Worked, Becomes
  <2> QED BY <2>5
<1>5. CASE Orphan(i)
  <2> DEFINE c == [o EXCEPT !.status = "orphaned"]
  <2>1. Becomes(o, c, "orphaned") /\ c.fails = o.fails
    BY <1>0, RewrittenIs
  <2>2. /\ cards' = [cards EXCEPT ![i] = c] /\ o.status = "running" /\ Hit
        /\ UNCHANGED <<setting, enq, ws, pass>> /\ UNCHANGED <<head, merged>>
    BY <1>5 DEF Orphan, Set, OfWorkers
  <2>4. trouble' \in 0 .. MaxTrouble[plan.kind]
    BY <2>2, HitIs
  <2> HIDE DEF c
  <2>3. Worked(i, c)
    BY <2>1, <2>2, <2>4, <1>0, <1>00 DEF Worked, Becomes
  <2> QED BY <2>3
<1>6. CASE CancelClaim(i)
  <2> DEFINE c == [o EXCEPT !.status = "blocked", !.why = "cancelled"]
  <2>1. Becomes(o, c, "blocked") /\ c.fails = o.fails
    BY <1>0, RewrittenIs
  <2>2. /\ cards' = [cards EXCEPT ![i] = c] /\ o.status = "running" /\ Hit
        /\ UNCHANGED <<setting, enq, ws, pass>> /\ UNCHANGED <<head, merged>>
        /\ backend = "direct"
    BY <1>6 DEF CancelClaim, Set, OfWorkers
  <2>4. trouble' \in 0 .. MaxTrouble[plan.kind]
    BY <2>2, HitIs
  <2> HIDE DEF c
  <2>3. Worked(i, c)
    BY <2>1, <2>2, <2>4, <1>0, <1>00 DEF Worked, Becomes
  <2> QED BY <2>3
<1> HIDE DEF o
<1> QED BY <1>1, <1>2, <1>3, <1>4, <1>5, <1>6, Zenon DEF WorkerOn, TroubleOn

(* The owner's answer puts the card back into the queue.                   *)
Resumed(i, c) ==
    /\ cards' = [cards EXCEPT ![i] = c]
    /\ c \in CardRecords /\ Same(cards[i], c)
    /\ cards[i].status = "blocked" /\ c.status = "todo" /\ c.fails = cards[i].fails

(* The owner's unblock is Resumed.                                         *)
LEMMA UnblockIs ==
    ASSUME WorkflowTypeOK, NEW i \in DOMAIN cards, Unblock(i)
    PROVE  \E c : Resumed(i, c)
<1> DEFINE o == cards[i]
           c == [o EXCEPT !.status = "todo", !.why = "none"]
<1>0. o \in CardRecords
  BY DEF WorkflowTypeOK
<1>1. Becomes(o, c, "todo") /\ c.fails = o.fails
  BY <1>0, RewrittenIs
<1>2. cards' = [cards EXCEPT ![i] = c] /\ o.status = "blocked"
  BY DEF Unblock, Set
<1> HIDE DEF c
<1>3. Resumed(i, c)
  BY <1>1, <1>2 DEF Resumed, Becomes
<1> QED BY <1>3

----------------------------------------------------------------------------
(* The inductive invariant.                                                *)

(* What a pass may rely on although its list grows old: a turn that is     *)
(* still to come meets at least the failures of the list, a card that had  *)
(* ended meets it untouched (repairs apart), what the list says to cancel  *)
(* is no stage's own card, and a stage that was DONE is DONE.              *)
PassRecords == [on : BOOLEAN, list : Seq(CardRecords), cancel : SUBSET Nat, turns : SUBSET Nat]

PassFits ==
    /\ pass \in PassRecords
    /\ ~pass.on => pass = NoPass
    /\ enq > 0 => ~pass.on
    /\ Family(pass.list)
    /\ \A i \in DOMAIN pass.list :
          /\ Same(pass.list[i], cards[i])
          /\ pass.list[i].slot > 0 /\ pass.list[i].status = "done"
                => cards[i].status = "done"
    /\ \A i \in pass.cancel : pass.list[i].slot = 0 /\ ~Ended(pass.list[i])
    /\ \A i \in pass.turns :
          /\ pass.list[i].fails <= cards[i].fails
          /\ pass.list[i].repair = 0 /\ Ended(pass.list[i]) => cards[i] = pass.list[i]
    /\ pass.on => \A k \in DOMAIN cards : k > Len(pass.list) =>
                     cards[k].slot = 0 /\ cards[k].retry \notin pass.turns

(* While a workflow is materialized none of its cards is at work, and none *)
(* that works in the worktree is pending before the first stage card is    *)
(* acknowledged.                                                           *)
EnqueueFits ==
    /\ enq > 0 => \A i \in DOMAIN cards :
                     InWorkflow(cards[i]) => cards[i].status \in {"todo", "done"}
    /\ enq \in {1, 2} => \A i \in DOMAIN cards :
                     OnWorktree(cards[i]) => cards[i].status = "done"

BoardInv == WorkflowTypeOK /\ Board(cards) /\ PassFits /\ EnqueueFits

----------------------------------------------------------------------------
(* The order of the stages.                                                *)

(* The card has been worked on, or a pass can make it READY.               *)
Awake(c) == c.status # "todo" \/ (backend = "workboard" /\ c.fails > 0)

AllDone(S) == \A d \in S : cards[d].status = "done"

OrderFits ==
    /\ \A i \in DOMAIN cards : cards[i].slot > 0 =>
          /\ Awake(cards[i]) => AllDone(cards[i].deps)
          /\ backend = "workboard" /\ cards[i].status = "blocked" => cards[i].fails > 0
    /\ \A i \in DOMAIN cards : cards[i].retry # 0 =>
          /\ AllDone(cards[RootOf(cards, i)].deps)
          /\ backend = "workboard" /\ cards[RootOf(cards, i)].slot > 0
                => Awake(cards[RootOf(cards, i)])
    /\ pass.on => \A e \in DOMAIN cards : cards[e].slot > 0 /\ Awake(cards[e]) =>
          \A d \in cards[e].deps : d \in DOMAIN pass.list /\ pass.list[d].status = "done"

OrderInv == BoardInv /\ OrderFits

(* Enqueue adds the card of a stage to the board.                          *)
Added(s, c) ==
    /\ c \in CardRecords /\ c.slot = s /\ s > 0 /\ c.stage = Rows[s].stage
    /\ c.status = "todo" /\ c.fails = 0
    /\ c.retry = 0 /\ c.repair = 0 /\ c.recov = 0
    /\ \A d \in c.deps : d \in DOMAIN cards /\ cards[d].slot > 0
    /\ s = 1 => c.stage = "root" /\ c.deps = {}
    /\ \A i \in DOMAIN cards : cards[i].slot # s

(* A row with other parents.                                               *)
LEMMA RowWith ==
    ASSUME NEW row \in RowRecords, NEW d
    PROVE  [row EXCEPT !.deps = d] = Row(row.stage, row.qa, d)
<1>1. row = [stage |-> row.stage, qa |-> row.qa, deps |-> row.deps]
  BY DEF RowRecords
<1>2. [[stage |-> row.stage, qa |-> row.qa, deps |-> row.deps] EXCEPT !.deps = d]
        = [stage |-> row.stage, qa |-> row.qa, deps |-> d]
  OBVIOUS
<1> QED BY <1>1, <1>2, Zenon DEF Row

(* The card that enqueue creates for a stage.                              *)
LEMMA MaterializedIs ==
    ASSUME WorkflowTypeOK, NEW s \in 1 .. Len(Rows), Len(cards) < MaxCards
    PROVE  \/ Materialized(s) = cards
           \/ \E c : Added(s, c) /\ Materialized(s) = Append(cards, c)
<1>0. /\ cards \in Seq(CardRecords) /\ plan \in Plans
      /\ Len(cards) \in Nat /\ DOMAIN cards = 1 .. Len(cards)
  BY Domains DEF WorkflowTypeOK
<1>1. Rows \in Seq(RowRecords) /\ Len(Rows) \in Nat /\ Rows[1].stage = "root" /\ Rows[1].deps = {}
  BY <1>0, RowsFit
<1> DEFINE row == Rows[s]
           deps == UNION {SlotCards(d) : d \in row.deps}
           c == Card(s, [row EXCEPT !.deps = deps], "todo")
<1>2. row \in RowRecords
  BY <1>1
<1>3. /\ row.stage \in Stages /\ row.qa \in Profiles \cup {""} /\ row.deps \in SUBSET (Nat \ {0})
  BY <1>2 DEF RowRecords
<1>4. \A d \in deps : d \in DOMAIN cards /\ cards[d].slot \in row.deps
  BY DEF SlotCards
<1>5. \A d \in deps : d \in DOMAIN cards /\ cards[d].slot > 0
  <2> TAKE d \in deps
  <2>1. d \in DOMAIN cards /\ cards[d].slot \in Nat \ {0}
    BY <1>3, <1>4
  <2> QED BY <2>1
<1>6. deps \in SUBSET (1 .. MaxCards)
  <2>1. \A x \in 1 .. Len(cards) : x \in 1 .. MaxCards
    BY <1>0, WorkflowBounds
  <2> QED BY <1>0, <1>4, <2>1
<1>7. s \in Nat /\ s > 0 /\ "todo" \in Statuses
  BY DEF Statuses
<1>8. [row EXCEPT !.deps = deps] = Row(row.stage, row.qa, deps)
  BY <1>2, RowWith, Zenon
<1>9. c = NewCard(s, row.stage, row.qa, deps, "todo") /\ c \in CardRecords
  <2> DEFINE d == deps
             r == row
  <2>1. c = Card(s, Row(r.stage, r.qa, d), "todo")
    BY <1>8
  <2>2. d \in SUBSET (1 .. MaxCards) /\ r.stage \in Stages /\ r.qa \in Profiles \cup {""}
    BY <1>3, <1>6
  <2> HIDE DEF d, r, c
  <2>3. c = NewCard(s, r.stage, r.qa, d, "todo") /\ c \in CardRecords
    BY <2>1, <2>2, <1>7, FreshIs
  <2> QED BY <2>3 DEF d, r
<1>10. s = 1 => row.stage = "root" /\ deps = {}
  BY <1>1
<1>11. SlotCards(s) = {} => Added(s, c)
  <2> SUFFICES ASSUME SlotCards(s) = {} PROVE Added(s, c)
    OBVIOUS
  <2>1. \A i \in DOMAIN cards : cards[i].slot # s
    BY DEF SlotCards
  <2> HIDE DEF deps, c
  <2>2. /\ c.slot = s /\ c.stage = row.stage /\ c.status = "todo" /\ c.fails = 0
        /\ c.retry = 0 /\ c.repair = 0 /\ c.recov = 0 /\ c.deps = deps
    BY <1>9 DEF NewCard
  <2> QED BY <1>5, <1>7, <1>9, <1>10, <2>1, <2>2, Zenon DEF Added, row
<1>12. Materialized(s) = IF SlotCards(s) # {} THEN cards ELSE Append(cards, c)
  BY DEF Materialized, MaterializedAgain
<1> HIDE DEF c
<1> QED BY <1>11, <1>12, Zenon

(* A board to which it was added is a board.                               *)
LEMMA AddedIs ==
    ASSUME WorkflowTypeOK, Board(cards), Len(cards) < MaxCards, NEW s \in Nat, NEW c, Added(s, c)
    PROVE  /\ Board(Append(cards, c)) /\ Grew(cards, Append(cards, c))
           /\ Len(Append(cards, c)) = Len(cards) + 1
           /\ Append(cards, c)[Len(cards) + 1] = c
           /\ \A i \in DOMAIN cards : Append(cards, c)[i] = cards[i]
<1> DEFINE L == cards
           M == Append(cards, c)
           n == Len(cards) + 1
<1>1. /\ L \in Seq(CardRecords) /\ Len(L) \in Nat /\ DOMAIN L = 1 .. Len(L)
      /\ c \in CardRecords
  BY Domains DEF Board, Added
<1>2. /\ M \in Seq(CardRecords) /\ Len(M) = n /\ M[n] = c
      /\ \A i \in 1 .. Len(L) : M[i] = L[i]
  BY <1>1
<1>3. DOMAIN M = 1 .. n /\ n \in Nat /\ n > 0
  BY <1>1, <1>2, Domains
<1> HIDE DEF M
<1>4. \A i \in DOMAIN M : i \in DOMAIN L \/ i = n
  BY <1>1, <1>3
<1>5. \A i \in DOMAIN L : i \in DOMAIN M /\ M[i] = L[i]
  BY <1>1, <1>2, <1>3
<1>6. Grew(L, M)
  <2>1. Len(L) <= Len(M)
    BY <1>1, <1>2
  <2> QED BY <2>1, <1>5, SameIs DEF Grew
<1>7. Len(M) <= MaxCards
  BY <1>1, <1>2, WorkflowBounds
<1>8. OneEach(M)
  <2> SUFFICES ASSUME NEW i \in DOMAIN M, NEW j \in DOMAIN M,
                      M[i].slot > 0, M[i].slot = M[j].slot
               PROVE  i = j
    BY DEF OneEach
  <2>1. CASE i \in DOMAIN L /\ j \in DOMAIN L
    BY <2>1, <1>5 DEF Board, OneEach
  <2>2. CASE i = n /\ j # n
    BY <2>2, <1>2, <1>4, <1>5 DEF Added
  <2>3. CASE i # n /\ j = n
    BY <2>3, <1>2, <1>4, <1>5 DEF Added
  <2> QED BY <2>1, <2>2, <2>3, <1>4
<1>9. Family(M)
  <2> SUFFICES ASSUME NEW i \in DOMAIN M
               PROVE  /\ M[i].retry < i /\ M[i].repair < i /\ M[i].recov < i
                      /\ \A d \in M[i].deps : d \in DOMAIN M /\ M[d].slot > 0
                      /\ M[i].slot > 0 => M[i].retry = 0 /\ M[i].repair = 0 /\ M[i].recov = 0
                      /\ M[i].slot = 0 /\ M[i].retry = 0 => M[i].deps = {}
                      /\ M[i].slot = 1 => M[i].stage = "root" /\ M[i].deps = {}
                      /\ M[i].retry # 0 => /\ M[i].slot = 0
                                           /\ M[i].stage = M[M[i].retry].stage
    BY DEF Family
  <2>1. CASE i \in DOMAIN L
    <3>1. M[i] = L[i]
      BY <2>1, <1>5
    <3>2. /\ L[i].retry < i /\ L[i].repair < i /\ L[i].recov < i
          /\ \A d \in L[i].deps : d \in DOMAIN L /\ L[d].slot > 0
          /\ L[i].slot > 0 => L[i].retry = 0 /\ L[i].repair = 0 /\ L[i].recov = 0
          /\ L[i].slot = 0 /\ L[i].retry = 0 => L[i].deps = {}
          /\ L[i].slot = 1 => L[i].stage = "root" /\ L[i].deps = {}
          /\ L[i].retry # 0 => L[i].slot = 0 /\ L[i].stage = L[L[i].retry].stage
      BY <2>1 DEF Board, Family
    <3>3. L[i].retry # 0 => L[i].retry \in DOMAIN L
      BY <2>1, BoardIsList, RetriesAreEarlier
    <3>4. L[i].retry # 0 => M[L[i].retry].stage = L[L[i].retry].stage
      BY <3>3, <1>5
    <3>5. \A d \in L[i].deps : d \in DOMAIN M /\ M[d].slot > 0
      BY <3>2, <1>5
    <3> QED BY <3>1, <3>2, <3>4, <3>5
  <2>2. CASE i = n
    <3>1. M[i] = c
      BY <2>2, <1>2
    <3>2. /\ c.slot = s /\ s > 0 /\ c.retry = 0 /\ c.repair = 0 /\ c.recov = 0
          /\ \A d \in c.deps : d \in DOMAIN L /\ L[d].slot > 0
          /\ s = 1 => c.stage = "root" /\ c.deps = {}
      BY DEF Added
    <3>3. \A d \in c.deps : d \in DOMAIN M /\ M[d].slot > 0
      BY <3>2, <1>5
    <3> QED BY <3>1, <3>2, <3>3, <2>2, <1>3
  <2> QED BY <2>1, <2>2, <1>4
<1>10. Board(M)
  BY <1>2, <1>7, <1>8, <1>9, Zenon DEF Board
<1> QED BY <1>1, <1>2, <1>5, <1>6, <1>10, Zenon DEF M

(* The root card is closed.                                                *)
ClosedCard(c) ==
    IF c.slot = 1 THEN DoneWith(c, [form |-> "passed", head |-> 0]) ELSE c

(* Closing the root rewrites the root's card only.                         *)
LEMMA CloseRootIs ==
    ASSUME WorkflowTypeOK, CloseRoot
    PROVE  /\ Rewrites(cards, cards')
           /\ \A i \in DOMAIN cards :
                 /\ cards'[i].fails = cards[i].fails
                 /\ cards[i].slot # 1 => cards'[i] = cards[i]
                 /\ cards[i].slot = 1 => cards'[i].status = "done"
<1>0. cards \in Seq(CardRecords)
  BY DEF WorkflowTypeOK
<1>1. cards' = [i \in DOMAIN cards |-> ClosedCard(cards[i])]
  BY DEF CloseRoot, ClosedCard
<1>2. [form |-> "passed", head |-> 0] \in ProofRecords
  BY ZeroFits DEF ProofRecords
<1>3. \A c \in CardRecords :
         /\ ClosedCard(c) \in CardRecords /\ Same(c, ClosedCard(c))
         /\ ClosedCard(c).fails = c.fails
         /\ c.slot # 1 => ClosedCard(c) = c
         /\ c.slot = 1 => ClosedCard(c).status = "done"
  BY <1>2, DoneIs, SameIs DEF ClosedCard, Becomes
<1>4. \A i \in DOMAIN cards : cards[i] \in CardRecords /\ cards'[i] = ClosedCard(cards[i])
  BY <1>0, <1>1
<1>5. cards' = [i \in DOMAIN cards |-> cards'[i]]
  BY <1>1, <1>4
<1>6. Rewrites(cards, cards')
  BY <1>0, <1>3, <1>4, <1>5, MapIs
<1> QED BY <1>3, <1>4, <1>6

(* Dispatch moves only cards that wait or whose claim expired, and a TODO  *)
(* card only when what it depends on is DONE.                              *)
Moved(L, M, i) ==
    /\ L[i].status \in {"todo", "ready", "orphaned"}
    /\ M[i].status \in {"ready", "done", "blocked"}
    /\ backend = "workboard" /\ M[i].status = "blocked" => M[i].fails > 0
    /\ L[i].status = "todo" => \A d \in L[i].deps : M[d].status = "done"

Moves(L, M) ==
    /\ Rewrites(L, M)
    /\ \A i \in DOMAIN L : M[i] = L[i] \/ Moved(L, M, i)

(* The parts of dispatch move cards: expired claims,                       *)
LEMMA ExpiryMoves ==
    ASSUME NEW L \in Seq(CardRecords), backend = "direct"
    PROVE  Moves(L, Expired(L))
<1> DEFINE M == Expired(L)
<1>1. M = [i \in DOMAIN L |-> IF L[i].status # "orphaned" THEN L[i] ELSE ExpiredCard(L[i])]
  BY DEF Expired, ExpiredCard
<1>2. \A i \in DOMAIN L :
         /\ L[i] \in CardRecords
         /\ M[i] = IF L[i].status # "orphaned" THEN L[i] ELSE ExpiredCard(L[i])
  BY <1>1
<1>3. M = [i \in DOMAIN L |-> M[i]]
  BY <1>1, <1>2
<1> HIDE DEF M
<1>4. \A i \in DOMAIN L : M[i] \in CardRecords /\ Same(L[i], M[i])
  BY <1>2, ExpiredIs, SameIs
<1>5. Rewrites(L, M)
  BY <1>3, <1>4, MapIs
<1>6. \A i \in DOMAIN L : M[i] = L[i] \/ Moved(L, M, i)
  BY <1>2, ExpiredIs DEF Moved
<1> QED BY <1>5, <1>6 DEF Moves, M

(* the deterministic merge,                                                *)
LEMMA MergeMoves ==
    ASSUME WorkflowTypeOK, Board(cards), backend # "direct", NEW allowed \in BOOLEAN
    PROVE  Moves(cards, AfterMerge(allowed))
<1>0. cards \in Seq(CardRecords) /\ backend = "workboard" /\ head \in 0 .. MaxHead
  BY BackendsAreKnown DEF WorkflowTypeOK
<1>1. CASE ~Mergeable
  <2>1. AfterMerge(allowed) = cards
    BY <1>1 DEF AfterMerge
  <2>2. Rewrites(cards, cards)
    BY <1>0, SameIs DEF Rewrites
  <2> QED BY <2>1, <2>2 DEF Moves
<1>2. CASE Mergeable
  <2> DEFINE m == First(MergeReady)
             p == [form |-> "passed", head |-> head]
             c == IF allowed THEN DoneWith(cards[m], p) ELSE BlockedFor(cards[m], "technical")
             M == AfterMerge(allowed)
  <2>1. MergeReady \in SUBSET Nat /\ MergeReady # {}
    BY <1>0, <1>2 DEF MergeReady, Mergeable
  <2>2. m \in MergeReady
    BY <2>1, FirstIs
  <2>3. /\ m \in DOMAIN cards /\ cards[m].status \in {"todo", "ready"}
        /\ \A d \in cards[m].deps : cards[d].status = "done"
    BY <2>2 DEF MergeReady
  <2>4. cards[m] \in CardRecords /\ p \in ProofRecords /\ "technical" \in Whys
    BY <2>3, <1>0 DEF ProofRecords, Whys
  <2>5. /\ c \in CardRecords /\ Same(cards[m], c) /\ c.status \in {"done", "blocked"}
        /\ c.status = "blocked" => c.fails > 0
    <3>1. CASE allowed
      <4>1. c = DoneWith(cards[m], p)
        BY <3>1
      <4> HIDE DEF c
      <4> QED BY <4>1, <2>4, DoneIs DEF Becomes
    <3>2. CASE ~allowed
      <4>1. c = BlockedFor(cards[m], "technical")
        BY <3>2
      <4> HIDE DEF c
      <4> QED BY <4>1, <2>4, <1>0, BlockedIs DEF Becomes
    <3> QED BY <3>1, <3>2
  <2>6. M = [cards EXCEPT ![m] = c]
    BY <1>0, <1>2 DEF AfterMerge
  <2> HIDE DEF m, c, M
  <2>7. /\ Rewrites(cards, M) /\ M[m] = c
        /\ \A j \in DOMAIN cards : j # m => M[j] = cards[j]
    BY <2>3, <2>5, <2>6, <1>0, SetIs
  <2>8. \A d \in cards[m].deps : M[d].status = "done"
    <3> TAKE d \in cards[m].deps
    <3>1. d \in DOMAIN cards /\ cards[d].status = "done"
      BY <2>3 DEF Board, Family
    <3>2. d # m
      BY <3>1, <2>3
    <3> QED BY <3>1, <3>2, <2>7
  <2>9. Moved(cards, M, m)
    BY <2>3, <2>5, <2>7, <2>8 DEF Moved
  <2> QED BY <2>7, <2>9 DEF Moves, M
<1> QED BY <1>1, <1>2

(* and promotion.                                                          *)
LEMMA PromotionMoves ==
    ASSUME NEW L \in Seq(CardRecords), Family(L)
    PROVE  Moves(L, Promoted(L))
<1> DEFINE M == Promoted(L)
           Ready(i) == L[i].status = "todo" /\ \A d \in L[i].deps : L[d].status = "done"
<1>1. M = [i \in DOMAIN L |-> IF Ready(i) THEN Reclaimed(L[i], "ready") ELSE L[i]]
  BY DEF Promoted
<1>2. \A i \in DOMAIN L :
         /\ L[i] \in CardRecords
         /\ Ready(i) => M[i] = Reclaimed(L[i], "ready")
         /\ ~Ready(i) => M[i] = L[i]
  BY <1>1
<1>3. M = [i \in DOMAIN L |-> M[i]]
  BY <1>1, <1>2
<1> HIDE DEF M
<1>4. "ready" \in Statuses
  BY DEF Statuses
<1>5. \A i \in DOMAIN L : M[i] \in CardRecords /\ Same(L[i], M[i])
  BY <1>2, <1>4, ReclaimedIs, SameIs DEF Becomes
<1>6. Rewrites(L, M)
  BY <1>3, <1>5, MapIs
<1>7. \A d \in DOMAIN L : L[d].status = "done" => M[d].status = "done"
  BY <1>2
<1>8. ASSUME NEW i \in DOMAIN L
      PROVE  M[i] = L[i] \/ Moved(L, M, i)
  <2>1. CASE ~Ready(i)
    BY <2>1, <1>2
  <2>2. CASE Ready(i)
    <3>1. M[i].status = "ready"
      BY <2>2, <1>2, <1>4, ReclaimedIs DEF Becomes
    <3>2. \A d \in L[i].deps : M[d].status = "done"
      <4> TAKE d \in L[i].deps
      <4>1. d \in DOMAIN L
        BY DEF Family
      <4> QED BY <4>1, <2>2, <1>7
    <3> QED BY <2>2, <3>1, <3>2 DEF Moved
  <2> QED BY <2>1, <2>2
<1> QED BY <1>6, <1>8 DEF Moves, M

(* One after the other they still do.                                      *)
LEMMA MovesTwice ==
    ASSUME NEW L \in Seq(CardRecords), Family(L), NEW M, NEW N, Moves(L, M), Moves(M, N)
    PROVE  Moves(L, N)
<1>0. /\ Rewrites(L, M) /\ Rewrites(M, N)
      /\ M \in Seq(CardRecords) /\ DOMAIN M = DOMAIN L
  BY Domains DEF Moves, Rewrites
<1>1. Rewrites(L, N)
  BY <1>0, RewritesTwice
<1>2. \A d \in DOMAIN L : M[d].status = "done" => N[d].status = "done"
  BY <1>0 DEF Moves, Moved
<1>3. ASSUME NEW i \in DOMAIN L
      PROVE  N[i] = L[i] \/ Moved(L, N, i)
  <2>0. \A d \in L[i].deps : d \in DOMAIN L
    BY DEF Family
  <2>1. L[i].deps = M[i].deps
    BY <1>0 DEF Rewrites, Same
  <2>2. CASE N[i] = M[i]
    <3>1. CASE M[i] = L[i]
      BY <2>2, <3>1
    <3>2. CASE Moved(L, M, i)
      BY <2>0, <2>2, <3>2, <1>2 DEF Moved
    <3> QED BY <3>1, <3>2 DEF Moves
  <2>3. CASE Moved(M, N, i)
    <3>1. CASE M[i] = L[i]
      BY <2>1, <2>3, <3>1 DEF Moved
    <3>2. CASE Moved(L, M, i)
      BY <2>0, <2>3, <3>2, <1>2 DEF Moved
    <3> QED BY <3>1, <3>2 DEF Moves
  <2> QED BY <2>2, <2>3, <1>0 DEF Moves
<1> QED BY <1>1, <1>3 DEF Moves

(* So dispatch moves cards, whatever the gate answers.                     *)
LEMMA DispatchIs ==
    ASSUME WorkflowTypeOK, Board(cards), NEW allowed \in BOOLEAN
    PROVE  Moves(cards, Dispatched(allowed))
<1> DEFINE B == IF backend = "direct" THEN Expired(cards) ELSE AfterMerge(allowed)
<1>0. cards \in Seq(CardRecords)
  BY DEF WorkflowTypeOK
<1>1. Moves(cards, B)
  <2>1. CASE backend = "direct"
    BY <2>1, <1>0, ExpiryMoves
  <2>2. CASE backend # "direct"
    BY <2>2, MergeMoves
  <2> QED BY <2>1, <2>2
<1>2. Dispatched(allowed) = Promoted(B)
  BY DEF Dispatched
<1> HIDE DEF B
<1>3. Extends(cards, B)
  BY <1>0, <1>1, RewritesGrow DEF Moves, Board
<1>4. Board(B)
  BY <1>3, BoardGrows
<1>5. Moves(B, Promoted(B))
  BY <1>4, PromotionMoves DEF Board
<1>6. Moves(cards, Promoted(B))
  BY <1>0, <1>1, <1>5, MovesTwice DEF Board
<1> QED BY <1>2, <1>6

(* A pass opens on the board with ended workers' cards under review and a  *)
(* card for every required profile that has none.                          *)
LEMMA OrderedIs ==
    ASSUME NEW S, IsFiniteSet(S)
    PROVE  Ordered(S) \in Seq(S)
<1> DEFINE n == Cardinality(S)
           F == {s \in [1 .. n -> S] : \A x \in S : \E k \in DOMAIN s : s[k] = x}
<1>1. n \in Nat /\ ExistsBijection(1 .. n, S)
  BY FS_CardinalityType
<1> HIDE DEF n
<1>2. PICK s : s \in [1 .. n -> S] /\ \A x \in S : \E k \in 1 .. n : s[k] = x
  BY <1>1 DEF ExistsBijection, Bijection, Surjection
<1>3. s \in F
  BY <1>2
<1>4. Ordered(S) = CHOOSE t \in F : TRUE
  BY DEF Ordered, n
<1>5. Ordered(S) \in [1 .. n -> S]
  BY <1>3, <1>4
<1> QED BY <1>1, <1>5, Enumerations

(* The missing QA profiles are finitely many.                              *)
LEMMA MissingIs ==
    ASSUME WorkflowTypeOK, NEW L
    PROVE  MissingQA(L) \subseteq Profiles /\ IsFiniteSet(MissingQA(L))
<1>1. plan.qa \in Seq(Profiles) /\ actual \subseteq Profiles
  BY PlanFields DEF WorkflowTypeOK
<1>2. Planned \subseteq Profiles
  BY <1>1 DEF Planned
<1>3. MissingQA(L) \subseteq Profiles
  BY <1>1, <1>2 DEF MissingQA, RequiredQA
<1> QED BY <1>3, ProfilesAreFinite, FS_Subset

(* Ended workers: their cards go to review and nothing else changes.       *)
LEMMA EndedIs ==
    ASSUME NEW L \in Seq(CardRecords)
    PROVE  /\ Rewrites(L, EndedReviewed(L))
           /\ \A i \in DOMAIN L :
                 \/ EndedReviewed(L)[i] = L[i]
                 \/ /\ L[i].status = "orphaned" /\ EndedReviewed(L)[i].status = "review"
                    /\ EndedReviewed(L)[i].fails = L[i].fails
<1> DEFINE M == EndedReviewed(L)
<1>1. CASE backend = "direct"
  BY <1>1, SameIs DEF EndedReviewed, Rewrites
<1>2. CASE backend # "direct"
  <2>1. M = [i \in DOMAIN L |-> IF L[i].status = "orphaned"
                                THEN [L[i] EXCEPT !.status = "review"] ELSE L[i]]
    BY <1>2 DEF EndedReviewed
  <2>2. \A i \in DOMAIN L :
           /\ L[i] \in CardRecords
           /\ L[i].status # "orphaned" => M[i] = L[i]
           /\ L[i].status = "orphaned" => M[i] = [L[i] EXCEPT !.status = "review"]
    BY <2>1
  <2>3. M = [i \in DOMAIN L |-> M[i]]
    BY <2>1, <2>2
  <2> HIDE DEF M
  <2>4. \A i \in DOMAIN L :
           /\ M[i] \in CardRecords /\ Same(L[i], M[i])
           /\ \/ M[i] = L[i]
              \/ /\ L[i].status = "orphaned" /\ M[i].status = "review"
                 /\ M[i].fails = L[i].fails
    <3> TAKE i \in DOMAIN L
    <3>1. L[i] \in CardRecords
      BY <2>2
    <3>2. CASE L[i].status # "orphaned"
      BY <2>2, <3>1, <3>2, SameIs
    <3>3. CASE L[i].status = "orphaned"
      <4>1. M[i] = [L[i] EXCEPT !.status = "review"]
        BY <2>2, <3>3
      <4>2. Becomes(L[i], M[i], "review") /\ M[i].fails = L[i].fails
        BY <4>1, <3>1, RewrittenIs
      <4> QED BY <4>2, <3>3 DEF Becomes
    <3> QED BY <3>2, <3>3
  <2>5. Rewrites(L, M)
    BY <2>3, <2>4, MapIs
  <2> QED BY <2>4, <2>5 DEF M
<1> QED BY <1>1, <1>2

(* Two lists put together.                                                 *)
LEMMA ConcatIs ==
    ASSUME NEW S, NEW s \in Seq(S), NEW t \in Seq(S)
    PROVE  /\ s \o t \in Seq(S) /\ Len(s \o t) = Len(s) + Len(t)
           /\ \A i \in 1 .. Len(s) : (s \o t)[i] = s[i]
           /\ \A k \in Len(s) + 1 .. Len(s) + Len(t) : (s \o t)[k] = t[k - Len(s)]
  OBVIOUS

(* The card of a missing profile can be added to any list.                 *)
LEMMA QACardIs ==
    ASSUME NEW q \in Profiles, NEW L, Len(L) \in Nat
    PROVE  LET c == Card(0, Row("qa", q, {}), "ready") IN Born(L, c) /\ c.retry = 0
<1> DEFINE c == Card(0, Row("qa", q, {}), "ready")
<1>1. "qa" \in Stages /\ "ready" \in Statuses /\ {} \in SUBSET (1 .. MaxCards) /\ 0 \in Nat
      /\ q \in Profiles \cup {""}
  BY DEF Stages, Statuses
<1>2. c = NewCard(0, "qa", q, {}, "ready") /\ c \in CardRecords
  BY <1>1, FreshIs
<1> HIDE DEF c
<1>3. c.slot = 0 /\ c.retry = 0 /\ c.repair = 0 /\ c.recov = 0 /\ c.deps = {}
  BY <1>2 DEF NewCard
<1>4. 0 <= Len(L)
  OBVIOUS
<1>5. Born(L, c)
  BY <1>2, <1>3, <1>4 DEF Born
<1> QED BY <1>3, <1>5 DEF c

(* What the board is when a pass has listed it.                            *)
LEMMA BeginPassIs ==
    ASSUME WorkflowTypeOK, Board(cards), BeginPass
    PROVE  /\ Extends(cards, cards')
           /\ \A i \in DOMAIN cards :
                 \/ cards'[i] = cards[i]
                 \/ /\ cards[i].status = "orphaned" /\ cards'[i].status = "review"
                    /\ cards'[i].fails = cards[i].fails
           /\ \A k \in DOMAIN cards' : k > Len(cards) => cards'[k].retry = 0
<1> DEFINE L == EndedReviewed(cards)
           missing == Ordered(MissingQA(L))
           T == [k \in DOMAIN missing |-> Card(0, Row("qa", missing[k], {}), "ready")]
<1>0. /\ cards \in Seq(CardRecords) /\ Len(cards) \in Nat /\ DOMAIN cards = 1 .. Len(cards)
  BY Domains DEF WorkflowTypeOK
<1>1. cards' = L \o T /\ Len(cards') <= MaxCards
  BY DEF BeginPass, WithActualQA
<1>2. /\ Rewrites(cards, L)
      /\ \A i \in DOMAIN cards :
            \/ L[i] = cards[i]
            \/ /\ cards[i].status = "orphaned" /\ L[i].status = "review"
               /\ L[i].fails = cards[i].fails
  BY <1>0, EndedIs
<1>3. L \in Seq(CardRecords) /\ Len(L) = Len(cards)
  BY <1>2 DEF Rewrites
<1>4. missing \in Seq(Profiles)
  <2>1. missing \in Seq(MissingQA(L)) /\ MissingQA(L) \subseteq Profiles
    BY MissingIs, OrderedIs
  <2> HIDE DEF missing
  <2> DEFINE S == MissingQA(L)
  <2> HIDE DEF S
  <2>2. missing \in Seq(S) /\ S \subseteq Profiles
    BY <2>1 DEF S
  <2> QED BY <2>2
<1>5. \A q \in Profiles : /\ Born(cards, Card(0, Row("qa", q, {}), "ready"))
                          /\ Card(0, Row("qa", q, {}), "ready").retry = 0
  BY <1>0, QACardIs
<1> HIDE DEF missing, L
<1>6. DOMAIN missing = 1 .. Len(missing) /\ Len(missing) \in Nat
      /\ \A k \in DOMAIN missing : missing[k] \in Profiles
  BY <1>4
<1>7. \A k \in DOMAIN missing : T[k] = Card(0, Row("qa", missing[k], {}), "ready")
  OBVIOUS
<1>8. \A k \in 1 .. Len(missing) : Born(cards, T[k]) /\ T[k].retry = 0 /\ T[k] \in CardRecords
  BY <1>5, <1>6, <1>7 DEF Born
<1>9. T \in [1 .. Len(missing) -> CardRecords]
  BY <1>6, <1>8
<1> HIDE DEF T
<1>10. T \in Seq(CardRecords) /\ Len(T) = Len(missing)
  BY <1>6, <1>9, Enumerations
<1>11. /\ cards' \in Seq(CardRecords) /\ Len(cards') = Len(cards) + Len(T)
       /\ \A i \in 1 .. Len(cards) : cards'[i] = L[i]
       /\ \A k \in Len(cards) + 1 .. Len(cards) + Len(T) : cards'[k] = T[k - Len(cards)]
  <2> DEFINE N == L \o T
  <2>1. /\ N \in Seq(CardRecords) /\ Len(N) = Len(L) + Len(T)
        /\ \A i \in 1 .. Len(L) : N[i] = L[i]
        /\ \A k \in Len(L) + 1 .. Len(L) + Len(T) : N[k] = T[k - Len(L)]
    BY <1>3, <1>10, ConcatIs, Zenon
  <2>2. cards' = N
    BY <1>1
  <2> HIDE DEF N
  <2> QED BY <2>1, <2>2, <1>3, Zenon
<1>12. Len(T) \in Nat /\ DOMAIN cards' = 1 .. Len(cards) + Len(T)
  BY <1>10, <1>11, Domains
<1>13. \A k \in DOMAIN cards' : k > Len(cards) => Born(cards, cards'[k]) /\ cards'[k].retry = 0
  <2> SUFFICES ASSUME NEW k \in DOMAIN cards', k > Len(cards)
               PROVE  Born(cards, cards'[k]) /\ cards'[k].retry = 0
    OBVIOUS
  <2>1. k \in Len(cards) + 1 .. Len(cards) + Len(T) /\ k - Len(cards) \in 1 .. Len(T)
    BY <1>0, <1>12
  <2>2. cards'[k] = T[k - Len(cards)]
    BY <2>1, <1>11
  <2> QED BY <2>1, <2>2, <1>8, <1>10
<1>14. \A i \in DOMAIN cards : i \in DOMAIN cards' /\ cards'[i] = L[i]
  BY <1>0, <1>11, <1>12
<1>15. Grew(cards, cards')
  <2>1. Len(cards) <= Len(cards')
    BY <1>0, <1>11, <1>12
  <2> QED BY <2>1, <1>2, <1>14 DEF Grew, Rewrites
<1>16. Extends(cards, cards')
  BY <1>1, <1>11, <1>13, <1>15 DEF Extends
<1> QED BY <1>2, <1>13, <1>14, <1>16

(* What the list says to cancel is no stage's own card and has not ended.  *)
LEMMA SuperfluousIs ==
    ASSUME NEW L \in Lists
    PROVE  /\ Superfluous(L) \subseteq DOMAIN L
           /\ \A i \in Superfluous(L) : L[i].slot = 0 /\ ~Ended(L[i])
<1>1. ASSUME NEW i \in Superfluous(L)
      PROVE  i \in DOMAIN L /\ L[i].slot = 0 /\ ~Ended(L[i])
  <2>1. i \in DOMAIN L /\ ~Ended(L[i])
    BY DEF Superfluous, Ended
  <2>2. L[i].retry # 0 \/ L[i].repair # 0 \/ L[i].recov # 0
    BY DEF Superfluous, RepairObsolete, RecoveryObsolete
  <2>3. L[i].slot > 0 => L[i].retry = 0 /\ L[i].repair = 0 /\ L[i].recov = 0
    BY <2>1 DEF Lists, Family
  <2>4. L[i].slot \in Nat
    BY <2>1, RetriesAreEarlier, CardFields
  <2> QED BY <2>1, <2>2, <2>3, <2>4
<1> QED BY <1>1

(* What a turn of card i in the main loop does to the board M was: it      *)
(* completes, requeues or reassigns a card, holds its waiting repairs, and *)
(* adds at most one card.                                                  *)
Completed(i, j, M) ==
    /\ j = i /\ Ended(pass.list[i])
    /\ pass.list[i].status = "blocked" => ~OwnerSide(pass.list[i])
    /\ M[i].status = "done" /\ Counts(pass.list[i].stage, M[i].proof)
    /\ M[i].fails = cards[i].fails

Requeued(i, j, M) ==
    /\ \/ j = i /\ pass.list[i].status = "blocked" /\ ~OwnerSide(pass.list[i])
       \/ j \in DOMAIN pass.list /\ pass.list[j].repair = i
    /\ M[j].status = "ready" /\ M[j].fails = cards[j].fails

Reassigned(i, j, M) ==
    /\ j = i /\ pass.list[i].status \in {"ready", "todo"} /\ ~WithinBudget(pass.list[i])
    /\ M[i].status = "ready"

Held(i, j, M) ==
    /\ j \in DOMAIN pass.list /\ pass.list[j].repair = i
    /\ M[j].status = "blocked" /\ M[j].why = cards[j].why /\ M[j].fails = cards[j].fails

Turned(i, j, M) ==
    \/ M[j] = cards[j] \/ Completed(i, j, M) \/ Requeued(i, j, M)
    \/ Reassigned(i, j, M) \/ Held(i, j, M)

Offspring(i, c) ==
    /\ c.retry \in {0, i}
    /\ c.retry = i =>
          /\ Ended(pass.list[i]) \/ (backend = "workboard" /\ pass.list[i].fails > 0)
          /\ pass.list[i].stage \in {"merge", "final"} \/ ~RetriesExhausted(pass.list, i)

TurnOf(i, M) ==
    /\ Extends(cards, M)
    /\ \A j \in DOMAIN cards : Turned(i, j, M)
    /\ \A k \in DOMAIN M : k > Len(cards) => k = Len(cards) + 1 /\ Offspring(i, M[k])

(* The list of a pass is a part of the board, as it was.                   *)
LEMMA ListIs ==
    ASSUME BoardInv
    PROVE  /\ pass.list \in Lists /\ pass.list \in Seq(CardRecords)
           /\ Len(pass.list) <= MaxCards /\ Len(pass.list) <= Len(cards)
           /\ cards \in Lists /\ cards \in Seq(CardRecords) /\ Len(cards) <= MaxCards
           /\ Len(cards) \in Nat /\ DOMAIN cards = 1 .. Len(cards)
           /\ Len(pass.list) \in Nat /\ DOMAIN pass.list = 1 .. Len(pass.list)
           /\ DOMAIN pass.list \subseteq DOMAIN cards
           /\ pass.turns \subseteq DOMAIN pass.list /\ pass.cancel \subseteq DOMAIN pass.list
           /\ Grew(pass.list, cards)
<1>1. /\ pass.list \in Seq(CardRecords) /\ cards \in Seq(CardRecords)
      /\ Len(pass.list) <= Len(cards) /\ Len(cards) <= MaxCards /\ Family(pass.list)
      /\ pass.turns \subseteq DOMAIN pass.list /\ pass.cancel \subseteq DOMAIN pass.list
  BY DEF BoardInv, WorkflowTypeOK, PassFits
<1>2. /\ Len(cards) \in Nat /\ DOMAIN cards = 1 .. Len(cards)
      /\ Len(pass.list) \in Nat /\ DOMAIN pass.list = 1 .. Len(pass.list)
  BY <1>1, Domains
<1>3. Len(pass.list) <= MaxCards
  BY <1>1, <1>2, WorkflowBounds
<1>4. DOMAIN pass.list \subseteq DOMAIN cards
  BY <1>1, <1>2
<1>5. pass.list \in Lists /\ cards \in Lists
  BY <1>1, BoardIsList DEF Lists, BoardInv
<1>6. \A i \in DOMAIN pass.list : Same(pass.list[i], cards[i])
  BY DEF BoardInv, PassFits
<1>7. Grew(pass.list, cards)
  BY <1>1, <1>4, <1>6, Zenon DEF Grew
<1> QED BY <1>1, <1>2, <1>3, <1>4, <1>5, <1>7

(* A board with one card rewritten.                                        *)
LEMMA OneTurn ==
    ASSUME BoardInv, NEW i, NEW j \in DOMAIN cards, NEW c \in CardRecords, Same(cards[j], c),
           NEW M, M = [cards EXCEPT ![j] = c], M[j] = c => Turned(i, j, M)
    PROVE  TurnOf(i, M)
<1>1. cards \in Seq(CardRecords) /\ Len(cards) <= MaxCards
  BY ListIs
<1>2. /\ Rewrites(cards, M) /\ M[j] = c
      /\ \A k \in DOMAIN cards : k # j => M[k] = cards[k]
  BY <1>1, SetIs
<1>3. Extends(cards, M)
  BY <1>1, <1>2, RewritesGrow
<1>4. \A k \in DOMAIN cards : Turned(i, k, M)
  BY <1>2, Zenon DEF Turned
<1>5. \A k \in DOMAIN M : ~(k > Len(cards))
  <2>1. DOMAIN M = 1 .. Len(cards) /\ Len(cards) \in Nat
    BY <1>1, <1>2, Domains DEF Rewrites
  <2> QED BY <2>1
<1> QED BY <1>3, <1>4, <1>5, Zenon DEF TurnOf

(* A board with repairs held and one card added.                           *)
LEMMA OneBirth ==
    ASSUME BoardInv, NEW i, NEW N, Rewrites(cards, N),
           \A j \in DOMAIN cards : N[j] = cards[j] \/ Held(i, j, N),
           NEW c, Born(cards, c), Offspring(i, c),
           Len(Append(N, c)) <= MaxCards
    PROVE  TurnOf(i, Append(N, c))
<1> DEFINE M == Append(N, c)
<1>1. cards \in Seq(CardRecords) /\ Len(cards) \in Nat
  BY ListIs
<1>2. /\ Extends(cards, M) /\ Len(M) = Len(cards) + 1 /\ M[Len(cards) + 1] = c
      /\ \A j \in DOMAIN cards : M[j] = N[j]
  BY <1>1, AppendIs
<1>3. DOMAIN M = 1 .. Len(cards) + 1
  BY <1>2, Domains DEF Extends
<1> HIDE DEF M
<1>4. \A j \in DOMAIN cards : Turned(i, j, M)
  <2> TAKE j \in DOMAIN cards
  <2>1. M[j] = N[j]
    BY <1>2
  <2>2. Held(i, j, N) => Held(i, j, M)
    BY <2>1 DEF Held
  <2> QED BY <2>1, <2>2 DEF Turned
<1>5. \A k \in DOMAIN M : k > Len(cards) => k = Len(cards) + 1 /\ Offspring(i, M[k])
  BY <1>1, <1>2, <1>3
<1> QED BY <1>2, <1>4, <1>5, Zenon DEF TurnOf, M

(* What a card born of card i may be added to.                             *)
LEMMA BirthIs ==
    ASSUME BoardInv, NEW i \in DOMAIN pass.list
    PROVE  /\ LET c == RetryCard(pass.list[i], i) IN Born(cards, c) /\ c.retry = i
           /\ LET c == RepairCard(i) IN Born(cards, c) /\ c.retry = 0
           /\ LET c == RecoveryCard(i) IN Born(cards, c) /\ c.retry = 0
<1> DEFINE L == pass.list
           a == RetryCard(L[i], i)
           b == RepairCard(i)
           d == RecoveryCard(i)
<1>0. /\ L \in Lists /\ Len(L) <= MaxCards /\ i \in DOMAIN cards /\ i \in Nat /\ i # 0
      /\ i <= Len(cards) /\ Len(cards) \in Nat
  BY ListIs
<1>1. /\ a \in CardRecords /\ a.slot = 0 /\ a.stage = L[i].stage
      /\ a.deps \subseteq L[i].deps /\ a.retry = i
      /\ a.repair = L[i].repair /\ a.recov = L[i].recov
      /\ b \in CardRecords /\ b.slot = 0 /\ b.deps = {} /\ b.retry = 0
      /\ b.repair = i /\ b.recov = 0
      /\ d \in CardRecords /\ d.slot = 0 /\ d.deps = {} /\ d.retry = 0
      /\ d.repair = 0 /\ d.recov = i
  BY <1>0, OffspringIs
<1>2. L[i].repair \in Nat /\ L[i].recov \in Nat /\ L[i].repair < i /\ L[i].recov < i
  <2>1. L[i] \in CardRecords /\ L[i].repair < i /\ L[i].recov < i
    BY <1>0, RetriesAreEarlier DEF Lists, Family
  <2>2. L[i].repair \in 0 .. MaxCards /\ L[i].recov \in 0 .. MaxCards
    BY <2>1, CardFields
  <2>3. \A x \in 0 .. MaxCards : x \in Nat
    OBVIOUS
  <2> QED BY <2>1, <2>2, <2>3
<1>3. L[i].stage = cards[i].stage /\ L[i].deps = cards[i].deps
  <2>1. Same(L[i], cards[i])
    BY DEF BoardInv, PassFits
  <2> QED BY <2>1 DEF Same
<1> HIDE DEF a, b, d, L
<1>4. /\ L[i].repair <= Len(cards) /\ L[i].recov <= Len(cards) /\ 0 <= Len(cards)
  BY <1>0, <1>2
<1>5. Born(cards, a) /\ a.retry = i
  BY <1>0, <1>1, <1>3, <1>4 DEF Born
<1>6. Born(cards, b) /\ b.retry = 0 /\ Born(cards, d) /\ d.retry = 0
  BY <1>0, <1>1, <1>4 DEF Born
<1> QED BY <1>5, <1>6 DEF a, b, d, L

(* A stale gate holds repairs of its reviewer, no other card.              *)
LEMMA HoldIs ==
    ASSUME BoardInv, NEW i, NEW N,
           N = [j \in DOMAIN cards |-> IF j \in WaitingRepairs(i)
                                       THEN CancelledCard(cards[j]) ELSE cards[j]]
    PROVE  /\ Rewrites(cards, N)
           /\ \A j \in DOMAIN cards : N[j] = cards[j] \/ Held(i, j, N)
<1>1. cards \in Seq(CardRecords)
  BY ListIs
<1>2. \A j \in DOMAIN cards :
         /\ cards[j] \in CardRecords
         /\ j \notin WaitingRepairs(i) => N[j] = cards[j]
         /\ j \in WaitingRepairs(i) => N[j] = CancelledCard(cards[j])
  BY <1>1
<1>3. N = [j \in DOMAIN cards |-> N[j]]
  BY <1>2
<1>4. \A j \in WaitingRepairs(i) : j \in DOMAIN pass.list /\ pass.list[j].repair = i
  BY DEF WaitingRepairs, RepairsOf
<1>5. ASSUME NEW j \in DOMAIN cards
      PROVE  /\ N[j] \in CardRecords /\ Same(cards[j], N[j])
             /\ N[j] = cards[j] \/ Held(i, j, N)
  <2>1. CASE j \notin WaitingRepairs(i)
    BY <2>1, <1>2, SameIs
  <2>2. CASE j \in WaitingRepairs(i)
    <3>1. N[j] = CancelledCard(cards[j]) /\ cards[j] \in CardRecords
      BY <2>2, <1>2
    <3>2. /\ Becomes(cards[j], N[j], "blocked") /\ N[j].why = cards[j].why
          /\ N[j].fails = cards[j].fails
      BY <3>1, CancelledIs
    <3> QED BY <2>2, <3>2, <1>4 DEF Becomes, Held
  <2> QED BY <2>1, <2>2
<1>6. Rewrites(cards, N)
  BY <1>1, <1>3, <1>5, MapIs
<1> QED BY <1>5, <1>6

(* So a recheck is a turn.                                                 *)
LEMMA RecheckedIs ==
    ASSUME BoardInv, NEW i \in DOMAIN pass.list,
           pass.list[i].stage = "final", Ended(pass.list[i]),
           Len(Rechecked(i)) <= MaxCards
    PROVE  TurnOf(i, Rechecked(i))
<1> DEFINE N == [j \in DOMAIN cards |-> IF j \in WaitingRepairs(i)
                                        THEN CancelledCard(cards[j]) ELSE cards[j]]
           c == RetryCard(pass.list[i], i)
<1>1. Rewrites(cards, N) /\ \A j \in DOMAIN cards : N[j] = cards[j] \/ Held(i, j, N)
  BY HoldIs
<1>2. Rechecked(i) = IF ActiveRetries(pass.list, i) # {} THEN N ELSE Append(N, c)
  BY DEF Rechecked
<1>3. Born(cards, c) /\ c.retry = i
  BY BirthIs
<1> HIDE DEF N, c
<1>4. cards \in Seq(CardRecords) /\ Len(cards) <= MaxCards
  BY ListIs
<1>5. CASE ActiveRetries(pass.list, i) # {}
  <2>1. Extends(cards, N)
    BY <1>1, <1>4, RewritesGrow
  <2>2. \A j \in DOMAIN cards : Turned(i, j, N)
    BY <1>1 DEF Turned
  <2>3. \A k \in DOMAIN N : ~(k > Len(cards))
    <3>1. DOMAIN N = 1 .. Len(cards) /\ Len(cards) \in Nat
      BY <1>1, <1>4, Domains DEF Rewrites
    <3> QED BY <3>1
  <2>4. TurnOf(i, N)
    BY <2>1, <2>2, <2>3, Zenon DEF TurnOf
  <2> QED BY <1>2, <1>5, <2>4, Zenon
<1>6. CASE ActiveRetries(pass.list, i) = {}
  <2>1. Rechecked(i) = Append(N, c)
    BY <1>2, <1>6, Zenon
  <2>2. Offspring(i, c)
    BY <1>3 DEF Offspring
  <2>3. Len(Append(N, c)) <= MaxCards
    BY <2>1
  <2>4. TurnOf(i, Append(N, c))
    BY <1>1, <1>3, <2>2, <2>3, OneBirth
  <2> QED BY <2>1, <2>4, Zenon
<1> QED BY <1>5, <1>6

(* What each operation does to the board.                                  *)
LEMMA AppliedAs ==
    ASSUME NEW op
    PROVE  /\ op.name = "complete" =>
                Applied(op) = [cards EXCEPT ![op.card] = DoneWith(cards[op.card], op.proof)]
           /\ op.name = "requeue" =>
                Applied(op) = [cards EXCEPT ![op.card] = Reclaimed(cards[op.card], "ready")]
           /\ op.name = "reassign" =>
                Applied(op) = [cards EXCEPT ![op.card] =
                                 [Reclaimed(cards[op.card], "ready") EXCEPT !.fails = 0]]
           /\ op.name = "retry" =>
                Applied(op) = Append(cards, RetryCard(pass.list[op.card], op.card))
           /\ op.name = "repair" => Applied(op) = Append(cards, RepairCard(op.card))
           /\ op.name = "recovery" => Applied(op) = Append(cards, RecoveryCard(op.card))
           /\ op.name = "recheck" => Applied(op) = Rechecked(op.card)
<1> DEFINE a == [cards EXCEPT ![op.card] = DoneWith(cards[op.card], op.proof)]
           b == [cards EXCEPT ![op.card] = Reclaimed(cards[op.card], "ready")]
           c == [cards EXCEPT ![op.card] = [Reclaimed(cards[op.card], "ready") EXCEPT !.fails = 0]]
           d == Append(cards, RetryCard(pass.list[op.card], op.card))
           e == Append(cards, RepairCard(op.card))
           f == Append(cards, RecoveryCard(op.card))
           g == Rechecked(op.card)
<1>1. Applied(op) =
        CASE op.name = "complete" -> a [] op.name = "requeue" -> b
          [] op.name = "reassign" -> c [] op.name = "retry" -> d
          [] op.name = "repair" -> e [] op.name = "recovery" -> f
          [] op.name = "recheck" -> g
  BY DEF Applied
<1> HIDE DEF a, b, c, d, e, f, g
<1>2. /\ op.name = "complete" => Applied(op) = a
      /\ op.name = "requeue" => Applied(op) = b
      /\ op.name = "reassign" => Applied(op) = c
      /\ op.name = "retry" => Applied(op) = d
      /\ op.name = "repair" => Applied(op) = e
      /\ op.name = "recovery" => Applied(op) = f
      /\ op.name = "recheck" => Applied(op) = g
  BY <1>1
<1> QED BY <1>2, Zenon DEF a, b, c, d, e, f, g

(* A turn that appends a card.                                             *)
LEMMA PlainBirth ==
    ASSUME BoardInv, NEW i, NEW c, Born(cards, c), Offspring(i, c),
           Len(Append(cards, c)) <= MaxCards
    PROVE  TurnOf(i, Append(cards, c))
<1>1. Rewrites(cards, cards)
  BY ListIs, SameIs DEF Rewrites
<1> QED BY <1>1, OneBirth

(* Every operation a pass can decide on is a turn of its card.             *)
LEMMA AppliedIs ==
    ASSUME BoardInv, NEW i \in pass.turns, NEW op, Outcome(pass.list, i, op),
           op.name # "nothing", Len(Applied(op)) <= MaxCards
    PROVE  TurnOf(i, Applied(op))
<1> DEFINE L == pass.list
           M == Applied(op)
<1>0. /\ L \in Lists /\ cards \in Seq(CardRecords) /\ i \in DOMAIN L /\ DOMAIN L \subseteq DOMAIN cards
      /\ \A j \in DOMAIN cards : cards[j] \in CardRecords
  BY ListIs
<1>i. i \in Nat /\ i # 0
  BY <1>0, RetriesAreEarlier
<1>00. "ready" \in Statuses
  BY DEF Statuses
<1>1. CASE op.name = "complete"
  <2>1. /\ op.card = i /\ Ended(L[i]) /\ (L[i].status = "blocked" => ~OwnerSide(L[i]))
        /\ op.proof \in ProofRecords /\ Counts(L[i].stage, op.proof)
    BY <1>1 DEF Outcome
  <2> DEFINE c == DoneWith(cards[i], op.proof)
  <2>2. M = [cards EXCEPT ![i] = c]
    BY <1>1, <2>1, AppliedAs
  <2>3. Becomes(cards[i], c, "done") /\ c.proof = op.proof /\ c.fails = cards[i].fails
    BY <2>1, <1>0, DoneIs
  <2> HIDE DEF M, c
  <2>4. c \in CardRecords /\ Same(cards[i], c) /\ c.status = "done"
    BY <2>3 DEF Becomes
  <2>5. M[i] = c => Turned(i, i, M)
    BY <2>1, <2>3, <2>4 DEF Turned, Completed
  <2>6. TurnOf(i, M)
    BY <2>2, <2>4, <2>5, <1>0, OneTurn
  <2> QED BY <2>6 DEF M
<1>2. CASE op.name = "requeue"
  <2> DEFINE j == op.card
             c == Reclaimed(cards[j], "ready")
  <2>1. /\ j \in DOMAIN L
        /\ \/ j = i /\ L[i].status = "blocked" /\ ~OwnerSide(L[i])
           \/ L[j].repair = i
    BY <1>2 DEF Outcome
  <2>2. M = [cards EXCEPT ![j] = c]
    BY <1>2, AppliedAs
  <2>3. Becomes(cards[j], c, "ready") /\ c.fails = cards[j].fails
    BY <2>1, <1>0, <1>00, ReclaimedIs
  <2> HIDE DEF M, c, j
  <2>4. c \in CardRecords /\ Same(cards[j], c) /\ c.status = "ready"
    BY <2>3 DEF Becomes
  <2>5. M[j] = c => Turned(i, j, M)
    BY <2>1, <2>3, <2>4 DEF Turned, Requeued
  <2>6. TurnOf(i, M)
    BY <2>1, <2>2, <2>4, <2>5, <1>0, OneTurn
  <2> QED BY <2>6 DEF M
<1>3. CASE op.name = "reassign"
  <2> DEFINE c == [Reclaimed(cards[i], "ready") EXCEPT !.fails = 0]
  <2>1. op.card = i /\ L[i].status \in {"ready", "todo"} /\ ~WithinBudget(L[i])
    BY <1>3 DEF Outcome
  <2>2. M = [cards EXCEPT ![i] = c]
    BY <1>3, <2>1, AppliedAs
  <2>3. Becomes(cards[i], c, "ready")
    BY <1>0, ReassignedIs
  <2> HIDE DEF M, c
  <2>4. c \in CardRecords /\ Same(cards[i], c) /\ c.status = "ready"
    BY <2>3 DEF Becomes
  <2>5. M[i] = c => Turned(i, i, M)
    BY <2>1, <2>4 DEF Turned, Reassigned
  <2>6. TurnOf(i, M)
    BY <2>2, <2>4, <2>5, <1>0, OneTurn
  <2> QED BY <2>6 DEF M
<1>4. CASE op.name = "retry"
  <2> DEFINE c == RetryCard(L[i], i)
  <2>1. /\ op.card = i
        /\ Ended(L[i]) \/ (backend = "workboard" /\ L[i].fails > 0)
        /\ L[i].stage = "merge" \/ ~RetriesExhausted(L, i)
    BY <1>4 DEF Outcome
  <2>2. M = Append(cards, c)
    BY <1>4, <2>1, AppliedAs
  <2>3. Born(cards, c) /\ c.retry = i
    BY <1>0, BirthIs
  <2> HIDE DEF M, c
  <2>4. Offspring(i, c)
    BY <2>1, <2>3 DEF Offspring
  <2>5. TurnOf(i, M)
    BY <2>2, <2>3, <2>4, PlainBirth DEF M
  <2> QED BY <2>5 DEF M
<1>5. CASE op.name = "repair"
  <2> DEFINE c == RepairCard(i)
  <2>1. op.card = i
    BY <1>5 DEF Outcome
  <2>2. M = Append(cards, c)
    BY <1>5, <2>1, AppliedAs
  <2>3. Born(cards, c) /\ c.retry = 0
    BY <1>0, BirthIs
  <2> HIDE DEF M, c
  <2>4. Offspring(i, c)
    BY <2>3, <1>i DEF Offspring
  <2>5. TurnOf(i, M)
    BY <2>2, <2>3, <2>4, PlainBirth DEF M
  <2> QED BY <2>5 DEF M
<1>6. CASE op.name = "recovery"
  <2> DEFINE c == RecoveryCard(op.card)
  <2>1. op.card \in DOMAIN L
    BY <1>6 DEF Outcome
  <2>2. M = Append(cards, c)
    BY <1>6, AppliedAs
  <2>3. Born(cards, c) /\ c.retry = 0
    BY <2>1, BirthIs
  <2> HIDE DEF M, c
  <2>4. Offspring(i, c)
    BY <2>3, <1>i DEF Offspring
  <2>5. TurnOf(i, M)
    BY <2>2, <2>3, <2>4, PlainBirth DEF M
  <2> QED BY <2>5 DEF M
<1>7. CASE op.name = "recheck"
  <2>1. op.card = i /\ L[i].stage = "final" /\ L[i].status = "blocked"
    BY <1>7 DEF Outcome
  <2>2. M = Rechecked(i)
    BY <1>7, <2>1, AppliedAs
  <2>3. Ended(L[i])
    BY <2>1 DEF Ended
  <2> QED BY <2>1, <2>2, <2>3, <1>0, RecheckedIs
<1> QED BY <1>1, <1>2, <1>3, <1>4, <1>5, <1>6, <1>7 DEF Outcome

(* MainTurn is the turn of the first card that is acted on.                *)
LEMMA TurnIs ==
    ASSUME BoardInv, MainTurn
    PROVE  /\ First(Acting) \in pass.turns /\ pass.on /\ pass.cancel = {}
           /\ pass' = [pass EXCEPT !.turns = {j \in @ : j > First(Acting)}]
           /\ TurnOf(First(Acting), cards')
           /\ UNCHANGED OfPasses
<1> DEFINE i == First(Acting)
           op == Decision(pass.list, i)
<1>0. pass.turns \subseteq DOMAIN pass.list /\ DOMAIN pass.list \subseteq Nat /\ pass.list \in Lists
  BY ListIs
<1>1. /\ pass.on /\ pass.cancel = {} /\ Acting # {} /\ cards' = Applied(op)
      /\ pass' = [pass EXCEPT !.turns = {j \in @ : j > i}]
      /\ Len(cards') <= MaxCards /\ UNCHANGED OfPasses
  BY DEF MainTurn
<1>2. i \in Acting
  <2>1. Acting \in SUBSET Nat
    BY <1>0 DEF Acting
  <2> QED BY <1>1, <2>1, FirstIs
<1>3. i \in pass.turns /\ op.name # "nothing"
  BY <1>2 DEF Acting
<1>4. Outcome(pass.list, i, op)
  BY <1>0, <1>3, Decisions
<1> HIDE DEF i, op
<1>5. TurnOf(i, cards')
  BY <1>1, <1>3, <1>4, AppliedIs
<1> QED BY <1>1, <1>3, <1>5 DEF i

----------------------------------------------------------------------------
(* Every action keeps the invariant of the board.                          *)

(* The plan does not change.                                               *)
LEMMA RowsKept == ASSUME UNCHANGED setting PROVE Rows' = Rows /\ NeedsWorktree' = NeedsWorktree
  BY DEF setting, Rows, NeedsWorktree

(* What a step must keep for the type invariant.                           *)
LEMMA TypeKept ==
    ASSUME WorkflowTypeOK, UNCHANGED setting, Board(cards'),
           enq' \in 0 .. Len(Rows) + 1, ws' \in {"none", "live", "removed"},
           head' \in 0 .. MaxHead, merged' \in BOOLEAN,
           trouble' \in 0 .. MaxTrouble[plan.kind],
           pass'.on \in BOOLEAN, pass'.list \in Seq(CardRecords),
           Len(pass'.list) <= Len(cards'),
           pass'.cancel \in SUBSET DOMAIN pass'.list,
           pass'.turns \in SUBSET DOMAIN pass'.list
    PROVE  WorkflowTypeOK'
<1>1. Rows' = Rows /\ plan' = plan /\ backend' = backend /\ actual' = actual
  BY RowsKept DEF setting
<1>2. cards' \in Seq(CardRecords) /\ Len(cards') <= MaxCards
  BY DEF Board
<1> QED BY <1>1, <1>2, Zenon DEF WorkflowTypeOK

(* No pass is a pass record.                                               *)
LEMMA NoPassIs == NoPass \in PassRecords
<1>1. <<>> \in Seq(CardRecords)
  OBVIOUS
<1> QED BY <1>1 DEF NoPass, PassRecords

(* A step that ends the pass, or runs without one, need not look at it.    *)
LEMMA NoPassFits ==
    ASSUME Board(cards'), pass' = NoPass
    PROVE  /\ PassFits'
           /\ pass'.on \in BOOLEAN /\ pass'.list \in Seq(CardRecords)
           /\ Len(pass'.list) <= Len(cards')
           /\ pass'.cancel \in SUBSET DOMAIN pass'.list
           /\ pass'.turns \in SUBSET DOMAIN pass'.list
<1>1. /\ pass'.on = FALSE /\ pass'.list = <<>> /\ pass'.cancel = {} /\ pass'.turns = {}
  BY DEF NoPass
<1>2. DOMAIN <<>> = {} /\ Len(<<>>) = 0 /\ <<>> \in Seq(CardRecords)
  OBVIOUS
<1>3. Len(cards') \in Nat
  BY Domains DEF Board
<1>4. Family(<<>>)
  BY <1>2 DEF Family
<1>5. Len(pass'.list) <= Len(cards')
  BY <1>1, <1>2, <1>3
<1>6. PassFits'
  BY <1>1, <1>2, <1>4, NoPassIs DEF PassFits
<1> QED BY <1>1, <1>2, <1>5, <1>6

(* A step that ends or opens no pass and enqueues nothing.                 *)
LEMMA IdleKept ==
    ASSUME BoardInv, UNCHANGED setting, Board(cards'), pass' = NoPass,
           enq' = 0, ws' \in {"none", "live", "removed"}, head' \in 0 .. MaxHead,
           merged' \in BOOLEAN, trouble' \in 0 .. MaxTrouble[plan.kind]
    PROVE  BoardInv'
<1>0. WorkflowTypeOK /\ Board(cards)
  BY DEF BoardInv
<1>1. Board(cards')
  OBVIOUS
<1>2. 0 \in 0 .. Len(Rows) + 1
  <2>1. Len(Rows) \in Nat
    BY <1>0, RowsFit DEF WorkflowTypeOK
  <2> QED BY <2>1
<1>3. WorkflowTypeOK'
  BY <1>0, <1>1, <1>2, TypeKept, NoPassFits, Zenon
<1>4. PassFits'
  BY <1>1, NoPassFits
<1>5. EnqueueFits'
  BY DEF EnqueueFits
<1> QED BY <1>1, <1>3, <1>4, <1>5 DEF BoardInv

(* The empty board satisfies the invariant.                                *)
LEMMA InitBoard == WorkflowInit => BoardInv
<1> SUFFICES ASSUME WorkflowInit PROVE BoardInv
  OBVIOUS
<1>0. cards = <<>> /\ pass = NoPass /\ enq = 0 /\ plan \in Plans
  BY DEF WorkflowInit
<1>1. <<>> \in Seq(CardRecords) /\ Len(<<>>) = 0 /\ DOMAIN <<>> = {} /\ 0 <= MaxCards
  BY WorkflowBounds
<1>2. Board(cards)
  BY <1>0, <1>1 DEF Board, Family, OneEach
<1>3. Family(<<>>)
  BY <1>1 DEF Family
<1>4. /\ pass.on = FALSE /\ pass.list = <<>> /\ pass.cancel = {} /\ pass.turns = {}
  BY <1>0 DEF NoPass
<1>5. PassFits
  BY <1>0, <1>1, <1>3, <1>4, NoPassIs DEF PassFits
<1>6. EnqueueFits
  BY <1>0 DEF EnqueueFits
<1>7. enq \in 0 .. Len(Rows) + 1
  <2>1. Len(Rows) \in Nat
    BY <1>0, RowsFit
  <2> QED BY <2>1, <1>0
<1>8. trouble \in 0 .. MaxTrouble[plan.kind]
  <2>1. plan.kind \in Kinds
    BY <1>0, PlanFields
  <2>2. MaxTrouble[plan.kind] \in Nat
    BY <2>1, TroubleIsBounded
  <2> DEFINE m == MaxTrouble[plan.kind]
  <2> HIDE DEF m
  <2>3. 0 \in 0 .. m
    BY <2>2 DEF m
  <2>4. trouble = 0
    BY DEF WorkflowInit
  <2> QED BY <2>3, <2>4 DEF m
<1>9. head \in 0 .. MaxHead
  <2>1. 0 \in 0 .. MaxHead /\ 1 \in 0 .. MaxHead
    BY WorkflowBounds
  <2>2. head = IF plan.kind \in {"review", "repair"} THEN 1 ELSE 0
    BY DEF WorkflowInit
  <2> QED BY <2>1, <2>2, Zenon
<1>10. WorkflowTypeOK
  <2>1. /\ backend \in Backends /\ plan \in Plans /\ actual \in SUBSET Profiles
        /\ ws \in {"none", "live", "removed"} /\ merged \in BOOLEAN
    BY DEF WorkflowInit
  <2>2. /\ cards \in Seq(CardRecords) /\ Len(cards) <= MaxCards
        /\ pass.on \in BOOLEAN /\ pass.list \in Seq(CardRecords) /\ Len(pass.list) <= Len(cards)
        /\ pass.cancel \in SUBSET DOMAIN pass.list /\ pass.turns \in SUBSET DOMAIN pass.list
    <3>1. cards \in Seq(CardRecords) /\ Len(cards) = 0 /\ Len(cards) <= MaxCards
      BY <1>0, <1>1, Zenon
    <3>2. pass.list \in Seq(CardRecords) /\ Len(pass.list) = 0
      BY <1>1, <1>4, Zenon
    <3>3. Len(pass.list) <= Len(cards)
      BY <3>1, <3>2
    <3>4. pass.on \in BOOLEAN /\ {} \in SUBSET DOMAIN pass.list
      BY <1>4
    <3> QED BY <3>1, <3>2, <3>3, <3>4, <1>4, Zenon
  <2> QED BY <2>1, <2>2, <1>7, <1>8, <1>9, Zenon DEF WorkflowTypeOK
<1> QED BY <1>2, <1>5, <1>6, <1>10 DEF BoardInv

(* The parts of the invariant.                                             *)
LEMMA TypedIs ==
    ASSUME BoardInv
    PROVE  /\ WorkflowTypeOK /\ Board(cards) /\ PassFits /\ EnqueueFits
           /\ enq \in Nat /\ enq \in 0 .. Len(Rows) + 1 /\ Len(Rows) \in Nat /\ Len(Rows) >= 1
           /\ ws \in {"none", "live", "removed"} /\ head \in 0 .. MaxHead
           /\ merged \in BOOLEAN /\ trouble \in 0 .. MaxTrouble[plan.kind]
           /\ pass.on \in BOOLEAN
           /\ enq > 0 \/ ~pass.on => pass = NoPass
           /\ backend \in {"direct", "workboard"}
<1>1. WorkflowTypeOK /\ Board(cards) /\ PassFits /\ EnqueueFits
  BY DEF BoardInv
<1>2. Len(Rows) \in Nat /\ Len(Rows) >= 1 /\ enq \in 0 .. Len(Rows) + 1
  BY <1>1, RowsFit DEF WorkflowTypeOK
<1>3. enq \in Nat
  BY <1>2
<1>4. enq > 0 \/ ~pass.on => pass = NoPass
  BY <1>1 DEF PassFits
<1> QED BY <1>1, <1>2, <1>3, <1>4, BackendsAreKnown DEF WorkflowTypeOK

(* What a step must keep for EnqueueFits.                                  *)
LEMMA EnqueueFitsNext ==
    ASSUME UNCHANGED setting,
           enq' > 0 => \A i \in DOMAIN cards' :
               InWorkflow(cards'[i]) => cards'[i].status \in {"todo", "done"},
           enq' \in {1, 2} => \A i \in DOMAIN cards' :
               OnWorktree(cards'[i]) => cards'[i].status = "done"
    PROVE  EnqueueFits'
<1>1. NeedsWorktree' = NeedsWorktree
  BY RowsKept
<1> QED BY <1>1 DEF EnqueueFits, OnWorktree, InWorkflow

(* The board after a call that creates a stage's card.                     *)
LEMMA MaterializedBoard ==
    ASSUME BoardInv, NEW s \in 1 .. Len(Rows), Len(cards) < MaxCards, NEW M, M = Materialized(s)
    PROVE  /\ Board(M) /\ Grew(cards, M)
           /\ \A i \in DOMAIN cards : M[i] = cards[i]
           /\ \A k \in DOMAIN M : k \notin DOMAIN cards =>
                 Added(s, M[k]) /\ k = Len(cards) + 1
<1>0. WorkflowTypeOK /\ Board(cards) /\ cards \in Seq(CardRecords) /\ s \in Nat
  BY ListIs DEF BoardInv
<1>1. CASE M = cards
  <2>1. Grew(cards, cards)
    BY <1>0, Domains, SameIs DEF Grew
  <2> QED BY <1>0, <1>1, <2>1
<1>2. CASE \E c : Added(s, c) /\ M = Append(cards, c)
  <2>1. PICK c : Added(s, c) /\ M = Append(cards, c)
    BY <1>2
  <2>2. /\ Board(M) /\ Grew(cards, M) /\ Len(M) = Len(cards) + 1
        /\ M[Len(cards) + 1] = c /\ \A i \in DOMAIN cards : M[i] = cards[i]
    BY <1>0, <2>1, AddedIs
  <2>3. DOMAIN M = 1 .. Len(cards) + 1 /\ DOMAIN cards = 1 .. Len(cards) /\ Len(cards) \in Nat
    BY <1>0, <2>2, Domains DEF Board
  <2>4. \A k \in DOMAIN M : k \notin DOMAIN cards => k = Len(cards) + 1
    BY <2>3
  <2> QED BY <2>1, <2>2, <2>4
<1> QED BY <1>0, <1>1, <1>2, MaterializedIs, Zenon

(* The steps keep the invariant: enqueue begins only when nothing is       *)
(* active,                                                                 *)
LEMMA StartEnqueueKept == ASSUME BoardInv, StartEnqueue PROVE BoardInv'
<1>0. /\ WorkflowTypeOK /\ Board(cards) /\ PassFits /\ EnqueueFits
      /\ Len(Rows) \in Nat /\ head \in 0 .. MaxHead /\ merged \in BOOLEAN
      /\ trouble \in 0 .. MaxTrouble[plan.kind] /\ ws \in {"none", "live", "removed"}
      /\ ~pass.on => pass = NoPass
  BY TypedIs
<1>1. /\ enq = 0 /\ ~pass.on /\ ~HasActiveWorkflow(cards) /\ enq' = 1
      /\ ws' = IF NeedsWorktree THEN "live" ELSE ws
      /\ UNCHANGED <<cards, head, merged, pass, trouble>> /\ UNCHANGED setting
  BY DEF StartEnqueue
<1>2. 1 \in 0 .. Len(Rows) + 1 /\ ws' \in {"none", "live", "removed"}
  BY <1>0, <1>1
<1>3. Board(cards') /\ pass' = NoPass
  BY <1>0, <1>1
<1>4. WorkflowTypeOK'
  BY <1>0, <1>1, <1>2, <1>3, NoPassFits, TypeKept, Zenon
<1>5. EnqueueFits'
  <2>1. \A i \in DOMAIN cards : InWorkflow(cards[i]) => cards[i].status = "done"
    BY <1>1 DEF HasActiveWorkflow
  <2>2. \A i \in DOMAIN cards : OnWorktree(cards[i]) => cards[i].status = "done"
    BY <2>1 DEF OnWorktree
  <2>4. \A i \in DOMAIN cards' : InWorkflow(cards'[i]) => cards'[i].status \in {"todo", "done"}
    BY <2>1, <1>1
  <2>5. \A i \in DOMAIN cards' : OnWorktree(cards'[i]) => cards'[i].status = "done"
    BY <2>2, <1>1
  <2> QED BY <2>4, <2>5, <1>1, EnqueueFitsNext
<1> QED BY <1>3, <1>4, <1>5, NoPassFits DEF BoardInv

(* creates one stage at a time,                                            *)
LEMMA CreateStageKept == ASSUME BoardInv, CreateStage PROVE BoardInv'
<1>0. /\ WorkflowTypeOK /\ Board(cards) /\ PassFits /\ EnqueueFits
      /\ Len(Rows) \in Nat /\ head \in 0 .. MaxHead /\ merged \in BOOLEAN
      /\ trouble \in 0 .. MaxTrouble[plan.kind] /\ ws \in {"none", "live", "removed"}
      /\ enq > 0 => pass = NoPass
  BY TypedIs
<1>1. /\ enq \in 1 .. Len(Rows) /\ Len(cards) < MaxCards
      /\ cards' = Materialized(enq) /\ enq' = enq + 1
      /\ UNCHANGED <<ws, head, merged, pass, trouble>> /\ UNCHANGED setting
  BY DEF CreateStage
<1>2. /\ Board(cards') /\ \A i \in DOMAIN cards : cards'[i] = cards[i]
      /\ \A k \in DOMAIN cards' : k \notin DOMAIN cards => Added(enq, cards'[k])
  BY <1>1, MaterializedBoard
<1>3. enq' \in 0 .. Len(Rows) + 1 /\ enq > 0
  BY <1>0, <1>1
<1>4. pass' = NoPass
  BY <1>0, <1>1, <1>3
<1>5. WorkflowTypeOK'
  BY <1>0, <1>1, <1>2, <1>3, <1>4, NoPassFits, TypeKept, Zenon
<1>6. EnqueueFits'
  <2>2. ASSUME NEW k \in DOMAIN cards', InWorkflow(cards'[k])
        PROVE  cards'[k].status \in {"todo", "done"}
    <3>1. CASE k \in DOMAIN cards
      BY <3>1, <2>2, <1>0, <1>2, <1>3 DEF EnqueueFits
    <3>2. CASE k \notin DOMAIN cards
      BY <3>2, <1>2 DEF Added
    <3> QED BY <3>1, <3>2
  <2>3. ASSUME enq' \in {1, 2}, NEW k \in DOMAIN cards', OnWorktree(cards'[k])
        PROVE  cards'[k].status = "done"
    <3>0. enq = 1
      BY <2>3, <1>1, <1>3, TypedIs
    <3>1. CASE k \in DOMAIN cards
      BY <3>0, <3>1, <2>3, <1>0, <1>2 DEF EnqueueFits
    <3>2. CASE k \notin DOMAIN cards
      BY <3>0, <3>2, <2>3, <1>2 DEF Added, OnWorktree
    <3> QED BY <3>1, <3>2
  <2> QED BY <2>2, <2>3, <1>1, EnqueueFitsNext
<1> QED BY <1>2, <1>4, <1>5, <1>6, NoPassFits DEF BoardInv

(* (a board that did not change is one)                                    *)
LEMMA SameBoard == ASSUME Board(cards), cards' = cards PROVE Board(cards')
  OBVIOUS

(* and ends, fails or dies;                                                *)
LEMMA EnqueueKept == ASSUME BoardInv, EnqueueStep PROVE BoardInv'
<1>0. /\ WorkflowTypeOK /\ Board(cards) /\ cards \in Seq(CardRecords) /\ Len(cards) <= MaxCards
      /\ head \in 0 .. MaxHead /\ merged \in BOOLEAN /\ enq \in Nat
      /\ trouble \in 0 .. MaxTrouble[plan.kind] /\ ws \in {"none", "live", "removed"}
      /\ enq > 0 => pass = NoPass
  BY TypedIs, ListIs
<1>1. CASE StartEnqueue
  BY <1>1, StartEnqueueKept
<1>2. CASE CreateStage
  BY <1>2, CreateStageKept
<1>3. CASE CloseRoot
  <2>1. Rewrites(cards, cards')
    BY <1>0, <1>3, CloseRootIs
  <2>2. Board(cards')
    BY <1>0, <2>1, RewritesGrow, BoardGrows
  <2>3. /\ enq = Len(Rows) + 1 /\ enq' = 0 /\ UNCHANGED setting
        /\ UNCHANGED <<ws, head, merged, pass, trouble>>
    BY <1>3 DEF CloseRoot
  <2>4. enq > 0
    BY <2>3, TypedIs
  <2> QED BY <1>0, <2>2, <2>3, <2>4, IdleKept
<1>4. CASE CrashInEnqueue
  <2>1. enq > 0 /\ Hit /\ enq' = 0 /\ UNCHANGED setting /\ UNCHANGED <<cards, ws, head, merged, pass>>
    BY <1>4 DEF CrashInEnqueue
  <2>2. trouble' \in 0 .. MaxTrouble[plan.kind]
    BY <1>0, <2>1, HitIs
  <2>3. Board(cards')
    BY <1>0, <2>1, SameBoard
  <2> QED BY <1>0, <2>1, <2>2, <2>3, IdleKept
<1>5. ASSUME NEW effective \in BOOLEAN, FailEnqueue(effective)
      PROVE  BoardInv'
  <2>1. /\ enq > 0 /\ Hit /\ enq' = 0 /\ UNCHANGED setting /\ UNCHANGED <<head, merged, pass>>
        /\ effective => enq <= Len(Rows) /\ Len(cards) < MaxCards
        /\ cards' = IF effective THEN Materialized(enq) ELSE cards
        /\ ws' = "removed" \/ ws' = ws
    BY <1>5 DEF FailEnqueue
  <2>2. trouble' \in 0 .. MaxTrouble[plan.kind]
    BY <1>0, <2>1, HitIs
  <2>3. Board(cards')
    <3>1. CASE effective
      <4>1. enq \in 1 .. Len(Rows) /\ Len(cards) < MaxCards /\ cards' = Materialized(enq)
        BY <3>1, <2>1, TypedIs
      <4> QED BY <4>1, MaterializedBoard
    <3>2. CASE ~effective
      BY <3>2, <2>1, <1>0, SameBoard
    <3> QED BY <3>1, <3>2
  <2>4. ws' \in {"none", "live", "removed"}
    BY <1>0, <2>1
  <2> QED BY <1>0, <2>1, <2>2, <2>3, <2>4, IdleKept
<1> QED BY <1>1, <1>2, <1>3, <1>4, <1>5 DEF EnqueueStep

(* a worker changes its card while a pass goes on;                         *)
LEMMA WorkerKept == ASSUME BoardInv, NEW i \in DOMAIN cards, NEW c, Worked(i, c) PROVE BoardInv'
<1>0. /\ WorkflowTypeOK /\ Board(cards) /\ PassFits /\ EnqueueFits
      /\ enq \in 0 .. Len(Rows) + 1 /\ enq \in Nat /\ ws \in {"none", "live", "removed"}
      /\ cards \in Seq(CardRecords) /\ Len(cards) <= MaxCards
      /\ DOMAIN pass.list \subseteq DOMAIN cards /\ pass.turns \subseteq DOMAIN pass.list
      /\ Len(pass.list) \in Nat
  BY TypedIs, ListIs
<1>1. /\ cards' = [cards EXCEPT ![i] = c]
      /\ c \in CardRecords /\ Same(cards[i], c)
      /\ cards[i].status \in {"ready", "running"}
      /\ c.fails >= cards[i].fails
      /\ UNCHANGED <<enq, ws, pass>> /\ UNCHANGED setting
      /\ head' \in 0 .. MaxHead /\ merged' \in BOOLEAN
      /\ trouble' \in 0 .. MaxTrouble[plan.kind]
  BY DEF Worked
<1>2. /\ Rewrites(cards, cards') /\ cards'[i] = c
      /\ \A j \in DOMAIN cards : j # i => cards'[j] = cards[j]
  BY <1>0, <1>1, SetIs
<1>3. Board(cards')
  BY <1>0, <1>2, RewritesGrow, BoardGrows
<1>4. DOMAIN cards' = DOMAIN cards /\ Len(cards') = Len(cards)
  BY <1>0, <1>2, Domains DEF Rewrites
<1>5. \A j \in DOMAIN cards : cards[j] \in CardRecords /\ Same(cards[j], cards'[j])
  BY <1>0, <1>2 DEF Rewrites
<1>6. WorkflowTypeOK'
  <2>1. /\ pass'.on \in BOOLEAN /\ pass'.list \in Seq(CardRecords)
        /\ Len(pass'.list) <= Len(cards')
        /\ pass'.cancel \in SUBSET DOMAIN pass'.list
        /\ pass'.turns \in SUBSET DOMAIN pass'.list
    BY <1>0, <1>1, <1>4 DEF WorkflowTypeOK
  <2>2. enq' \in 0 .. Len(Rows) + 1 /\ ws' \in {"none", "live", "removed"}
    BY <1>0, <1>1
  <2> QED BY <1>0, <1>1, <1>3, <2>1, <2>2, TypeKept
<1>7. PassFits'
  <2>1. \A j \in DOMAIN pass.list :
           /\ Same(pass.list[j], cards'[j])
           /\ pass.list[j].slot > 0 /\ pass.list[j].status = "done" => cards'[j].status = "done"
    <3> TAKE j \in DOMAIN pass.list
    <3>1. /\ Same(pass.list[j], cards[j]) /\ j \in DOMAIN cards
          /\ pass.list[j].slot > 0 /\ pass.list[j].status = "done" => cards[j].status = "done"
      BY <1>0 DEF PassFits
    <3>2. Same(pass.list[j], cards'[j])
      BY <3>1, <1>5, SameIs
    <3>3. cards[j].status = "done" => cards'[j].status = "done"
      BY <3>1, <1>1, <1>2
    <3> QED BY <3>1, <3>2, <3>3
  <2>2. \A j \in pass.turns :
           /\ pass.list[j].fails <= cards'[j].fails
           /\ pass.list[j].repair = 0 /\ Ended(pass.list[j]) => cards'[j] = pass.list[j]
    <3> TAKE j \in pass.turns
    <3>1. /\ pass.list[j].fails <= cards[j].fails /\ j \in DOMAIN cards
          /\ pass.list[j].repair = 0 /\ Ended(pass.list[j]) => cards[j] = pass.list[j]
      BY <1>0 DEF PassFits
    <3>2. /\ pass.list[j].fails \in Nat /\ cards[j].fails \in Nat /\ c.fails \in Nat
      <4>1. pass.list[j] \in CardRecords /\ cards[j] \in CardRecords
        BY <1>0, <1>5, ListIs
      <4> QED BY <4>1, <1>1, CardFields
    <3>3. CASE j # i
      BY <3>1, <3>3, <1>2
    <3>4. CASE j = i
      <4>1. ~Ended(cards[i])
        BY <1>1 DEF Ended
      <4>2. ~(pass.list[j].repair = 0 /\ Ended(pass.list[j]))
        BY <3>1, <3>4, <4>1
      <4>3. pass.list[j].fails <= c.fails
        BY <3>1, <3>2, <3>4, <1>1
      <4> QED BY <3>4, <4>2, <4>3, <1>2
    <3> QED BY <3>3, <3>4
  <2>3. pass.on => \A k \in DOMAIN cards' : k > Len(pass.list) =>
                     cards'[k].slot = 0 /\ cards'[k].retry \notin pass.turns
    BY <1>0, <1>4, <1>5 DEF PassFits, Same
  <2> QED BY <1>0, <1>1, <2>1, <2>2, <2>3 DEF PassFits
<1>8. EnqueueFits'
  <2>1. enq > 0 => ~InWorkflow(cards[i])
    BY <1>0, <1>1 DEF EnqueueFits
  <2>2. InWorkflow(cards'[i]) <=> InWorkflow(cards[i])
    BY <1>1, <1>2 DEF InWorkflow, Same
  <2>3. enq > 0 => \A k \in DOMAIN cards' :
            InWorkflow(cards'[k]) => cards'[k].status \in {"todo", "done"}
    BY <2>1, <2>2, <1>0, <1>2, <1>4 DEF EnqueueFits
  <2>4. enq \in {1, 2} => \A k \in DOMAIN cards' :
            OnWorktree(cards'[k]) => cards'[k].status = "done"
    <3> SUFFICES ASSUME enq \in {1, 2}, NEW k \in DOMAIN cards', OnWorktree(cards'[k])
                 PROVE  cards'[k].status = "done"
      OBVIOUS
    <3>1. k # i
      BY <2>1, <2>2 DEF OnWorktree
    <3> QED BY <3>1, <1>0, <1>2, <1>4 DEF EnqueueFits
  <2> QED BY <2>3, <2>4, <1>1, EnqueueFitsNext
<1> QED BY <1>3, <1>6, <1>7, <1>8 DEF BoardInv

(* a push changes no card;                                                 *)
LEMMA PushKept == ASSUME BoardInv, Push PROVE BoardInv'
<1>0. /\ WorkflowTypeOK /\ Board(cards) /\ PassFits /\ EnqueueFits /\ head \in 0 .. MaxHead
      /\ enq \in 0 .. Len(Rows) + 1 /\ ws \in {"none", "live", "removed"} /\ merged \in BOOLEAN
  BY TypedIs
<1>1. /\ head \in 1 .. MaxHead - 1 /\ Hit /\ head' = head + 1
      /\ UNCHANGED <<enq, ws, pass, cards, merged>> /\ UNCHANGED setting
  BY DEF Push, OfWorkers
<1>2. head' \in 0 .. MaxHead
  BY <1>1, WorkflowBounds
<1>3. trouble' \in 0 .. MaxTrouble[plan.kind]
  BY <1>0, <1>1, HitIs
<1>4. Board(cards')
  BY <1>0, <1>1, SameBoard
<1>5. WorkflowTypeOK'
  <2>1. /\ pass'.on \in BOOLEAN /\ pass'.list \in Seq(CardRecords)
        /\ Len(pass'.list) <= Len(cards')
        /\ pass'.cancel \in SUBSET DOMAIN pass'.list
        /\ pass'.turns \in SUBSET DOMAIN pass'.list
    BY <1>0, <1>1 DEF WorkflowTypeOK
  <2>2. enq' \in 0 .. Len(Rows) + 1 /\ ws' \in {"none", "live", "removed"} /\ merged' \in BOOLEAN
    BY <1>0, <1>1
  <2> QED BY <1>0, <1>1, <1>2, <1>3, <1>4, <2>1, <2>2, TypeKept
<1>6. PassFits'
  BY <1>0, <1>1 DEF PassFits
<1>7. EnqueueFits'
  BY <1>0, <1>1, EnqueueFitsNext DEF EnqueueFits
<1> QED BY <1>4, <1>5, <1>6, <1>7 DEF BoardInv

(* an unblock excludes a pass;                                             *)
LEMMA UnblockKept == ASSUME BoardInv, NEW i \in DOMAIN cards, Unblock(i) PROVE BoardInv'
<1>0. /\ WorkflowTypeOK /\ Board(cards) /\ cards \in Seq(CardRecords) /\ Len(cards) <= MaxCards
      /\ head \in 0 .. MaxHead /\ merged \in BOOLEAN
      /\ trouble \in 0 .. MaxTrouble[plan.kind] /\ ws \in {"none", "live", "removed"}
      /\ ~pass.on => pass = NoPass
  BY TypedIs, ListIs
<1>1. PICK c : Resumed(i, c)
  BY <1>0, UnblockIs
<1>2. Rewrites(cards, cards')
  BY <1>0, <1>1, SetIs DEF Resumed
<1>3. Board(cards')
  BY <1>0, <1>2, RewritesGrow, BoardGrows
<1>4. /\ enq = 0 /\ ~pass.on /\ UNCHANGED <<enq, ws, pass, head, merged, trouble>>
      /\ UNCHANGED setting
  BY DEF Unblock, OfWorkers
<1> QED BY <1>0, <1>3, <1>4, IdleKept

(* dispatch ends it;                                                       *)
LEMMA DispatchKept ==
    ASSUME BoardInv, NEW allowed \in BOOLEAN, cards' = Dispatched(allowed), UNCHANGED setting,
           enq = 0, UNCHANGED <<enq, head>>, pass' = NoPass, ws' \in {"none", "live", "removed"},
           merged' \in BOOLEAN, trouble' \in 0 .. MaxTrouble[plan.kind]
    PROVE  BoardInv'
<1>0. /\ WorkflowTypeOK /\ Board(cards) /\ cards \in Seq(CardRecords) /\ Len(cards) <= MaxCards
      /\ head \in 0 .. MaxHead
  BY TypedIs, ListIs
<1>1. Moves(cards, cards')
  BY <1>0, DispatchIs
<1>2. Board(cards')
  BY <1>0, <1>1, RewritesGrow, BoardGrows DEF Moves
<1> QED BY <1>0, <1>2, IdleKept

(* a pass begins with the list of the board;                               *)
LEMMA BeginPassKept == ASSUME BoardInv, BeginPass PROVE BoardInv'
<1>0. /\ WorkflowTypeOK /\ Board(cards) /\ cards \in Seq(CardRecords)
      /\ head \in 0 .. MaxHead /\ merged \in BOOLEAN /\ enq \in 0 .. Len(Rows) + 1
      /\ trouble \in 0 .. MaxTrouble[plan.kind] /\ ws \in {"none", "live", "removed"}
  BY TypedIs, ListIs
<1>1. /\ enq = 0 /\ UNCHANGED <<enq, ws, head, merged, trouble>> /\ UNCHANGED setting
      /\ pass' = [on |-> TRUE, list |-> cards', turns |-> DOMAIN cards',
                  cancel |-> Superfluous(cards')]
  BY DEF BeginPass
<1>2. Extends(cards, cards')
  BY <1>0, BeginPassIs
<1>3. Board(cards')
  BY <1>0, <1>2, BoardGrows
<1>4. /\ cards' \in Seq(CardRecords) /\ cards' \in Lists /\ Family(cards')
      /\ DOMAIN cards' = 1 .. Len(cards') /\ Len(cards') \in Nat
  BY <1>3, BoardIsList, Domains DEF Board
<1>5. /\ Superfluous(cards') \subseteq DOMAIN cards'
      /\ \A i \in Superfluous(cards') : cards'[i].slot = 0 /\ ~Ended(cards'[i])
  BY <1>4, SuperfluousIs
<1>6. /\ pass'.on = TRUE /\ pass'.list = cards' /\ pass'.turns = DOMAIN cards'
      /\ pass'.cancel = Superfluous(cards')
  BY <1>1
<1>7. pass' \in PassRecords
  BY <1>1, <1>4, <1>5 DEF PassRecords
<1>8. WorkflowTypeOK'
  <2>1. /\ pass'.on \in BOOLEAN /\ pass'.list \in Seq(CardRecords)
        /\ Len(pass'.list) <= Len(cards')
        /\ pass'.cancel \in SUBSET DOMAIN pass'.list
        /\ pass'.turns \in SUBSET DOMAIN pass'.list
    <3> DEFINE N == cards'
               T == Superfluous(cards')
    <3>1. N \in Seq(CardRecords) /\ T \subseteq DOMAIN N /\ Len(N) \in Nat
      BY <1>4, <1>5
    <3>2. pass'.on = TRUE /\ pass'.list = N /\ pass'.turns = DOMAIN N /\ pass'.cancel = T
      BY <1>6
    <3> HIDE DEF N, T
    <3>3. Len(N) <= Len(N)
      BY <3>1
    <3> QED BY <3>1, <3>2, <3>3, Zenon DEF N
  <2> QED BY <1>0, <1>1, <1>3, <2>1, TypeKept
<1>9. PassFits'
  <2>1. \A i \in DOMAIN cards' : cards'[i].fails <= cards'[i].fails
    <3> DEFINE N == cards'
    <3> SUFFICES ASSUME NEW i \in DOMAIN N PROVE N[i].fails <= N[i].fails
      OBVIOUS
    <3>0. N \in Seq(CardRecords)
      BY <1>4
    <3> HIDE DEF N
    <3>1. N[i] \in CardRecords
      BY <3>0
    <3>2. N[i].fails \in Nat
      BY <3>1, CardFields
    <3> QED BY <3>2
  <2>2. \A k \in DOMAIN cards' : ~(k > Len(cards'))
    BY <1>4
  <2> QED BY <1>1, <1>4, <1>5, <1>6, <1>7, <2>1, <2>2, SameIs DEF PassFits
<1>10. EnqueueFits'
  BY <1>1 DEF EnqueueFits
<1> QED BY <1>3, <1>8, <1>9, <1>10 DEF BoardInv

(* it cancels what the list says, which no turn relies on to be untouched; *)
LEMMA CancelTurnKept == ASSUME BoardInv, NEW i \in DOMAIN cards, CancelTurn(i) PROVE BoardInv'
<1>0. /\ WorkflowTypeOK /\ Board(cards) /\ PassFits /\ cards \in Seq(CardRecords)
      /\ Len(cards) <= MaxCards
      /\ head \in 0 .. MaxHead /\ merged \in BOOLEAN /\ enq \in 0 .. Len(Rows) + 1 /\ enq \in Nat
      /\ trouble \in 0 .. MaxTrouble[plan.kind] /\ ws \in {"none", "live", "removed"}
      /\ DOMAIN pass.list \subseteq DOMAIN cards /\ pass.turns \subseteq DOMAIN pass.list
      /\ pass.cancel \subseteq DOMAIN pass.list /\ Len(pass.list) \in Nat
      /\ Len(pass.list) <= Len(cards) /\ pass.list \in Seq(CardRecords)
  BY TypedIs, ListIs
<1> DEFINE c == CancelledCard(cards[i])
<1>1. /\ pass.on /\ i \in pass.cancel /\ cards' = [cards EXCEPT ![i] = c]
      /\ pass' = [pass EXCEPT !.cancel = @ \ {i}]
      /\ UNCHANGED <<enq, ws, head, merged, trouble>> /\ UNCHANGED setting
  BY DEF CancelTurn, Set, OfPasses
<1>2. /\ c \in CardRecords /\ Same(cards[i], c) /\ c.fails = cards[i].fails
  BY <1>0, CancelledIs DEF Becomes
<1> HIDE DEF c
<1>3. /\ Rewrites(cards, cards') /\ cards'[i] = c
      /\ \A j \in DOMAIN cards : j # i => cards'[j] = cards[j]
  BY <1>0, <1>1, <1>2, SetIs
<1>4. Board(cards')
  BY <1>0, <1>3, RewritesGrow, BoardGrows
<1>5. DOMAIN cards' = DOMAIN cards /\ Len(cards') = Len(cards)
  BY <1>0, <1>3, Domains DEF Rewrites
<1>6. /\ pass' \in PassRecords /\ pass'.on = pass.on /\ pass'.list = pass.list
      /\ pass'.turns = pass.turns /\ pass'.cancel = pass.cancel \ {i}
  <2>1. pass \in PassRecords
    BY <1>0 DEF PassFits
  <2> QED BY <1>1, <2>1 DEF PassRecords
<1>7. WorkflowTypeOK'
  <2>1. /\ pass'.on \in BOOLEAN /\ pass'.list \in Seq(CardRecords)
        /\ Len(pass'.list) <= Len(cards')
        /\ pass'.cancel \in SUBSET DOMAIN pass'.list
        /\ pass'.turns \in SUBSET DOMAIN pass'.list
    BY <1>0, <1>5, <1>6 DEF WorkflowTypeOK
  <2> QED BY <1>0, <1>1, <1>4, <2>1, TypeKept
<1>8. PassFits'
  <2>1. pass.list[i].slot = 0 /\ ~Ended(pass.list[i])
    BY <1>0, <1>1 DEF PassFits
  <2>2. \A j \in DOMAIN pass.list :
           /\ Same(pass.list[j], cards'[j])
           /\ pass.list[j].slot > 0 /\ pass.list[j].status = "done" => cards'[j].status = "done"
    <3> TAKE j \in DOMAIN pass.list
    <3>1. /\ Same(pass.list[j], cards[j]) /\ j \in DOMAIN cards
          /\ pass.list[j].slot > 0 /\ pass.list[j].status = "done" => cards[j].status = "done"
      BY <1>0 DEF PassFits
    <3>2. Same(pass.list[j], cards'[j])
      BY <3>1, <1>3, SameIs DEF Rewrites
    <3>3. CASE j # i
      BY <3>1, <3>2, <3>3, <1>3
    <3>4. CASE j = i
      BY <3>2, <3>4, <2>1
    <3> QED BY <3>3, <3>4
  <2>3. \A j \in pass.turns :
           /\ pass.list[j].fails <= cards'[j].fails
           /\ pass.list[j].repair = 0 /\ Ended(pass.list[j]) => cards'[j] = pass.list[j]
    <3> TAKE j \in pass.turns
    <3>1. /\ pass.list[j].fails <= cards[j].fails /\ j \in DOMAIN cards
          /\ pass.list[j].repair = 0 /\ Ended(pass.list[j]) => cards[j] = pass.list[j]
      BY <1>0 DEF PassFits
    <3>2. cards'[j].fails = cards[j].fails
      BY <3>1, <1>2, <1>3
    <3> QED BY <3>1, <3>2, <2>1, <1>3
  <2>4. \A k \in DOMAIN cards' : k > Len(pass.list) =>
                     cards'[k].slot = 0 /\ cards'[k].retry \notin pass.turns
    BY <1>0, <1>1, <1>3, <1>5 DEF PassFits, Same, Rewrites
  <2> QED BY <1>0, <1>1, <1>6, <2>2, <2>3, <2>4 DEF PassFits
<1>9. EnqueueFits'
  <2>1. ~(enq > 0)
    BY <1>0, <1>1 DEF PassFits
  <2>2. enq' = 0
    BY <2>1, <1>0, <1>1
  <2> QED BY <2>2 DEF EnqueueFits
<1> QED BY <1>4, <1>7, <1>8, <1>9 DEF BoardInv

(* What a turn leaves alone.                                               *)
LEMMA TurnKeeps ==
    ASSUME BoardInv, NEW i \in pass.turns, NEW M, TurnOf(i, M), NEW j \in DOMAIN pass.list
    PROVE  /\ pass.list[j].slot > 0 /\ pass.list[j].status = "done"
                => M[j] = cards[j] \/ M[j].status = "done"
           /\ j # i => M[j].fails = cards[j].fails
           /\ j # i /\ pass.list[j].repair = 0 => M[j] = cards[j]
<1>0. /\ i \in DOMAIN pass.list /\ i \in Nat /\ i > 0 /\ j \in DOMAIN cards
      /\ pass.list[j] \in CardRecords
  BY ListIs
<1>1. pass.list[j].slot > 0 => pass.list[j].repair = 0
  BY ListIs DEF Lists, Family
<1>2. Turned(i, j, M)
  BY <1>0 DEF TurnOf
<1>3. ~(pass.list[j].repair = i /\ pass.list[j].repair = 0)
  BY <1>0
<1>4. CASE M[j] = cards[j]
  BY <1>4
<1>5. CASE Completed(i, j, M)
  BY <1>5 DEF Completed
<1>6. CASE Requeued(i, j, M)
  BY <1>1, <1>3, <1>6 DEF Requeued
<1>7. CASE Reassigned(i, j, M)
  BY <1>7 DEF Reassigned
<1>8. CASE Held(i, j, M)
  BY <1>1, <1>3, <1>8 DEF Held
<1> QED BY <1>2, <1>4, <1>5, <1>6, <1>7, <1>8 DEF Turned

(* it has its turns in order, and a turn leaves the later ones as they     *)
(* were, repairs apart;                                                    *)
LEMMA MainTurnKept == ASSUME BoardInv, MainTurn PROVE BoardInv'
<1>0. /\ WorkflowTypeOK /\ Board(cards) /\ PassFits /\ cards \in Seq(CardRecords)
      /\ Len(cards) <= MaxCards /\ Len(cards) \in Nat /\ DOMAIN cards = 1 .. Len(cards)
      /\ head \in 0 .. MaxHead /\ merged \in BOOLEAN /\ enq \in 0 .. Len(Rows) + 1 /\ enq \in Nat
      /\ trouble \in 0 .. MaxTrouble[plan.kind] /\ ws \in {"none", "live", "removed"}
      /\ DOMAIN pass.list \subseteq DOMAIN cards /\ pass.turns \subseteq DOMAIN pass.list
      /\ pass.cancel \subseteq DOMAIN pass.list /\ Len(pass.list) \in Nat
      /\ Len(pass.list) <= Len(cards) /\ pass.list \in Seq(CardRecords)
      /\ DOMAIN pass.list = 1 .. Len(pass.list)
  BY TypedIs, ListIs
<1> DEFINE i == First(Acting)
<1>1. /\ i \in pass.turns /\ pass.on /\ TurnOf(i, cards')
      /\ pass' = [pass EXCEPT !.turns = {j \in @ : j > i}]
      /\ UNCHANGED <<enq, ws, head, merged, trouble>> /\ UNCHANGED setting
  BY TurnIs DEF OfPasses
<1> HIDE DEF i
<1>2. Extends(cards, cards')
  BY <1>1 DEF TurnOf
<1>3. Board(cards')
  BY <1>0, <1>2, BoardGrows
<1>4. /\ Len(cards) <= Len(cards') /\ Len(cards') \in Nat /\ DOMAIN cards' = 1 .. Len(cards')
      /\ \A j \in DOMAIN cards : Same(cards[j], cards'[j])
  BY <1>2, Domains DEF Extends, Grew
<1>5. /\ pass' \in PassRecords /\ pass'.on = pass.on /\ pass'.list = pass.list
      /\ pass'.turns = {j \in pass.turns : j > i} /\ pass'.cancel = pass.cancel
  <2>1. pass \in PassRecords
    BY <1>0 DEF PassFits
  <2> QED BY <1>1, <2>1 DEF PassRecords
<1>6. WorkflowTypeOK'
  <2>0. Len(pass.list) <= Len(cards')
    BY <1>0, <1>4
  <2>1. /\ pass'.on \in BOOLEAN /\ pass'.list \in Seq(CardRecords)
        /\ Len(pass'.list) <= Len(cards')
        /\ pass'.cancel \in SUBSET DOMAIN pass'.list
        /\ pass'.turns \in SUBSET DOMAIN pass'.list
    BY <1>0, <1>5, <2>0 DEF WorkflowTypeOK
  <2> QED BY <1>0, <1>1, <1>3, <2>1, TypeKept
<1>7. PassFits'
  <2>1. \A j \in DOMAIN pass.list :
           /\ Same(pass.list[j], cards'[j])
           /\ pass.list[j].slot > 0 /\ pass.list[j].status = "done" => cards'[j].status = "done"
    <3> TAKE j \in DOMAIN pass.list
    <3>1. /\ Same(pass.list[j], cards[j]) /\ j \in DOMAIN cards
          /\ pass.list[j].slot > 0 /\ pass.list[j].status = "done" => cards[j].status = "done"
      BY <1>0 DEF PassFits
    <3>2. Same(pass.list[j], cards'[j])
      BY <3>1, <1>4, SameIs
    <3>3. pass.list[j].slot > 0 /\ pass.list[j].status = "done"
            => cards'[j] = cards[j] \/ cards'[j].status = "done"
      BY <1>1, TurnKeeps
    <3> QED BY <3>1, <3>2, <3>3
  <2>2. \A j \in pass'.turns :
           /\ pass.list[j].fails <= cards'[j].fails
           /\ pass.list[j].repair = 0 /\ Ended(pass.list[j]) => cards'[j] = pass.list[j]
    <3> SUFFICES ASSUME NEW j \in pass.turns, j > i
                 PROVE  /\ pass.list[j].fails <= cards'[j].fails
                        /\ pass.list[j].repair = 0 /\ Ended(pass.list[j])
                              => cards'[j] = pass.list[j]
      BY <1>5
    <3>1. /\ pass.list[j].fails <= cards[j].fails /\ j \in DOMAIN pass.list
          /\ pass.list[j].repair = 0 /\ Ended(pass.list[j]) => cards[j] = pass.list[j]
      BY <1>0 DEF PassFits
    <3>2. j # i
      <4>1. i \in Nat
        BY <1>0, <1>1
      <4> QED BY <4>1
    <3>3. /\ cards'[j].fails = cards[j].fails
          /\ pass.list[j].repair = 0 => cards'[j] = cards[j]
      BY <3>1, <3>2, <1>1, TurnKeeps
    <3> QED BY <3>1, <3>3
  <2>3. \A k \in DOMAIN cards' : k > Len(pass.list) =>
                     cards'[k].slot = 0 /\ cards'[k].retry \notin pass'.turns
    <3> SUFFICES ASSUME NEW k \in DOMAIN cards', k > Len(pass.list)
                 PROVE  cards'[k].slot = 0 /\ cards'[k].retry \notin pass'.turns
      OBVIOUS
    <3>1. CASE k \in DOMAIN cards
      <4>1. cards[k].slot = 0 /\ cards[k].retry \notin pass.turns
        BY <3>1, <1>0, <1>1 DEF PassFits
      <4> QED BY <3>1, <4>1, <1>4, <1>5 DEF Same
    <3>2. CASE k \notin DOMAIN cards
      <4>1. k > Len(cards)
        BY <3>2, <1>0, <1>4
      <4>2. cards'[k].slot = 0 /\ cards'[k].retry \in {0, i}
        BY <4>1, <1>1, <1>2 DEF Extends, Born, TurnOf, Offspring
      <4>3. 0 \notin pass'.turns
        BY <1>0, <1>5
      <4>4. i \notin pass'.turns
        <5>1. i \in Nat
          BY <1>0, <1>1
        <5> QED BY <5>1, <1>5
      <4> QED BY <4>2, <4>3, <4>4
    <3> QED BY <3>1, <3>2
  <2> QED BY <1>0, <1>1, <1>5, <2>1, <2>2, <2>3 DEF PassFits
<1>8. EnqueueFits'
  <2>1. ~(enq > 0)
    BY <1>0, <1>1 DEF PassFits
  <2>2. enq' = 0
    BY <2>1, <1>0, <1>1
  <2> QED BY <2>2 DEF EnqueueFits
<1> QED BY <1>3, <1>6, <1>7, <1>8 DEF BoardInv

(* it ends, is aborted, or never was;                                      *)
LEMMA PassEndKept ==
    ASSUME BoardInv, EndPass \/ EndPassDenied \/ EndPassSuppressed \/ AbortPass \/ DispatchAlone
    PROVE  BoardInv'
<1>0. /\ WorkflowTypeOK /\ Board(cards) /\ PassFits /\ enq \in Nat
      /\ head \in 0 .. MaxHead /\ merged \in BOOLEAN
      /\ trouble \in 0 .. MaxTrouble[plan.kind] /\ ws \in {"none", "live", "removed"}
      /\ ~pass.on => pass = NoPass
  BY TypedIs
<1>1. pass.on => enq = 0
  BY <1>0 DEF PassFits
<1>2. Cleanup => ws' \in {"none", "live", "removed"}
  BY <1>0 DEF Cleanup
<1>3. MergeNow \in BOOLEAN /\ FALSE \in BOOLEAN
  BY DEF MergeNow
<1>4. Hit => trouble' \in 0 .. MaxTrouble[plan.kind]
  BY <1>0, HitIs
<1>5. CASE EndPass
  <2>1. /\ pass.on /\ Cleanup /\ cards' = Dispatched(MergeNow) /\ pass' = NoPass
        /\ merged' = (merged \/ (backend = "workboard" /\ MergeNow))
        /\ UNCHANGED <<enq, head, trouble>> /\ UNCHANGED setting
    BY <1>5 DEF EndPass, MainLoopOver
  <2>2. merged' \in BOOLEAN
    BY <2>1
  <2> QED BY <1>0, <1>1, <1>2, <1>3, <2>1, <2>2, DispatchKept
<1>6. CASE EndPassDenied
  <2>1. /\ pass.on /\ Cleanup /\ cards' = Dispatched(FALSE) /\ pass' = NoPass /\ Hit
        /\ UNCHANGED <<enq, head, merged>> /\ UNCHANGED setting
    BY <1>6 DEF EndPassDenied, MainLoopOver
  <2> QED BY <1>0, <1>1, <1>2, <1>3, <1>4, <2>1, DispatchKept
<1>7. CASE EndPassSuppressed
  <2>1. /\ pass.on /\ Cleanup /\ pass' = NoPass /\ Hit
        /\ UNCHANGED <<cards, enq, head, merged>> /\ UNCHANGED setting
    BY <1>7 DEF EndPassSuppressed, MainLoopOver
  <2>2. Board(cards')
    BY <1>0, <2>1, SameBoard
  <2> QED BY <1>0, <1>1, <1>2, <1>4, <2>1, <2>2, IdleKept
<1>8. CASE AbortPass
  <2>1. /\ pass.on /\ pass' = NoPass /\ Hit
        /\ UNCHANGED <<cards, enq, ws, head, merged>> /\ UNCHANGED setting
    BY <1>8 DEF AbortPass
  <2>2. Board(cards')
    BY <1>0, <2>1, SameBoard
  <2> QED BY <1>0, <1>1, <1>4, <2>1, <2>2, IdleKept
<1>9. CASE DispatchAlone
  <2>1. /\ enq = 0 /\ ~pass.on /\ cards' = Dispatched(MergeNow)
        /\ merged' = (merged \/ (backend = "workboard" /\ MergeNow))
        /\ UNCHANGED <<enq, ws, head, pass, trouble>> /\ UNCHANGED setting
    BY <1>9 DEF DispatchAlone
  <2>2. merged' \in BOOLEAN
    BY <2>1
  <2> QED BY <1>0, <1>3, <2>1, <2>2, DispatchKept
<1> QED BY <1>5, <1>6, <1>7, <1>8, <1>9

(* and nothing happens.                                                    *)
LEMMA StutterKept == ASSUME BoardInv, UNCHANGED vars PROVE BoardInv'
<1>0. /\ WorkflowTypeOK /\ Board(cards) /\ PassFits /\ EnqueueFits
  BY TypedIs
<1>1. UNCHANGED <<cards, enq, ws, head, merged, pass, trouble>> /\ UNCHANGED setting
  BY DEF vars, setting
<1>2. WorkflowTypeOK'
  BY <1>0, <1>1, RowsKept DEF WorkflowTypeOK, setting
<1>3. PassFits'
  BY <1>0, <1>1 DEF PassFits
<1>4. EnqueueFits'
  BY <1>0, <1>1, EnqueueFitsNext DEF EnqueueFits
<1>5. Board(cards')
  BY <1>0, <1>1, SameBoard
<1> QED BY <1>2, <1>3, <1>4, <1>5 DEF BoardInv

(* Every step keeps the invariant.                                         *)
LEMMA BoardStep == BoardInv /\ [WorkflowNext]_vars => BoardInv'
<1> SUFFICES ASSUME BoardInv, [WorkflowNext]_vars PROVE BoardInv'
  OBVIOUS
<1>0. WorkflowTypeOK
  BY DEF BoardInv
<1>1. CASE EnqueueStep
  BY <1>1, EnqueueKept
<1>2. CASE BeginPass
  BY <1>2, BeginPassKept
<1>3. CASE MainTurn
  BY <1>3, MainTurnKept
<1>4. CASE EndPass \/ EndPassDenied \/ EndPassSuppressed \/ AbortPass \/ DispatchAlone
  BY <1>4, PassEndKept
<1>5. ASSUME NEW i \in DOMAIN cards, CancelTurn(i)
      PROVE  BoardInv'
  BY <1>5, CancelTurnKept
<1>6. CASE Push
  BY <1>6, PushKept
<1>7. ASSUME NEW i \in DOMAIN cards, WorkerOn(i) \/ TroubleOn(i)
      PROVE  BoardInv'
  <2>1. PICK c : Worked(i, c)
    BY <1>0, <1>7, WorkerIs
  <2> QED BY <2>1, WorkerKept
<1>8. ASSUME NEW i \in DOMAIN cards, Unblock(i)
      PROVE  BoardInv'
  BY <1>8, UnblockKept
<1>9. CASE UNCHANGED vars
  BY <1>9, StutterKept
<1> QED BY <1>1, <1>2, <1>3, <1>4, <1>5, <1>6, <1>7, <1>8, <1>9, Zenon
        DEF WorkflowNext, PassStep

(* The invariant of every reachable board.                                 *)
LEMMA BoardAlways == WorkflowSpec => []BoardInv
<1>1. BoardInv /\ [WorkflowNext]_vars => BoardInv'
  BY BoardStep
<1> QED BY <1>1, InitBoard, PTL DEF WorkflowSpec

(* The workflow, its board and the list of a pass have the shapes that the *)
(* code reads off their fields: for every plan, budget and bound.          *)
THEOREM WorkflowIsTyped == WorkflowSpec => []WorkflowTypeOK
<1>1. BoardInv => WorkflowTypeOK
  BY DEF BoardInv
<1> QED BY <1>1, BoardAlways, PTL

(* A stage has one card, whatever enqueue was interrupted and repeated,    *)
(* and whatever passes added: create_card is idempotent in the work key.   *)
THEOREM StagesHaveOneCard == WorkflowSpec => []OneCardPerStage
<1>1. BoardInv => OneCardPerStage
  <2> SUFFICES ASSUME BoardInv, NEW s \in 1 .. Len(Rows)
               PROVE  Cardinality(SlotCards(s)) <= 1
    BY DEF OneCardPerStage
  <2>1. \A i, j \in SlotCards(s) : i = j
    BY DEF SlotCards, BoardInv, Board, OneEach
  <2>2. CASE SlotCards(s) = {}
    BY <2>2, FS_EmptySet
  <2>3. CASE SlotCards(s) # {}
    <3>1. PICK i : i \in SlotCards(s)
      BY <2>3
    <3>2. SlotCards(s) = {i}
      BY <2>1, <3>1
    <3>3. Cardinality({i}) = 1
      BY FS_Singleton, Zenon
    <3>4. Cardinality(SlotCards(s)) = 1
      BY <3>2, <3>3, Zenon
    <3> QED BY <3>4
  <2> QED BY <2>2, <2>3
<1> QED BY <1>1, BoardAlways, PTL

----------------------------------------------------------------------------
(* The kinds of steps, as the board sees them.                             *)

Quiet ==
    /\ \A i \in DOMAIN cards : i \in DOMAIN cards' /\ cards'[i] = cards[i]
    /\ \A k \in DOMAIN cards' : k \notin DOMAIN cards =>
          k = Len(cards) + 1 /\ \E s \in Nat : Added(s, cards'[k])
    /\ pass' = pass \/ pass' = NoPass

Working == \E i \in DOMAIN cards : \E c : Worked(i, c)

Resuming == /\ enq = 0 /\ ~pass.on /\ pass' = pass
            /\ \E i \in DOMAIN cards : \E c : Resumed(i, c)

Closing ==
    /\ enq > 0 /\ pass' = NoPass /\ Rewrites(cards, cards')
    /\ \A i \in DOMAIN cards :
          \/ cards'[i] = cards[i]
          \/ cards[i].slot = 1 /\ cards'[i].status = "done" /\ cards'[i].fails = cards[i].fails

Opening ==
    /\ ~pass.on /\ pass'.list = cards' /\ Extends(cards, cards')
    /\ \A i \in DOMAIN cards :
          \/ cards'[i] = cards[i]
          \/ /\ cards[i].status = "orphaned" /\ cards'[i].status = "review"
             /\ cards'[i].fails = cards[i].fails
    /\ \A k \in DOMAIN cards' : k > Len(cards) => cards'[k].retry = 0

Dispatching == enq = 0 /\ pass' = NoPass /\ Moves(cards, cards')

Cancelling ==
    /\ pass.on /\ pass'.list = pass.list /\ Rewrites(cards, cards')
    /\ \A i \in DOMAIN cards :
          \/ cards'[i] = cards[i]
          \/ /\ i \in pass.cancel
             /\ cards'[i].status = "blocked" /\ cards'[i].why = cards[i].why

Turning ==
    /\ pass.on /\ pass'.list = pass.list
    /\ \E i \in pass.turns : TurnOf(i, cards')

Change ==
    \/ Quiet \/ Working \/ Resuming \/ Closing \/ Opening \/ Dispatching
    \/ Cancelling \/ Turning

(* Every step is one of these changes: those of enqueue,                   *)
LEMMA EnqueueChange == ASSUME BoardInv, EnqueueStep PROVE (Quiet \/ Closing) /\ UNCHANGED setting
<1>0. /\ WorkflowTypeOK /\ cards \in Seq(CardRecords) /\ enq \in Nat
      /\ enq > 0 => pass = NoPass
  BY TypedIs, ListIs
<1>1. CASE StartEnqueue
  <2>1. cards' = cards /\ pass' = pass /\ UNCHANGED setting
    BY <1>1 DEF StartEnqueue
  <2> QED BY <2>1 DEF Quiet
<1>2. CASE CreateStage
  <2>1. /\ cards' = Materialized(enq) /\ Len(cards) < MaxCards /\ pass' = pass
        /\ enq \in 1 .. Len(Rows) /\ UNCHANGED setting
    BY <1>2 DEF CreateStage
  <2>2. /\ Grew(cards, cards') /\ \A i \in DOMAIN cards : cards'[i] = cards[i]
        /\ \A k \in DOMAIN cards' : k \notin DOMAIN cards =>
              Added(enq, cards'[k]) /\ k = Len(cards) + 1
    BY <2>1, MaterializedBoard
  <2> QED BY <1>0, <2>1, <2>2 DEF Quiet, Grew
<1>3. CASE CloseRoot
  <2>1. enq = Len(Rows) + 1 /\ pass' = pass /\ UNCHANGED setting
    BY <1>3 DEF CloseRoot
  <2>2. enq > 0
    BY <2>1, TypedIs
  <2>3. /\ Rewrites(cards, cards')
        /\ \A i \in DOMAIN cards :
              /\ cards'[i].fails = cards[i].fails
              /\ cards[i].slot # 1 => cards'[i] = cards[i]
              /\ cards[i].slot = 1 => cards'[i].status = "done"
    BY <1>0, <1>3, CloseRootIs
  <2>4. \A i \in DOMAIN cards :
          \/ cards'[i] = cards[i]
          \/ cards[i].slot = 1 /\ cards'[i].status = "done" /\ cards'[i].fails = cards[i].fails
    BY <2>3, Zenon
  <2>5. pass' = NoPass
    BY <1>0, <2>1, <2>2
  <2> QED BY <2>1, <2>2, <2>3, <2>4, <2>5, Zenon DEF Closing
<1>4. CASE CrashInEnqueue
  <2>1. cards' = cards /\ pass' = pass /\ UNCHANGED setting
    BY <1>4 DEF CrashInEnqueue
  <2> QED BY <2>1 DEF Quiet
<1>5. ASSUME NEW effective \in BOOLEAN, FailEnqueue(effective)
      PROVE  Quiet /\ UNCHANGED setting
  <2>1. /\ enq > 0 /\ pass' = pass /\ UNCHANGED setting
        /\ effective => enq <= Len(Rows) /\ Len(cards) < MaxCards
        /\ cards' = IF effective THEN Materialized(enq) ELSE cards
    BY <1>5 DEF FailEnqueue
  <2>2. CASE effective
    <3>1. enq \in 1 .. Len(Rows) /\ Len(cards) < MaxCards /\ cards' = Materialized(enq)
      BY <2>1, <2>2, TypedIs
    <3>2. /\ Grew(cards, cards') /\ \A i \in DOMAIN cards : cards'[i] = cards[i]
          /\ \A k \in DOMAIN cards' : k \notin DOMAIN cards =>
                Added(enq, cards'[k]) /\ k = Len(cards) + 1
      BY <3>1, MaterializedBoard
    <3> QED BY <1>0, <2>1, <3>1, <3>2 DEF Quiet, Grew
  <2>3. CASE ~effective
    BY <2>1, <2>3 DEF Quiet
  <2> QED BY <2>2, <2>3
<1> QED BY <1>1, <1>2, <1>3, <1>4, <1>5 DEF EnqueueStep

(* of a pass,                                                              *)
LEMMA PassChange == ASSUME BoardInv, PassStep PROVE Change /\ UNCHANGED setting
<1>0. /\ WorkflowTypeOK /\ Board(cards) /\ PassFits /\ cards \in Seq(CardRecords)
      /\ ~pass.on => pass = NoPass
      /\ MergeNow \in BOOLEAN /\ FALSE \in BOOLEAN /\ pass \in PassRecords
      /\ pass.on => enq = 0
  <2>1. PassFits /\ enq \in Nat
    BY TypedIs
  <2>2. pass \in PassRecords /\ (pass.on => enq = 0)
    BY <2>1 DEF PassFits
  <2> QED BY <2>2, TypedIs, ListIs DEF MergeNow
<1>1. CASE BeginPass
  <2>1. /\ ~pass.on /\ UNCHANGED setting
        /\ pass' = [on |-> TRUE, list |-> cards', turns |-> DOMAIN cards',
                    cancel |-> Superfluous(cards')]
    BY <1>1 DEF BeginPass
  <2>2. pass'.list = cards'
    BY <2>1
  <2>3. Opening
    BY <1>0, <1>1, <2>1, <2>2, BeginPassIs DEF Opening
  <2> QED BY <2>1, <2>3 DEF Change
<1>2. CASE MainTurn
  <2>1. /\ First(Acting) \in pass.turns /\ pass.on /\ TurnOf(First(Acting), cards')
        /\ pass' = [pass EXCEPT !.turns = {j \in @ : j > First(Acting)}] /\ UNCHANGED setting
    BY <1>2, TurnIs DEF OfPasses
  <2>2. pass'.list = pass.list
    BY <1>0, <2>1 DEF PassRecords
  <2>3. Turning
    BY <2>1, <2>2 DEF Turning
  <2> QED BY <2>1, <2>3 DEF Change
<1>3. CASE EndPass \/ EndPassDenied \/ DispatchAlone
  <2>1. /\ enq = 0 /\ pass' = NoPass /\ UNCHANGED setting
        /\ \E allowed \in BOOLEAN : cards' = Dispatched(allowed)
    BY <1>0, <1>3 DEF EndPass, EndPassDenied, DispatchAlone, MainLoopOver
  <2>2. Dispatching
    BY <1>0, <2>1, DispatchIs DEF Dispatching
  <2> QED BY <2>1, <2>2 DEF Change
<1>4. CASE EndPassSuppressed \/ AbortPass
  <2>1. cards' = cards /\ pass' = NoPass /\ UNCHANGED setting
    BY <1>4 DEF EndPassSuppressed, AbortPass
  <2> QED BY <2>1 DEF Quiet, Change
<1>5. ASSUME NEW i \in DOMAIN cards, CancelTurn(i)
      PROVE  Change /\ UNCHANGED setting
  <2> DEFINE c == CancelledCard(cards[i])
  <2>1. /\ pass.on /\ i \in pass.cancel /\ cards' = [cards EXCEPT ![i] = c]
        /\ pass' = [pass EXCEPT !.cancel = @ \ {i}] /\ UNCHANGED setting
    BY <1>5 DEF CancelTurn, Set, OfPasses
  <2>2. c \in CardRecords /\ Same(cards[i], c) /\ c.status = "blocked" /\ c.why = cards[i].why
    BY <1>0, CancelledIs DEF Becomes
  <2> HIDE DEF c
  <2>3. /\ Rewrites(cards, cards') /\ cards'[i] = c
        /\ \A j \in DOMAIN cards : j # i => cards'[j] = cards[j]
    BY <1>0, <2>1, <2>2, SetIs
  <2>4. pass'.list = pass.list
    BY <1>0, <2>1 DEF PassRecords
  <2>5. Cancelling
    BY <2>1, <2>2, <2>3, <2>4 DEF Cancelling
  <2> QED BY <2>1, <2>5 DEF Change
<1> QED BY <1>1, <1>2, <1>3, <1>4, <1>5 DEF PassStep

(* and all others.                                                         *)
LEMMA ChangeIs == ASSUME BoardInv, [WorkflowNext]_vars PROVE Change /\ UNCHANGED setting
<1>0. WorkflowTypeOK /\ Board(cards) /\ (~pass.on => pass = NoPass)
  BY TypedIs
<1>1. CASE EnqueueStep
  BY <1>1, EnqueueChange DEF Change
<1>2. CASE PassStep
  BY <1>2, PassChange
<1>3. CASE Push
  <2>1. cards' = cards /\ pass' = pass /\ UNCHANGED setting
    BY <1>3 DEF Push, OfWorkers
  <2> QED BY <2>1 DEF Quiet, Change
<1>4. ASSUME NEW i \in DOMAIN cards, WorkerOn(i) \/ TroubleOn(i)
      PROVE  Change /\ UNCHANGED setting
  <2>1. PICK c : Worked(i, c)
    BY <1>0, <1>4, WorkerIs
  <2>2. UNCHANGED setting
    BY <2>1 DEF Worked
  <2>3. Working
    BY <2>1 DEF Working
  <2> QED BY <2>2, <2>3 DEF Change
<1>5. ASSUME NEW i \in DOMAIN cards, Unblock(i)
      PROVE  Change /\ UNCHANGED setting
  <2>1. PICK c : Resumed(i, c)
    BY <1>0, <1>5, UnblockIs
  <2>2. enq = 0 /\ ~pass.on /\ pass' = pass /\ UNCHANGED setting
    BY <1>5 DEF Unblock, OfWorkers
  <2>3. Resuming
    BY <2>1, <2>2 DEF Resuming
  <2> QED BY <2>2, <2>3 DEF Change
<1>6. CASE UNCHANGED vars
  <2>1. cards' = cards /\ pass' = pass /\ UNCHANGED setting
    BY <1>6 DEF vars, setting
  <2> QED BY <2>1 DEF Quiet, Change
<1> QED BY <1>1, <1>2, <1>3, <1>4, <1>5, <1>6, Zenon DEF WorkflowNext

----------------------------------------------------------------------------
(* Evidence, owners and worktrees.                                         *)

(* Fewer failures are within the budget if more are.                       *)
LEMMA BudgetShrinks ==
    ASSUME NEW c \in CardRecords, NEW d \in CardRecords, c.fails <= d.fails, WithinBudget(d)
    PROVE  WithinBudget(c)
<1>1. c.fails \in Nat /\ d.fails \in Nat /\ MaxRetries \in Nat
  BY CardFields, RetriesAreBounded
<1> DEFINE m == c.fails
           n == d.fails
<1>2. /\ WithinBudget(c) <=> (IF backend = "direct" \/ m = 0 THEN 1 ELSE m) <= MaxRetries
      /\ WithinBudget(d) <=> (IF backend = "direct" \/ n = 0 THEN 1 ELSE n) <= MaxRetries
  BY Zenon DEF WithinBudget, FailuresSeen
<1> HIDE DEF m, n
<1>3. m \in Nat /\ n \in Nat /\ m <= n
  BY <1>1 DEF m, n
<1> QED BY <1>1, <1>2, <1>3

(* What a pass finds at the turn of a card that is no repair.              *)
LEMMA TurnMeets ==
    ASSUME BoardInv, NEW t \in pass.turns, cards[t].repair = 0
    PROVE  /\ Ended(pass.list[t]) => cards[t] = pass.list[t]
           /\ WithinBudget(cards[t]) => WithinBudget(pass.list[t])
           /\ pass.list[t].stage = cards[t].stage
<1>0. /\ PassFits /\ t \in DOMAIN pass.list /\ t \in DOMAIN cards
      /\ pass.list[t] \in CardRecords /\ cards[t] \in CardRecords
  BY TypedIs, ListIs
<1>1. /\ Same(pass.list[t], cards[t]) /\ pass.list[t].fails <= cards[t].fails
      /\ pass.list[t].repair = 0 /\ Ended(pass.list[t]) => cards[t] = pass.list[t]
  BY <1>0 DEF PassFits
<1>2. pass.list[t].repair = 0 /\ pass.list[t].stage = cards[t].stage
  BY <1>1 DEF Same
<1> QED BY <1>0, <1>1, <1>2, BudgetShrinks

(* A worker changes its own card only.                                     *)
LEMMA WorkedOthers ==
    ASSUME cards \in Seq(CardRecords), NEW j \in DOMAIN cards, NEW c,
           Worked(j, c) \/ Resumed(j, c)
    PROVE  \A i \in DOMAIN cards : cards'[i] = IF i = j THEN c ELSE cards[i]
<1>1. cards' = [cards EXCEPT ![j] = c]
  BY DEF Worked, Resumed
<1> QED BY <1>1

(* No step takes the proof from a stage that is DONE.                      *)
LEMMA EvidenceStep ==
    ASSUME BoardInv, [WorkflowNext]_vars, NEW i \in DOMAIN cards,
           cards[i].slot > 1, WithinBudget(cards[i]),
           cards[i].status = "done", HasProof(cards[i])
    PROVE  cards'[i].status = "done" /\ HasProof(cards'[i])
<1>0. Change /\ cards \in Seq(CardRecords) /\ PassFits /\ cards[i] \in CardRecords
  BY ChangeIs, TypedIs, ListIs
<1>1. /\ cards[i].slot \in Nat /\ cards[i].slot # 0 /\ cards[i].slot # 1
      /\ cards[i].repair = 0
  <2>1. cards[i].slot \in Nat
    BY <1>0, CardFields
  <2> QED BY <2>1, ListIs DEF Lists, Family
<1>2. CASE cards'[i] = cards[i]
  BY <1>2
<1>3. ASSUME NEW j \in DOMAIN cards, NEW c, Worked(j, c) \/ Resumed(j, c)
      PROVE  cards'[i] = cards[i]
  <2>1. cards[j].status # "done"
    BY <1>3 DEF Worked, Resumed
  <2> QED BY <2>1, <1>0, <1>3, WorkedOthers
<1>4. CASE Closing \/ Opening \/ Dispatching
  BY <1>1, <1>2, <1>4 DEF Closing, Opening, Dispatching, Moves, Moved
<1>5. CASE Cancelling
  <2>1. i \notin pass.cancel
    <3> SUFFICES ASSUME i \in pass.cancel PROVE FALSE
      OBVIOUS
    <3>1. pass.list[i].slot = 0 /\ Same(pass.list[i], cards[i])
      BY <1>0, ListIs DEF PassFits
    <3> QED BY <3>1, <1>1 DEF Same
  <2> QED BY <1>2, <1>5, <2>1 DEF Cancelling
<1>6. CASE Turning
  <2>1. PICK t \in pass.turns : TurnOf(t, cards')
    BY <1>6 DEF Turning
  <2>2. /\ Turned(t, i, cards') /\ t \in DOMAIN pass.list /\ t \in Nat /\ t # 0
        /\ Same(cards[i], cards'[i])
    BY <2>1, ListIs DEF TurnOf, Extends, Grew
  <2>3. i \in DOMAIN pass.list => pass.list[i].repair = 0
    BY <1>0, <1>1 DEF PassFits, Same
  <2>4. ~Held(t, i, cards')
    BY <2>2, <2>3 DEF Held
  <2>5. ~Requeued(t, i, cards')
    <3> SUFFICES ASSUME Requeued(t, i, cards') PROVE FALSE
      OBVIOUS
    <3>1. i = t /\ pass.list[t].status = "blocked"
      BY <2>2, <2>3 DEF Requeued
    <3>2. Ended(pass.list[t])
      BY <3>1 DEF Ended
    <3> QED BY <3>1, <3>2, <1>1, TurnMeets
  <2>6. ~Reassigned(t, i, cards')
    <3> SUFFICES ASSUME Reassigned(t, i, cards') PROVE FALSE
      OBVIOUS
    <3>1. i = t /\ ~WithinBudget(pass.list[t])
      BY DEF Reassigned
    <3> QED BY <3>1, <1>1, TurnMeets
  <2>7. CASE Completed(t, i, cards')
    <3>1. i = t /\ cards'[i].status = "done" /\ Counts(pass.list[i].stage, cards'[i].proof)
      BY <2>7 DEF Completed
    <3>2. pass.list[i].stage = cards'[i].stage
      BY <3>1, <2>2, <1>1, TurnMeets DEF Same
    <3> QED BY <3>1, <3>2, Zenon DEF Counts, HasProof
  <2> QED BY <1>2, <2>2, <2>4, <2>5, <2>6, <2>7 DEF Turned
<1> QED BY <1>0, <1>2, <1>3, <1>4, <1>5, <1>6 DEF Change, Quiet, Working, Resuming

(* The evidence of a stage is not lost: however old the list of a pass is  *)
(* and whatever proof it moves onto the card (_promote_successful_retry),  *)
(* a stage's DONE card with a proof that counts keeps one.                 *)
THEOREM EvidenceIsKept == WorkflowSpec => EvidenceKept
<1>1. BoardInv /\ [WorkflowNext]_vars =>
        [\A i \in DOMAIN cards :
            /\ cards[i].slot > 1 /\ WithinBudget(cards[i])
            /\ cards[i].status = "done" /\ HasProof(cards[i])
            => cards'[i].status = "done" /\ HasProof(cards'[i])]_vars
  BY EvidenceStep
<1> QED BY <1>1, BoardAlways, PTL DEF WorkflowSpec, EvidenceKept

(* No step but the owner's resumes a card that waits for him.              *)
LEMMA OwnerStep ==
    ASSUME BoardInv, [WorkflowNext]_vars, NEW i \in DOMAIN cards,
           cards[i].status = "blocked", cards[i].why = "owner",
           cards[i].repair = 0, WithinBudget(cards[i])
    PROVE  \/ cards'[i].status = "blocked" /\ cards'[i].why = "owner"
           \/ cards'[i].status = "todo"
<1>0. /\ Change /\ cards \in Seq(CardRecords) /\ PassFits /\ EnqueueFits
      /\ cards[i] \in CardRecords
  BY ChangeIs, TypedIs, ListIs
<1>2. CASE cards'[i] = cards[i]
  BY <1>2
<1>3. ASSUME NEW j \in DOMAIN cards, NEW c, Worked(j, c)
      PROVE  cards'[i] = cards[i]
  <2>1. cards[j].status # "blocked"
    BY <1>3 DEF Worked
  <2> QED BY <2>1, <1>0, <1>3, WorkedOthers
<1>4. ASSUME NEW j \in DOMAIN cards, NEW c, Resumed(j, c)
      PROVE  cards'[i] = cards[i] \/ cards'[i].status = "todo"
  <2>1. c.status = "todo"
    BY <1>4 DEF Resumed
  <2> QED BY <2>1, <1>0, <1>4, WorkedOthers
<1>5. CASE Closing
  <2>1. cards[i].slot # 1
    <3> SUFFICES ASSUME cards[i].slot = 1 PROVE FALSE
      OBVIOUS
    <3>1. InWorkflow(cards[i])
      BY ListIs DEF Lists, Family, InWorkflow
    <3> QED BY <3>1, <1>0, <1>5 DEF Closing, EnqueueFits
  <2> QED BY <1>2, <1>5, <2>1 DEF Closing
<1>6. CASE Opening \/ Dispatching
  BY <1>2, <1>6 DEF Opening, Dispatching, Moves, Moved
<1>7. CASE Cancelling
  BY <1>2, <1>7 DEF Cancelling
<1>8. CASE Turning
  <2>1. PICK t \in pass.turns : TurnOf(t, cards')
    BY <1>8 DEF Turning
  <2>2. Turned(t, i, cards') /\ t \in DOMAIN pass.list /\ t \in Nat /\ t # 0
    BY <2>1, ListIs DEF TurnOf
  <2>3. i \in DOMAIN pass.list => pass.list[i].repair = 0
    BY <1>0 DEF PassFits, Same
  <2>4. Held(t, i, cards') => cards'[i].status = "blocked" /\ cards'[i].why = "owner"
    BY DEF Held
  <2>5. ~Requeued(t, i, cards')
    <3> SUFFICES ASSUME Requeued(t, i, cards') PROVE FALSE
      OBVIOUS
    <3>1. i = t /\ pass.list[t].status = "blocked" /\ ~OwnerSide(pass.list[t])
      BY <2>2, <2>3 DEF Requeued
    <3>2. Ended(pass.list[t])
      BY <3>1 DEF Ended
    <3>3. cards[i] = pass.list[t]
      BY <3>1, <3>2, TurnMeets
    <3> QED BY <3>1, <3>3 DEF OwnerSide
  <2>6. ~Reassigned(t, i, cards')
    <3> SUFFICES ASSUME Reassigned(t, i, cards') PROVE FALSE
      OBVIOUS
    <3>1. i = t /\ ~WithinBudget(pass.list[t])
      BY DEF Reassigned
    <3> QED BY <3>1, TurnMeets
  <2>7. ~Completed(t, i, cards')
    <3> SUFFICES ASSUME Completed(t, i, cards') PROVE FALSE
      OBVIOUS
    <3>1. /\ i = t /\ Ended(pass.list[t])
          /\ pass.list[t].status = "blocked" => ~OwnerSide(pass.list[t])
      BY DEF Completed
    <3>2. cards[i] = pass.list[t]
      BY <3>1, TurnMeets
    <3> QED BY <3>1, <3>2 DEF OwnerSide
  <2> QED BY <1>2, <2>2, <2>4, <2>5, <2>6, <2>7 DEF Turned
<1> QED BY <1>0, <1>2, <1>3, <1>4, <1>5, <1>6, <1>7, <1>8 DEF Change, Quiet, Working, Resuming

(* A card blocked on its owner is resumed by nobody else: the core reads   *)
(* the block reason off a list that may be old (_is_owner_block).          *)
THEOREM OwnersDecide == WorkflowSpec => OwnerDecides
<1>1. BoardInv /\ [WorkflowNext]_vars =>
        [\A i \in DOMAIN cards :
            /\ cards[i].status = "blocked" /\ cards[i].why = "owner"
            /\ cards[i].repair = 0 /\ WithinBudget(cards[i])
            => \/ cards'[i].status = "blocked" /\ cards'[i].why = "owner"
               \/ cards'[i].status = "todo"]_vars
  BY OwnerStep
<1> QED BY <1>1, BoardAlways, PTL DEF WorkflowSpec, OwnerDecides

(* No step removes the worktree of pending work.                           *)
LEMMA WorktreeStep ==
    ASSUME BoardInv, [WorkflowNext]_vars, ws = "live", ws' = "removed", backend = "direct",
           NEW i \in DOMAIN cards', OnWorktree(cards'[i])
    PROVE  cards'[i].status = "done"
<1>0. /\ WorkflowTypeOK /\ Board(cards) /\ EnqueueFits /\ cards \in Seq(CardRecords)
      /\ enq \in Nat /\ MergeNow \in BOOLEAN
  BY TypedIs, ListIs DEF MergeNow
<1>1. InWorkflow(cards'[i])
  BY DEF OnWorktree
<1>2. ASSUME NEW effective \in BOOLEAN, FailEnqueue(effective)
      PROVE  cards'[i].status = "done"
  <2>1. cards' = cards /\ (enq <= 2 \/ ~HasActiveWorkflow(cards')) /\ enq > 0
    BY <1>2 DEF FailEnqueue, Unowned
  <2>2. CASE enq <= 2
    <3>1. enq \in {1, 2}
      BY <2>1, <2>2, <1>0
    <3> QED BY <2>1, <3>1, <1>0 DEF EnqueueFits
  <2>3. CASE ~HasActiveWorkflow(cards')
    BY <2>3, <1>1 DEF HasActiveWorkflow
  <2> QED BY <2>1, <2>2, <2>3
<1>3. CASE EndPass \/ EndPassSuppressed
  <2>1. /\ Cleanable
        /\ cards' = cards \/ cards' = Dispatched(MergeNow)
    BY <1>3 DEF EndPass, EndPassSuppressed, Cleanup
  <2>2. \A j \in DOMAIN cards : InWorkflow(cards[j]) => cards[j].status = "done"
    BY <2>1 DEF Cleanable
  <2>3. CASE cards' = cards
    BY <1>1, <2>2, <2>3
  <2>4. CASE cards' = Dispatched(MergeNow)
    <3>1. Moves(cards, cards')
      BY <1>0, <2>4, DispatchIs
    <3>2. /\ DOMAIN cards' = DOMAIN cards
          /\ Same(cards[i], cards'[i]) /\ (cards'[i] = cards[i] \/ Moved(cards, cards', i))
      BY <1>0, <3>1, Domains DEF Moves, Rewrites
    <3>3. InWorkflow(cards[i])
      BY <1>1, <3>2 DEF Same, InWorkflow
    <3> QED BY <2>2, <3>2, <3>3 DEF Moved
  <2> QED BY <2>1, <2>3, <2>4
<1>4. ~EndPassDenied
  BY DEF EndPassDenied
<1>5. ~(StartEnqueue \/ CreateStage \/ CloseRoot \/ CrashInEnqueue)
  BY DEF StartEnqueue, CreateStage, CloseRoot, CrashInEnqueue
<1>6. ~(BeginPass \/ MainTurn \/ AbortPass \/ DispatchAlone \/ Push)
  BY DEF BeginPass, MainTurn, AbortPass, DispatchAlone, Push, OfPasses, OfWorkers
<1>7. \A j \in DOMAIN cards : ~CancelTurn(j) /\ ~Unblock(j)
  BY DEF CancelTurn, Unblock, OfPasses, OfWorkers
<1>8. \A j \in DOMAIN cards : ~(WorkerOn(j) \/ TroubleOn(j))
  <2>1. ASSUME NEW j \in DOMAIN cards, WorkerOn(j) \/ TroubleOn(j) PROVE FALSE
    <3>1. PICK c : Worked(j, c)
      BY <1>0, <2>1, WorkerIs
    <3> QED BY <3>1 DEF Worked
  <2> QED BY <2>1
<1>9. ~UNCHANGED vars
  BY DEF vars
<1> QED BY <1>2, <1>3, <1>4, <1>5, <1>6, <1>7, <1>8, <1>9
        DEF WorkflowNext, EnqueueStep, PassStep

(* The direct adapter's worktree outlives the work that happens in it:     *)
(* neither _cleanup_completed_workflows nor the cleanup of a failed        *)
(* enqueue removes it under a card that is still pending.                  *)
THEOREM WorktreesOutlive == WorkflowSpec => WorktreeOutlivesWork
<1>1. BoardInv /\ [WorkflowNext]_vars =>
        [ws = "live" /\ ws' = "removed" /\ backend = "direct" =>
            \A i \in DOMAIN cards' : OnWorktree(cards'[i]) => cards'[i].status = "done"]_vars
  BY WorktreeStep
<1> QED BY <1>1, BoardAlways, PTL DEF WorkflowSpec, WorktreeOutlivesWork

(* A stage's own card, in any step.                                        *)
LEMMA StageCardStep ==
    ASSUME OrderInv, MaxRetries >= 1, Change, NEW i \in DOMAIN cards, cards[i].slot > 0
    PROVE  /\ cards[i].status = "done" =>
                \/ cards'[i].status = "done"
                \/ /\ pass.on /\ backend = "workboard"
                   /\ i \in DOMAIN pass.list /\ pass.list[i].status # "done"
           /\ Awake(cards'[i]) =>
                \/ Awake(cards[i])
                \/ pass' = NoPass /\ \A d \in cards[i].deps : cards'[d].status = "done"
           /\ backend = "workboard" /\ cards'[i].status = "blocked" => cards'[i].fails > 0
           /\ backend = "workboard" /\ Awake(cards[i]) => Awake(cards'[i])
<1> DEFINE Goal ==
           /\ cards[i].status = "done" =>
                \/ cards'[i].status = "done"
                \/ /\ pass.on /\ backend = "workboard"
                   /\ i \in DOMAIN pass.list /\ pass.list[i].status # "done"
           /\ Awake(cards'[i]) =>
                \/ Awake(cards[i])
                \/ pass' = NoPass /\ \A d \in cards[i].deps : cards'[d].status = "done"
           /\ backend = "workboard" /\ cards'[i].status = "blocked" => cards'[i].fails > 0
           /\ backend = "workboard" /\ Awake(cards[i]) => Awake(cards'[i])
<1>0. /\ BoardInv /\ cards \in Seq(CardRecords) /\ PassFits /\ cards[i] \in CardRecords
      /\ cards[i].slot \in Nat /\ cards[i].slot # 0 /\ cards[i].fails \in Nat
      /\ cards[i].repair = 0
  <2>1. BoardInv
    BY DEF OrderInv
  <2>2. cards \in Seq(CardRecords) /\ PassFits /\ cards[i] \in CardRecords
    BY <2>1, TypedIs, ListIs
  <2>3. cards[i].slot \in Nat /\ cards[i].fails \in Nat
    BY <2>2, CardFields
  <2>4. cards[i].repair = 0
    BY <2>1, ListIs DEF Lists, Family
  <2> QED BY <2>1, <2>2, <2>3, <2>4
<1>1. backend = "workboard" /\ cards[i].status = "blocked" => cards[i].fails > 0
  BY DEF OrderInv, OrderFits
<1>2. CASE cards'[i] = cards[i]
  BY <1>1, <1>2
<1>3. ASSUME NEW j \in DOMAIN cards, NEW c, Worked(j, c)
      PROVE  Goal
  <2>1. cards'[i] = IF i = j THEN c ELSE cards[i]
    BY <1>0, <1>3, WorkedOthers
  <2>2. CASE i = j
    <3>1. /\ cards'[i] = c /\ cards[i].status \in {"ready", "running"} /\ c.status # "todo"
          /\ backend = "workboard" /\ c.status = "blocked" => c.fails > 0
      BY <1>3, <2>1, <2>2 DEF Worked
    <3> QED BY <3>1 DEF Awake
  <2> QED BY <1>2, <2>1, <2>2
<1>4. ASSUME NEW j \in DOMAIN cards, NEW c, Resumed(j, c)
      PROVE  Goal
  <2>1. cards'[i] = IF i = j THEN c ELSE cards[i]
    BY <1>0, <1>4, WorkedOthers
  <2>2. CASE i = j
    <3>1. /\ cards'[i] = c /\ cards[i].status = "blocked" /\ c.status = "todo"
          /\ c.fails = cards[i].fails
      BY <1>4, <2>1, <2>2 DEF Resumed
    <3> QED BY <1>1, <3>1 DEF Awake
  <2> QED BY <1>2, <2>1, <2>2
<1>5. CASE Closing
  <2>1. CASE cards[i].slot = 1 /\ cards'[i].status = "done"
    <3>1. cards[i].deps = {} /\ pass' = NoPass
      BY <2>1, <1>0, <1>5, ListIs DEF Lists, Family, Closing
    <3> QED BY <2>1, <3>1 DEF Awake
  <2> QED BY <1>2, <1>5, <2>1 DEF Closing
<1>6. CASE Opening
  <2>1. CASE cards[i].status = "orphaned" /\ cards'[i].status = "review"
    BY <2>1 DEF Awake
  <2> QED BY <1>2, <1>6, <2>1 DEF Opening
<1>7. CASE Dispatching
  <2>1. CASE Moved(cards, cards', i)
    BY <1>7, <2>1 DEF Awake, Moved, Dispatching
  <2> QED BY <1>2, <1>7, <2>1 DEF Dispatching, Moves
<1>8. CASE Cancelling
  <2>1. i \notin pass.cancel
    <3> SUFFICES ASSUME i \in pass.cancel PROVE FALSE
      OBVIOUS
    <3>1. pass.list[i].slot = 0 /\ Same(pass.list[i], cards[i])
      BY <1>0, ListIs DEF PassFits
    <3> QED BY <3>1, <1>0 DEF Same
  <2> QED BY <1>2, <1>8, <2>1 DEF Cancelling
<1>9. CASE Turning
  <2>1. PICK t \in pass.turns : TurnOf(t, cards')
    BY <1>9 DEF Turning
  <2>2. /\ Turned(t, i, cards') /\ t \in DOMAIN pass.list /\ t \in Nat /\ t # 0 /\ pass.on
        /\ t \in DOMAIN cards
    BY <2>1, <1>0, <1>9, ListIs DEF TurnOf, Turning
  <2>3. i \in DOMAIN pass.list => pass.list[i].repair = 0
    BY <1>0 DEF PassFits, Same
  <2>4. ~Held(t, i, cards')
    BY <2>2, <2>3 DEF Held
  <2>5. CASE Requeued(t, i, cards')
    <3>1. i = t /\ pass.list[t].status = "blocked" /\ cards'[i].status = "ready"
      BY <2>2, <2>3, <2>5 DEF Requeued
    <3>2. Ended(pass.list[t])
      BY <3>1 DEF Ended
    <3>3. cards[i] = pass.list[t]
      BY <1>0, <3>1, <3>2, TurnMeets
    <3> QED BY <3>1, <3>3 DEF Awake
  <2>6. CASE Completed(t, i, cards')
    <3>1. i = t /\ Ended(pass.list[t]) /\ cards'[i].status = "done"
      BY <2>6 DEF Completed
    <3>2. cards[i] = pass.list[t]
      BY <1>0, <3>1, TurnMeets
    <3>3. cards[i].status # "todo"
      BY <3>1, <3>2 DEF Ended
    <3> QED BY <3>1, <3>3 DEF Awake
  <2>7. CASE Reassigned(t, i, cards')
    <3>1. /\ i = t /\ ~WithinBudget(pass.list[t]) /\ cards'[i].status = "ready"
          /\ pass.list[t].status \in {"ready", "todo"}
      BY <2>7 DEF Reassigned
    <3>2. ~WithinBudget(cards[i])
      BY <1>0, <3>1, TurnMeets
    <3>3. backend # "direct" /\ cards[i].fails # 0
      BY <3>2, RetriesAreBounded DEF WithinBudget, FailuresSeen
    <3>4. backend = "workboard" /\ cards[i].fails > 0
      BY <3>3, <1>0, TypedIs
    <3>5. Awake(cards[i]) /\ Awake(cards'[i])
      BY <3>1, <3>4 DEF Awake
    <3>6. pass.on /\ i \in DOMAIN pass.list /\ pass.list[i].status # "done"
      BY <2>2, <3>1
    <3> QED BY <3>1, <3>4, <3>5, <3>6
  <2> QED BY <1>2, <2>2, <2>4, <2>5, <2>6, <2>7 DEF Turned
<1> QED BY <1>2, <1>3, <1>4, <1>5, <1>6, <1>7, <1>8, <1>9
        DEF Change, Quiet, Working, Resuming

(* Old cards keep what identifies them, and new cards are a stage's TODO   *)
(* card, a card of a pass, or the retry of a card that had its turn.       *)
LEMMA ChangeGrows ==
    ASSUME BoardInv, Change
    PROVE  /\ \A i \in DOMAIN cards : i \in DOMAIN cards' /\ Same(cards[i], cards'[i])
           /\ \A k \in DOMAIN cards' : k \notin DOMAIN cards =>
                 \/ /\ cards'[k].slot > 0 /\ cards'[k].retry = 0 /\ ~Awake(cards'[k])
                    /\ cards'[k].status = "todo"
                 \/ cards'[k].slot = 0 /\ cards'[k].retry = 0
                 \/ /\ pass.on /\ cards'[k].slot = 0
                    /\ \E t \in pass.turns :
                          /\ cards'[k].retry = t /\ k = Len(cards) + 1
                          /\ \/ Ended(pass.list[t])
                             \/ backend = "workboard" /\ pass.list[t].fails > 0
                          /\ \/ pass.list[t].stage \in {"merge", "final"}
                             \/ ~RetriesExhausted(pass.list, t)
<1> DEFINE Goal ==
           /\ \A i \in DOMAIN cards : i \in DOMAIN cards' /\ Same(cards[i], cards'[i])
           /\ \A k \in DOMAIN cards' : k \notin DOMAIN cards =>
                 \/ /\ cards'[k].slot > 0 /\ cards'[k].retry = 0 /\ ~Awake(cards'[k])
                    /\ cards'[k].status = "todo"
                 \/ cards'[k].slot = 0 /\ cards'[k].retry = 0
                 \/ /\ pass.on /\ cards'[k].slot = 0
                    /\ \E t \in pass.turns :
                          /\ cards'[k].retry = t /\ k = Len(cards) + 1
                          /\ \/ Ended(pass.list[t])
                             \/ backend = "workboard" /\ pass.list[t].fails > 0
                          /\ \/ pass.list[t].stage \in {"merge", "final"}
                             \/ ~RetriesExhausted(pass.list, t)
<1>0. cards \in Seq(CardRecords) /\ Len(cards) \in Nat /\ DOMAIN cards = 1 .. Len(cards)
  BY ListIs
<1>1. \A M : Rewrites(cards, M) => DOMAIN M = DOMAIN cards /\ \A i \in DOMAIN cards : Same(cards[i], M[i])
  BY <1>0, Domains DEF Rewrites
<1>2. \A M : Extends(cards, M) =>
         /\ \A i \in DOMAIN cards : i \in DOMAIN M /\ Same(cards[i], M[i])
         /\ \A k \in DOMAIN M : k \notin DOMAIN cards => k > Len(cards) /\ M[k].slot = 0
  <2> SUFFICES ASSUME NEW M, Extends(cards, M)
               PROVE  /\ \A i \in DOMAIN cards : i \in DOMAIN M /\ Same(cards[i], M[i])
                      /\ \A k \in DOMAIN M : k \notin DOMAIN cards =>
                            k > Len(cards) /\ M[k].slot = 0
    OBVIOUS
  <2>1. DOMAIN M = 1 .. Len(M) /\ Len(M) \in Nat
    BY Domains DEF Extends
  <2>2. \A k \in DOMAIN M : k \notin DOMAIN cards => k > Len(cards)
    BY <1>0, <2>1
  <2> QED BY <2>2 DEF Extends, Grew, Born
<1>3. CASE Quiet
  <2>1. \A s, c : Added(s, c) => c.slot > 0 /\ c.retry = 0 /\ ~Awake(c) /\ c.status = "todo"
    BY DEF Added, Awake
  <2> QED BY <1>3, <2>1, SameIs DEF Quiet
<1>4. ASSUME NEW j \in DOMAIN cards, NEW c, Worked(j, c) \/ Resumed(j, c)
      PROVE  Goal
  <2>1. cards' = [cards EXCEPT ![j] = c] /\ c \in CardRecords /\ Same(cards[j], c)
    BY <1>4 DEF Worked, Resumed
  <2>2. Rewrites(cards, cards')
    BY <1>0, <2>1, SetIs
  <2> QED BY <1>1, <2>2
<1>5. CASE Closing \/ Dispatching \/ Cancelling
  BY <1>1, <1>5 DEF Closing, Dispatching, Cancelling, Moves
<1>6. CASE Opening
  BY <1>2, <1>6 DEF Opening
<1>7. CASE Turning
  <2>1. PICK t \in pass.turns : TurnOf(t, cards')
    BY <1>7 DEF Turning
  <2>2. Extends(cards, cards') /\ pass.on
    BY <2>1, <1>7 DEF TurnOf, Turning
  <2>3. \A k \in DOMAIN cards' :
           k > Len(cards) => k = Len(cards) + 1 /\ Offspring(t, cards'[k])
    BY <2>1 DEF TurnOf
  <2> QED BY <1>2, <2>2, <2>3 DEF Offspring
<1> QED BY <1>3, <1>4, <1>5, <1>6, <1>7 DEF Change, Working, Resuming

(* What a stage waited for stays DONE once a pass can make the stage READY. *)
LEMMA DepsStay ==
    ASSUME OrderInv, MaxRetries >= 1, Change, NEW e \in DOMAIN cards,
           cards[e].slot > 0, AllDone(cards[e].deps),
           backend = "workboard" => Awake(cards[e])
    PROVE  \A d \in cards[e].deps : cards'[d].status = "done"
<1> SUFFICES ASSUME NEW d \in cards[e].deps, cards'[d].status # "done" PROVE FALSE
  OBVIOUS
<1>1. d \in DOMAIN cards /\ cards[d].slot > 0 /\ cards[d].status = "done"
  BY ListIs DEF OrderInv, Lists, Family, AllDone
<1>2. /\ pass.on /\ backend = "workboard"
      /\ d \in DOMAIN pass.list /\ pass.list[d].status # "done"
  BY <1>1, StageCardStep
<1> QED BY <1>2 DEF OrderInv, OrderFits

(* The root of a card that was retried: its parents stay DONE.             *)
LEMMA RootStays ==
    ASSUME OrderInv, MaxRetries >= 1, Change, NEW r \in DOMAIN cards,
           cards[r].retry = 0, AllDone(cards[r].deps),
           backend = "workboard" /\ cards[r].slot > 0 => Awake(cards[r])
    PROVE  /\ \A d \in cards'[r].deps : cards'[d].status = "done"
           /\ backend = "workboard" /\ cards'[r].slot > 0 => Awake(cards'[r])
<1>0. BoardInv /\ cards \in Lists /\ cards[r] \in CardRecords
  BY ListIs DEF OrderInv, Lists
<1>1. Same(cards[r], cards'[r])
  BY <1>0, ChangeGrows
<1>2. cards'[r].deps = cards[r].deps /\ cards'[r].slot = cards[r].slot
  BY <1>1 DEF Same
<1>3. CASE cards[r].slot > 0
  <2>1. \A d \in cards[r].deps : cards'[d].status = "done"
    BY <1>3, DepsStay
  <2>2. backend = "workboard" => Awake(cards'[r])
    BY <1>3, StageCardStep
  <2> QED BY <1>2, <2>1, <2>2
<1>4. CASE ~(cards[r].slot > 0)
  <2>0. cards[r].slot \in Nat
    BY <1>0, CardFields
  <2>1. cards[r].slot = 0
    BY <1>4, <2>0
  <2>2. cards[r].deps = {}
    BY <1>0, <2>1 DEF Lists, Family
  <2> QED BY <1>2, <1>4, <2>2
<1> QED BY <1>3, <1>4

(* A card that a pass retries is a retry, or it has been at work.          *)
LEMMA RetriedIsAwake ==
    ASSUME OrderInv, NEW t \in pass.turns,
           \/ Ended(pass.list[t])
           \/ backend = "workboard" /\ pass.list[t].fails > 0
    PROVE  /\ t \in DOMAIN cards
           /\ AllDone(cards[RootOf(cards, t)].deps)
           /\ backend = "workboard" /\ cards[RootOf(cards, t)].slot > 0
                => Awake(cards[RootOf(cards, t)])
<1>0. /\ BoardInv /\ PassFits /\ cards \in Lists /\ t \in DOMAIN cards
      /\ t \in DOMAIN pass.list /\ cards[t] \in CardRecords /\ pass.list[t] \in CardRecords
  BY TypedIs, ListIs DEF OrderInv, Lists
<1>1. CASE cards[t].retry # 0
  <2>1. /\ AllDone(cards[RootOf(cards, t)].deps)
        /\ backend = "workboard" /\ cards[RootOf(cards, t)].slot > 0
              => Awake(cards[RootOf(cards, t)])
    BY <1>0, <1>1 DEF OrderInv, OrderFits
  <2> QED BY <1>0, <2>1
<1>2. CASE cards[t].retry = 0 /\ ~(cards[t].slot > 0)
  <2>0. cards[t].slot \in Nat
    BY <1>0, CardFields
  <2>1. cards[t].slot = 0 /\ RootOf(cards, t) = t
    BY <1>0, <1>2, <2>0, RootIs
  <2>2. cards[t].deps = {}
    BY <1>0, <1>2, <2>1 DEF Lists, Family
  <2> QED BY <1>0, <1>2, <2>1, <2>2 DEF AllDone
<1>3. CASE cards[t].retry = 0 /\ cards[t].slot > 0
  <2>1. RootOf(cards, t) = t /\ cards[t].repair = 0
    BY <1>0, <1>3, RootIs DEF Lists, Family
  <2>2. Ended(pass.list[t]) => cards[t] = pass.list[t]
    BY <1>0, <2>1, TurnMeets
  <2>3. pass.list[t].fails <= cards[t].fails
    BY <1>0 DEF PassFits
  <2>4. cards[t].fails \in Nat /\ pass.list[t].fails \in Nat
    BY <1>0, CardFields
  <2>5. Ended(pass.list[t]) => Awake(cards[t])
    BY <2>2 DEF Ended, Awake
  <2>6. backend = "workboard" /\ pass.list[t].fails > 0 => Awake(cards[t])
    BY <2>3, <2>4 DEF Awake
  <2>7. Awake(cards[t])
    BY <2>5, <2>6
  <2>8. AllDone(cards[t].deps)
    BY <1>0, <1>3, <2>7 DEF OrderInv, OrderFits
  <2> QED BY <1>0, <2>1, <2>7, <2>8
<1> QED BY <1>1, <1>2, <1>3

(* A pass that goes on decides from the list it had, one that begins from  *)
(* the board.                                                              *)
LEMMA PassListStep ==
    ASSUME BoardInv, Change
    PROVE  pass'.on => \/ pass.on /\ pass'.list = pass.list
                       \/ pass'.list = cards' /\ ~pass.on
<1>1. NoPass.on = FALSE
  BY DEF NoPass
<1>2. CASE Quiet \/ Working \/ Resuming \/ Closing \/ Dispatching
  BY <1>1, <1>2 DEF Quiet, Working, Worked, Resuming, Closing, Dispatching
<1>3. CASE Opening \/ Cancelling \/ Turning
  BY <1>3 DEF Opening, Cancelling, Turning
<1> QED BY <1>2, <1>3 DEF Change

(* What a step must keep for OrderFits.                                    *)
LEMMA OrderFitsNext ==
    ASSUME UNCHANGED setting,
           \A i \in DOMAIN cards' : cards'[i].slot > 0 =>
              /\ Awake(cards'[i]) => \A d \in cards'[i].deps : cards'[d].status = "done"
              /\ backend = "workboard" /\ cards'[i].status = "blocked" => cards'[i].fails > 0,
           \A i \in DOMAIN cards' : cards'[i].retry # 0 =>
              /\ \A d \in cards'[RootOf(cards', i)].deps : cards'[d].status = "done"
              /\ backend = "workboard" /\ cards'[RootOf(cards', i)].slot > 0
                    => Awake(cards'[RootOf(cards', i)]),
           pass'.on => \A e \in DOMAIN cards' : cards'[e].slot > 0 /\ Awake(cards'[e]) =>
              \A d \in cards'[e].deps :
                 d \in DOMAIN pass'.list /\ pass'.list[d].status = "done"
    PROVE  OrderFits'
<1>1. backend' = backend
  BY DEF setting
<1> QED BY <1>1 DEF OrderFits, Awake, AllDone

(* Every step keeps the order of the stages.                               *)
LEMMA OrderStep ==
    ASSUME OrderInv, MaxRetries >= 1, [WorkflowNext]_vars
    PROVE  OrderInv'
<1>0. /\ BoardInv /\ BoardInv' /\ Change /\ UNCHANGED setting
      /\ cards \in Lists /\ cards' \in Lists /\ PassFits
      /\ cards \in Seq(CardRecords) /\ cards' \in Seq(CardRecords)
  <2>1. BoardInv /\ BoardInv'
    BY BoardStep DEF OrderInv
  <2>2. cards' \in Lists
    BY <2>1, BoardIsList DEF BoardInv
  <2> QED BY <2>1, <2>2, ChangeIs, ListIs, TypedIs DEF Lists
<1>1. Grew(cards, cards')
  <2>1. Len(cards) <= Len(cards')
    <3>1. \A i \in DOMAIN cards : i \in DOMAIN cards'
      BY <1>0, ChangeGrows
    <3>2. /\ Len(cards) \in Nat /\ DOMAIN cards = 1 .. Len(cards)
          /\ Len(cards') \in Nat /\ DOMAIN cards' = 1 .. Len(cards')
      BY <1>0, Domains
    <3>3. CASE Len(cards) = 0
      BY <3>2, <3>3
    <3>4. CASE Len(cards) # 0
      BY <3>1, <3>2, <3>4
    <3> QED BY <3>3, <3>4
  <2> QED BY <2>1, <1>0, ChangeGrows DEF Grew
<1>2. ASSUME NEW i \in DOMAIN cards', cards'[i].slot > 0
      PROVE  /\ Awake(cards'[i]) => /\ \A d \in cards'[i].deps : cards'[d].status = "done"
                                    /\ pass'.on => i \in DOMAIN cards /\ Awake(cards[i])
             /\ backend = "workboard" /\ cards'[i].status = "blocked" => cards'[i].fails > 0
  <2>1. CASE i \in DOMAIN cards
    <3>1. Same(cards[i], cards'[i])
      BY <1>0, <2>1, ChangeGrows
    <3>2. cards[i].slot > 0 /\ cards'[i].deps = cards[i].deps
      BY <1>2, <3>1 DEF Same
    <3>3. ~NoPass.on
      BY DEF NoPass
    <3>4. Awake(cards[i]) => AllDone(cards[i].deps)
      BY <2>1, <3>2 DEF OrderInv, OrderFits
    <3>5. Awake(cards[i]) => \A d \in cards[i].deps : cards'[d].status = "done"
      BY <1>0, <2>1, <3>2, <3>4, DepsStay
    <3> QED BY <1>0, <2>1, <3>2, <3>3, <3>5, StageCardStep
  <2>2. CASE i \notin DOMAIN cards
    <3>1. cards'[i].slot # 0
      BY <1>2
    <3> QED BY <1>0, <2>2, <3>1, ChangeGrows
  <2> QED BY <2>1, <2>2
<1>3. ASSUME NEW i \in DOMAIN cards', cards'[i].retry # 0
      PROVE  /\ \A d \in cards'[RootOf(cards', i)].deps : cards'[d].status = "done"
             /\ backend = "workboard" /\ cards'[RootOf(cards', i)].slot > 0
                   => Awake(cards'[RootOf(cards', i)])
  <2>1. \A t \in DOMAIN cards :
           RootOf(cards', t) = RootOf(cards, t) /\ RootOf(cards, t) \in DOMAIN cards
             /\ cards[RootOf(cards, t)].retry = 0
    BY <1>0, <1>1, AncestorsKept, RootIs, RootsAreNoRetries DEF RootOf
  <2>2. CASE i \in DOMAIN cards
    <3>1. Same(cards[i], cards'[i])
      BY <1>0, <2>2, ChangeGrows
    <3>2. cards[i].retry # 0
      BY <1>3, <3>1 DEF Same
    <3>3. /\ AllDone(cards[RootOf(cards, i)].deps)
          /\ backend = "workboard" /\ cards[RootOf(cards, i)].slot > 0
                => Awake(cards[RootOf(cards, i)])
      BY <2>2, <3>2 DEF OrderInv, OrderFits
    <3> DEFINE r == RootOf(cards, i)
    <3>4. RootOf(cards', i) = r /\ r \in DOMAIN cards /\ cards[r].retry = 0
      BY <2>1, <2>2
    <3>5. AllDone(cards[r].deps) /\ (backend = "workboard" /\ cards[r].slot > 0 => Awake(cards[r]))
      BY <3>3
    <3> HIDE DEF r
    <3> QED BY <1>0, <3>4, <3>5, RootStays
  <2>3. CASE i \notin DOMAIN cards
    <3>1. PICK t \in pass.turns :
             /\ cards'[i].retry = t
             /\ \/ Ended(pass.list[t])
                \/ backend = "workboard" /\ pass.list[t].fails > 0
      BY <1>0, <1>3, <2>3, ChangeGrows
    <3>2. /\ t \in DOMAIN cards /\ AllDone(cards[RootOf(cards, t)].deps)
          /\ backend = "workboard" /\ cards[RootOf(cards, t)].slot > 0
                => Awake(cards[RootOf(cards, t)])
      BY <3>1, RetriedIsAwake
    <3>3. RootOf(cards', i) = RootOf(cards', t)
      BY <1>0, <1>3, <3>1, RootIs
    <3> DEFINE r == RootOf(cards, t)
    <3>4. RootOf(cards', i) = r /\ r \in DOMAIN cards /\ cards[r].retry = 0
      BY <2>1, <3>2, <3>3
    <3>5. AllDone(cards[r].deps) /\ (backend = "workboard" /\ cards[r].slot > 0 => Awake(cards[r]))
      BY <3>2
    <3> HIDE DEF r
    <3> QED BY <1>0, <3>4, <3>5, RootStays
  <2> QED BY <2>2, <2>3
<1>4. ASSUME pass'.on, NEW e \in DOMAIN cards', cards'[e].slot > 0, Awake(cards'[e]),
             NEW d \in cards'[e].deps
      PROVE  d \in DOMAIN pass'.list /\ pass'.list[d].status = "done"
  <2>1. e \in DOMAIN cards /\ Awake(cards[e]) /\ cards'[d].status = "done"
    BY <1>2, <1>4
  <2>2. Same(cards[e], cards'[e])
    BY <1>0, <2>1, ChangeGrows
  <2>3. cards[e].slot > 0 /\ d \in cards[e].deps
    BY <1>4, <2>2 DEF Same
  <2>4. CASE pass.on /\ pass'.list = pass.list
    BY <2>1, <2>3, <2>4 DEF OrderInv, OrderFits
  <2>5. CASE pass'.list = cards'
    <3>1. d \in DOMAIN cards'
      BY <1>0, <1>4 DEF Lists, Family
    <3> QED BY <2>1, <2>5, <3>1
  <2> QED BY <1>0, <1>4, <2>4, <2>5, PassListStep
<1>5. OrderFits'
  BY <1>0, <1>2, <1>3, <1>4, OrderFitsNext
<1> QED BY <1>0, <1>5 DEF OrderInv

(* The order of the stages, in its inductive form.                         *)
LEMMA OrderAlways == ASSUME MaxRetries >= 1 PROVE WorkflowSpec => []OrderInv
<1>1. WorkflowInit => OrderInv
  <2> SUFFICES ASSUME WorkflowInit PROVE OrderInv
    OBVIOUS
  <2>1. BoardInv
    BY InitBoard
  <2>2. cards = <<>> /\ pass.on = FALSE
    BY DEF WorkflowInit, NoPass
  <2> QED BY <2>1, <2>2 DEF OrderInv, OrderFits
<1>2. OrderInv /\ [WorkflowNext]_vars => OrderInv'
  BY OrderStep
<1> QED BY <1>1, <1>2, PTL DEF WorkflowSpec

(* A stage, or a retry of it at any remove, is worked on only when all the *)
(* stages it depends on are DONE.  A budget of no retries at all is the    *)
(* exception: there a finished card counts as beyond its budget.           *)
THEOREM StagesAreOrdered == ASSUME MaxRetries >= 1 PROVE WorkflowSpec => []StageOrder
<1>1. OrderInv => StageOrder
  <2> SUFFICES ASSUME OrderInv, NEW i \in DOMAIN cards, Started(cards[i]),
                      NEW d \in cards[Origin(i)].deps
               PROVE  cards[d].status = "done"
    BY DEF StageOrder
  <2>0. BoardInv /\ cards \in Lists /\ cards[i] \in CardRecords
    BY ListIs DEF OrderInv, Lists
  <2>1. Origin(i) = RootOf(cards, i)
    BY DEF Origin, RootOf
  <2>2. CASE cards[i].retry # 0
    BY <2>1, <2>2 DEF OrderInv, OrderFits, AllDone
  <2>3. CASE cards[i].retry = 0
    <3>1. Origin(i) = i
      BY <2>0, <2>1, <2>3, RootIs
    <3>2. Awake(cards[i])
      BY DEF Started, Awake
    <3>3. cards[i].slot > 0
      <4>1. cards[i].deps # {}
        BY <3>1
      <4>2. cards[i].slot # 0
        BY <2>0, <2>3, <4>1 DEF Lists, Family
      <4>3. cards[i].slot \in Nat
        BY <2>0, CardFields
      <4> QED BY <4>2, <4>3
    <3> QED BY <3>1, <3>2, <3>3 DEF OrderInv, OrderFits, AllDone
  <2> QED BY <2>2, <2>3
<1> QED BY <1>1, OrderAlways, PTL

----------------------------------------------------------------------------
(* Retry chains.                                                           *)

(* A card's generation and its retries are within the budget: what the     *)
(* property RetryChainsBounded says, of a list.                            *)
ChainsFit(L) ==
    \A i \in DOMAIN L : L[i].stage \notin {"merge", "final"} =>
        Cardinality(Ancestors(L, i)) + Cardinality(RetriesOf(L, i)) <= MaxRetries

(* Chains are finite, so that they have a length.                          *)
LEMMA ChainsAreFinite ==
    ASSUME NEW L \in Lists, NEW i \in DOMAIN L
    PROVE  /\ IsFiniteSet(Ancestors(L, i)) /\ Cardinality(Ancestors(L, i)) \in Nat
           /\ IsFiniteSet(RetriesOf(L, i)) /\ Cardinality(RetriesOf(L, i)) \in Nat
<1>1. i \in Nat /\ Len(L) \in Nat /\ DOMAIN L = 1 .. Len(L)
  BY DEF Lists
<1>2. IsFiniteSet(1 .. i - 1) /\ IsFiniteSet(1 .. Len(L))
  BY <1>1, FS_Interval
<1>3. Ancestors(L, i) \subseteq 1 .. i - 1
  BY Genealogy
<1>4. RetriesOf(L, i) \subseteq 1 .. Len(L)
  BY <1>1 DEF RetriesOf
<1>5. IsFiniteSet(Ancestors(L, i)) /\ IsFiniteSet(RetriesOf(L, i))
  BY <1>2, <1>3, <1>4, FS_Subset
<1> QED BY <1>5, FS_CardinalityType

(* Adding one member to a finite set adds at most one to its size.         *)
LEMMA AtMostOneMore ==
    ASSUME NEW S, IsFiniteSet(S), NEW x, NEW T, T \subseteq S \cup {x}
    PROVE  IsFiniteSet(T) /\ Cardinality(T) \in Nat /\ Cardinality(T) <= Cardinality(S) + 1
<1>1. IsFiniteSet(S \cup {x}) /\ Cardinality(S) \in Nat
      /\ (Cardinality(S \cup {x}) = Cardinality(S) \/ Cardinality(S \cup {x}) = Cardinality(S) + 1)
  BY FS_AddElement, FS_CardinalityType
<1>2. IsFiniteSet(T) /\ Cardinality(T) <= Cardinality(S \cup {x}) /\ Cardinality(T) \in Nat
  BY <1>1, FS_Subset, FS_CardinalityType
<1> QED BY <1>1, <1>2

(* While a card's turn is to come, the board has no retry of it that the   *)
(* list of the pass lacks: the list tells how long its chain is.           *)
LEMMA ListTellsChain ==
    ASSUME BoardInv, pass.on, NEW t \in pass.turns
    PROVE  /\ Ancestors(pass.list, t) = Ancestors(cards, t)
           /\ RetriesOf(pass.list, t) = RetriesOf(cards, t)
           /\ RetriesExhausted(pass.list, t) <=> RetriesExhausted(cards, t)
<1>0. /\ PassFits /\ pass.list \in Lists /\ cards \in Lists /\ Grew(pass.list, cards)
      /\ t \in DOMAIN pass.list /\ DOMAIN pass.list \subseteq DOMAIN cards
      /\ DOMAIN cards = 1 .. Len(cards) /\ DOMAIN pass.list = 1 .. Len(pass.list)
      /\ Len(cards) \in Nat /\ Len(pass.list) \in Nat
  BY ListIs, TypedIs
<1>1. Ancestors(pass.list, t) = Ancestors(cards, t)
  BY <1>0, AncestorsKept
<1>2. \A j \in DOMAIN cards : j \notin DOMAIN pass.list => cards[j].retry # t
  <2> SUFFICES ASSUME NEW j \in DOMAIN cards, j \notin DOMAIN pass.list
               PROVE  cards[j].retry # t
    OBVIOUS
  <2>1. j > Len(pass.list)
    BY <1>0
  <2>2. cards[j].retry \notin pass.turns
    BY <1>0, <2>1 DEF PassFits
  <2> QED BY <2>2
<1>3. \A j \in DOMAIN pass.list : cards[j].retry = pass.list[j].retry
  BY <1>0 DEF Grew, Same
<1>4. RetriesOf(pass.list, t) = RetriesOf(cards, t)
  BY <1>0, <1>2, <1>3 DEF RetriesOf
<1> QED BY <1>1, <1>4 DEF RetriesExhausted

(* No step makes a chain longer than the budget.                           *)
LEMMA ChainStep ==
    ASSUME BoardInv, ChainsFit(cards), [WorkflowNext]_vars
    PROVE  ChainsFit(cards')
<1>0. /\ BoardInv /\ BoardInv' /\ Change
      /\ cards \in Lists /\ cards' \in Lists
      /\ Len(cards) \in Nat /\ DOMAIN cards = 1 .. Len(cards)
      /\ Len(cards') \in Nat /\ DOMAIN cards' = 1 .. Len(cards')
      /\ pass.turns \subseteq DOMAIN cards
  <2>1. BoardInv /\ BoardInv'
    BY BoardStep
  <2>2. cards' \in Lists
    BY <2>1, BoardIsList DEF BoardInv
  <2>3. cards' \in Seq(CardRecords)
    BY <2>2 DEF Lists
  <2> QED BY <2>1, <2>2, <2>3, ChangeIs, ListIs, Domains
<1>1. Grew(cards, cards')
  <2>1. \A i \in DOMAIN cards : i \in DOMAIN cards'
    BY <1>0, ChangeGrows
  <2>2. CASE Len(cards) = 0
    BY <1>0, <2>1, <2>2, ChangeGrows DEF Grew
  <2>3. CASE Len(cards) # 0
    <3>1. Len(cards) <= Len(cards')
      BY <1>0, <2>1, <2>3
    <3> QED BY <1>0, <3>1, ChangeGrows DEF Grew
  <2> QED BY <2>2, <2>3
<1>2. ASSUME NEW k \in DOMAIN cards', k \notin DOMAIN cards, cards'[k].retry # 0
      PROVE  /\ k = Len(cards) + 1 /\ cards'[k].retry \in DOMAIN cards
             /\ LET t == cards'[k].retry
                IN  cards[t].stage \in {"merge", "final"} \/ ~RetriesExhausted(cards, t)
  <2>1. PICK t \in pass.turns :
           /\ pass.on /\ cards'[k].retry = t /\ k = Len(cards) + 1
           /\ pass.list[t].stage \in {"merge", "final"} \/ ~RetriesExhausted(pass.list, t)
    BY <1>0, <1>2, ChangeGrows
  <2>2. Same(pass.list[t], cards[t])
    BY <1>0, <2>1, ListIs, TypedIs DEF PassFits
  <2>3. cards[t].stage = pass.list[t].stage
    BY <2>2 DEF Same
  <2>4. cards[t].stage \in {"merge", "final"} \/ ~RetriesExhausted(cards, t)
    BY <1>0, <2>1, <2>3, ListTellsChain
  <2> QED BY <1>0, <2>1, <2>4
<1>3. ASSUME NEW i \in DOMAIN cards, cards'[i].stage \notin {"merge", "final"}
      PROVE  /\ Ancestors(cards', i) = Ancestors(cards, i)
             /\ cards[i].stage = cards'[i].stage
             /\ Cardinality(Ancestors(cards', i)) + Cardinality(RetriesOf(cards', i))
                  <= MaxRetries
  <2>1. Ancestors(cards', i) = Ancestors(cards, i)
    BY <1>0, <1>1, AncestorsKept
  <2>2. \A j \in DOMAIN cards : cards'[j].retry = cards[j].retry /\ cards[j].stage = cards'[j].stage
    BY <1>1 DEF Grew, Same
  <2>3. Cardinality(Ancestors(cards, i)) + Cardinality(RetriesOf(cards, i)) <= MaxRetries
    BY <1>3, <2>2 DEF ChainsFit
  <2>4. /\ IsFiniteSet(RetriesOf(cards, i)) /\ Cardinality(RetriesOf(cards, i)) \in Nat
        /\ Cardinality(Ancestors(cards, i)) \in Nat
    BY <1>0, ChainsAreFinite
  <2>5. CASE \A k \in DOMAIN cards' : cards'[k].retry = i => k \in DOMAIN cards
    <3>1. RetriesOf(cards', i) \subseteq RetriesOf(cards, i)
      BY <2>2, <2>5 DEF RetriesOf
    <3>2. /\ Cardinality(RetriesOf(cards', i)) <= Cardinality(RetriesOf(cards, i))
          /\ Cardinality(RetriesOf(cards', i)) \in Nat
      BY <2>4, <3>1, FS_Subset, FS_CardinalityType
    <3> QED BY <2>1, <2>2, <2>3, <2>4, <3>2, RetriesAreBounded
  <2>6. ASSUME NEW k \in DOMAIN cards', cards'[k].retry = i, k \notin DOMAIN cards
        PROVE  /\ Cardinality(Ancestors(cards', i)) + Cardinality(RetriesOf(cards', i))
                    <= MaxRetries
    <3>1. i # 0
      BY <1>0
    <3>2. ~RetriesExhausted(cards, i)
      BY <1>2, <1>3, <2>2, <2>6, <3>1
    <3>3. Cardinality(Ancestors(cards, i)) + Cardinality(RetriesOf(cards, i)) < MaxRetries
      BY <3>2, <2>4, RetriesAreBounded DEF RetriesExhausted
    <3>4. RetriesOf(cards', i) \subseteq RetriesOf(cards, i) \cup {Len(cards) + 1}
      BY <1>2, <2>2, <3>1 DEF RetriesOf
    <3>5. /\ Cardinality(RetriesOf(cards', i)) \in Nat
          /\ Cardinality(RetriesOf(cards', i)) <= Cardinality(RetriesOf(cards, i)) + 1
      BY <2>4, <3>4, AtMostOneMore
    <3> QED BY <2>1, <2>4, <3>3, <3>5, RetriesAreBounded
  <2> QED BY <2>1, <2>2, <2>5, <2>6
<1>4. ASSUME NEW i \in DOMAIN cards', i \notin DOMAIN cards,
             cards'[i].stage \notin {"merge", "final"}
      PROVE  Cardinality(Ancestors(cards', i)) + Cardinality(RetriesOf(cards', i)) <= MaxRetries
  <2>1. RetriesOf(cards', i) = {}
    <3> SUFFICES ASSUME NEW j \in DOMAIN cards', cards'[j].retry = i PROVE FALSE
      BY DEF RetriesOf
    <3>1. CASE j \in DOMAIN cards
      <4>1. cards[j].retry = i
        BY <1>1, <3>1 DEF Grew, Same
      <4>2. i # 0
        BY <1>0
      <4> QED BY <1>0, <1>4, <3>1, <4>1, <4>2, RetriesAreEarlier
    <3>2. CASE j \notin DOMAIN cards
      <4>1. i # 0
        BY <1>0
      <4> QED BY <1>2, <1>4, <3>2, <4>1
    <3> QED BY <3>1, <3>2
  <2>2. Cardinality(RetriesOf(cards', i)) = 0
    BY <2>1, FS_EmptySet
  <2>3. CASE cards'[i].retry = 0
    <3>1. Ancestors(cards', i) = {}
      BY <1>0, <2>3, AncestorsAre
    <3>2. Cardinality(Ancestors(cards', i)) = 0
      BY <3>1, FS_EmptySet
    <3> QED BY <2>2, <3>2, RetriesAreBounded
  <2>4. CASE cards'[i].retry # 0
    <3> DEFINE t == cards'[i].retry
    <3>1. /\ t \in DOMAIN cards
          /\ cards[t].stage \in {"merge", "final"} \/ ~RetriesExhausted(cards, t)
      BY <1>2, <1>4, <2>4
    <3>2. cards'[i].stage = cards'[t].stage
      BY <1>0, <2>4 DEF Lists, Family
    <3>3. Ancestors(cards', i) = {t} \cup Ancestors(cards', t)
      BY <1>0, <2>4, AncestorsAre
    <3> HIDE DEF t
    <3>4. Ancestors(cards', t) = Ancestors(cards, t) /\ cards[t].stage = cards'[t].stage
      BY <1>3, <1>4, <3>1, <3>2
    <3>5. ~RetriesExhausted(cards, t)
      BY <1>4, <3>1, <3>2, <3>4
    <3>6. /\ IsFiniteSet(Ancestors(cards, t)) /\ Cardinality(Ancestors(cards, t)) \in Nat
          /\ Cardinality(RetriesOf(cards, t)) \in Nat
      BY <1>0, <3>1, ChainsAreFinite
    <3>7. Cardinality(Ancestors(cards, t)) + 1 <= MaxRetries
      BY <3>5, <3>6, RetriesAreBounded DEF RetriesExhausted
    <3>8. Ancestors(cards', i) \subseteq Ancestors(cards, t) \cup {t}
      BY <3>3, <3>4
    <3>9. /\ Cardinality(Ancestors(cards', i)) \in Nat
          /\ Cardinality(Ancestors(cards', i)) <= Cardinality(Ancestors(cards, t)) + 1
      BY <3>6, <3>8, AtMostOneMore
    <3> QED BY <2>2, <3>6, <3>7, <3>9, RetriesAreBounded
  <2> QED BY <2>3, <2>4
<1> QED BY <1>3, <1>4 DEF ChainsFit

(* The chain of retries of a card ends, whatever is interleaved with the   *)
(* pass and however old its list is: a card, its retries and theirs stay   *)
(* within the budget (_retry_exhausted).                                   *)
THEOREM ChainsAreBounded == WorkflowSpec => []RetryChainsBounded
<1>1. WorkflowInit => ChainsFit(cards)
  BY DEF WorkflowInit, ChainsFit
<1>2. BoardInv /\ ChainsFit(cards) /\ [WorkflowNext]_vars => ChainsFit(cards)'
  BY ChainStep
<1>3. ChainsFit(cards) => RetryChainsBounded
  BY DEF ChainsFit, RetryChainsBounded
<1> QED BY <1>1, <1>2, <1>3, BoardAlways, PTL DEF WorkflowSpec
=============================================================================
