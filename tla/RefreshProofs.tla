---------------------------- MODULE RefreshProofs ----------------------------
(***************************************************************************)
(* Machine-checked proofs about Refresh, for any callers, refresh threads, *)
(* keys, alias lists, limits and budget.                                   *)
(***************************************************************************)
EXTENDS Refresh, FiniteSetTheorems, TLAPS

(* What callers, threads and the history hold. *)
CallerState ==
    [pc : CallerPcs, key : CacheKeys \cup {<<>>}, roots : Seq(CacheKeys), deps : Seq(CacheKeys),
     root : BOOLEAN, queued : Nat]
RunnerState == [pc : RunnerPcs, key : CacheKeys \cup {<<>>}]
Shapes ==
    /\ caller \in [Callers -> CallerState]
    /\ runner \in [Runners -> RunnerState]
    /\ lost \in [keys : SUBSET CacheKeys, slots : Nat]

(* The inductive invariant: the counting argument of SlotsReturned and the
   ownership argument of MarkIsOwned both need to know what a caller's lists
   and a thread's key can be. *)
IInv == Shapes /\ SlotsReturned /\ MarkIsOwned

-----------------------------------------------------------------------------
(* How a caller moves *)

HoldingPcs == {"budget", "denied", "giveback", "spawn"}
OwningPcs == {"slot", "unmark", "budget", "denied", "spawn"}

(* In this step no caller but c moves, and c moves to one of the points. *)
Moved(c, pcs) ==
    /\ caller' \in [Callers -> CallerState]
    /\ \A d \in Callers \ {c} : caller'[d] = caller[d]
    /\ caller'[c].pc \in pcs
    /\ caller'[c].pc # "idle" => caller'[c].key \in CacheKeys

LEMMA RestingShape == Resting \in CallerState /\ Resting.pc = "idle"
  <1>1. <<>> \in Seq(CacheKeys)
    OBVIOUS
  <1> QED BY <1>1 DEF Resting, CallerState, CallerPcs

(* Asking for a key of the list. *)
LEMMA AskMoves ==
    ASSUME Shapes, NEW c \in Callers, NEW k \in CacheKeys, NEW me \in CallerState, Ask(c, k, me)
    PROVE  Moved(c, {"mark"})
  <1> DEFINE r == [me EXCEPT !.pc = "mark", !.key = k]
  <1>1. r \in CallerState /\ r.pc = "mark" /\ r.key = k
    BY DEF CallerState, CallerPcs
  <1>2. caller' = [caller EXCEPT ![c] = r]
    BY DEF Ask
  <1> HIDE DEF r
  <1> QED BY <1>1, <1>2 DEF Shapes, Moved

(* The first key of a list, and the rest of it. *)
LEMMA HeadTail ==
    ASSUME NEW s \in Seq(CacheKeys), s # <<>>
    PROVE  Head(s) \in CacheKeys /\ Tail(s) \in Seq(CacheKeys)
  OBVIOUS

LEMMA BeginMoves ==
    ASSUME Shapes, NEW c \in Callers, NEW batch \in Batches, Begin(c, batch)
    PROVE  Moved(c, {"mark"})
  <1> DEFINE me == [Resting EXCEPT !.roots = Tail(batch), !.root = TRUE]
  <1>1. batch \in Seq(CacheKeys) /\ batch # <<>>
    BY RefreshAssumption DEF Begin
  <1>2. me \in CallerState
    BY <1>1, HeadTail, RestingShape DEF CallerState
  <1>3. Ask(c, Head(batch), me)
    BY DEF Begin
  <1> QED BY <1>1, <1>2, <1>3, HeadTail, AskMoves

(* A caller that is done with a key goes on to the next one or rests. *)
LEMMA ProceedMoves ==
    ASSUME Shapes, RefreshTypeOK, NEW c \in Callers, caller[c].pc # "idle",
           NEW ok \in BOOLEAN, Proceed(c, ok)
    PROVE  Moved(c, {"mark", "idle"})
  <1> DEFINE me == caller[c]
             n == IF me.root THEN 0 ELSE me.queued + (IF ok THEN 1 ELSE 0)
             deps == IF me.root THEN Dependents[me.key] ELSE me.deps
             dependent == [me EXCEPT !.deps = Tail(deps), !.root = FALSE, !.queued = n]
             root == [Resting EXCEPT !.roots = Tail(me.roots), !.root = TRUE]
  <1>1. me \in CallerState /\ me.key \in CacheKeys
    BY DEF Shapes, RefreshTypeOK
  <1>2. /\ n \in Nat /\ deps \in Seq(CacheKeys) /\ me.roots \in Seq(CacheKeys)
    BY <1>1, RefreshAssumption DEF CallerState
  <1>3. CASE deps # <<>> /\ n < MaxChain
    <2>1. Ask(c, Head(deps), dependent)
      BY <1>3 DEF Proceed
    <2>2. Head(deps) \in CacheKeys /\ Tail(deps) \in Seq(CacheKeys)
      <3> HIDE DEF deps
      <3> QED BY <1>2, <1>3, HeadTail
    <2>3. dependent \in CallerState
      <3> HIDE DEF deps, n
      <3> QED BY <1>1, <1>2, <2>2 DEF CallerState
    <2> HIDE DEF dependent, deps
    <2>4. Moved(c, {"mark"})
      BY <2>1, <2>2, <2>3, AskMoves
    <2> QED BY <2>4 DEF Moved
  <1>4. CASE ~(deps # <<>> /\ n < MaxChain) /\ me.roots # <<>>
    <2>1. Ask(c, Head(me.roots), root)
      BY <1>4 DEF Proceed
    <2>2. Head(me.roots) \in CacheKeys /\ Tail(me.roots) \in Seq(CacheKeys)
      BY <1>2, <1>4, HeadTail
    <2>3. root \in CallerState
      BY <2>2, RestingShape DEF CallerState
    <2> HIDE DEF root
    <2>4. Moved(c, {"mark"})
      BY <2>1, <2>2, <2>3, AskMoves
    <2> QED BY <2>4 DEF Moved
  <1>5. CASE ~(deps # <<>> /\ n < MaxChain) /\ me.roots = <<>>
    <2>1. caller' = [caller EXCEPT ![c] = Resting]
      BY <1>5 DEF Proceed
    <2> QED BY <2>1, RestingShape DEF Moved, Shapes
  <1> QED BY <1>3, <1>4, <1>5

(* Within one key only the program point moves. *)
LEMMA GotoMoves ==
    ASSUME Shapes, RefreshTypeOK, NEW c \in Callers, caller[c].pc # "idle",
           NEW p \in CallerPcs, MoveTo(c, p)
    PROVE  Moved(c, {p}) /\ caller'[c].key = caller[c].key
  <1>1. caller' = [caller EXCEPT ![c] = [caller[c] EXCEPT !.pc = p]]
    BY DEF MoveTo
  <1>2. caller[c] \in CallerState /\ caller[c].key \in CacheKeys
    BY DEF Shapes, RefreshTypeOK
  <1> DEFINE r == [caller[c] EXCEPT !.pc = p]
  <1>3. r \in CallerState /\ r.pc = p /\ r.key = caller[c].key
    BY <1>2 DEF CallerState
  <1> HIDE DEF r
  <1>4. caller' = [caller EXCEPT ![c] = r]
    BY <1>1 DEF r
  <1> QED BY <1>2, <1>3, <1>4 DEF Moved, Shapes

(* In this step no thread but r moves, and r moves to one of the points. *)
RunnerMoved(r, pcs) ==
    /\ runner' \in [Runners -> RunnerState]
    /\ \A q \in Runners \ {r} : runner'[q] = runner[q]
    /\ runner'[r].pc \in pcs
    /\ runner'[r].pc # "idle" => runner'[r].key \in CacheKeys

LEMMA RunnerGotoMoves ==
    ASSUME Shapes, RefreshTypeOK, NEW r \in Runners, runner[r].pc # "idle",
           NEW p \in RunnerPcs, RunnerGoto(r, p)
    PROVE  RunnerMoved(r, {p}) /\ runner'[r].key = runner[r].key
  BY DEF RunnerGoto, RunnerMoved, Shapes, RefreshTypeOK, RunnerState

-----------------------------------------------------------------------------
(* Counting who holds a slot *)

LEMMA HoldersFinite ==
    ASSUME Shapes
    PROVE  /\ IsFiniteSet(HoldingCallers) /\ Cardinality(HoldingCallers) \in Nat
           /\ IsFiniteSet(LiveRunners) /\ Cardinality(LiveRunners) \in Nat
  <1>1. HoldingCallers \in SUBSET Callers /\ LiveRunners \in SUBSET Runners
    BY DEF HoldingCallers, LiveRunners
  <1> QED BY <1>1, RefreshAssumption, FS_Subset, FS_CardinalityType

LEMMA CallersCounted ==
    ASSUME Shapes, NEW c \in Callers, NEW pcs, Moved(c, pcs)
    PROVE  /\ caller[c].pc \in HoldingPcs /\ pcs \subseteq HoldingPcs
                => Cardinality(HoldingCallers') = Cardinality(HoldingCallers)
           /\ caller[c].pc \notin HoldingPcs /\ pcs \cap HoldingPcs = {}
                => Cardinality(HoldingCallers') = Cardinality(HoldingCallers)
           /\ caller[c].pc \notin HoldingPcs /\ pcs \subseteq HoldingPcs
                => Cardinality(HoldingCallers') = Cardinality(HoldingCallers) + 1
           /\ caller[c].pc \in HoldingPcs /\ pcs \cap HoldingPcs = {}
                => /\ Cardinality(HoldingCallers') = Cardinality(HoldingCallers) - 1
                   /\ Cardinality(HoldingCallers) >= 1
  <1> DEFINE H == HoldingCallers
             N == HoldingCallers'
  <1>1. IsFiniteSet(H) /\ Cardinality(H) \in Nat
    BY HoldersFinite
  <1>2. \A d \in Callers \ {c} : d \in N <=> d \in H
    BY DEF Moved, HoldingCallers
  <1>3. (c \in H <=> caller[c].pc \in HoldingPcs) /\ (c \in N <=> caller'[c].pc \in HoldingPcs)
    BY DEF HoldingCallers, HoldingPcs
  <1>4. H \subseteq Callers /\ N \subseteq Callers
    BY DEF HoldingCallers
  <1>5. caller'[c].pc \in pcs
    BY DEF Moved
  <1> HIDE DEF H, N
  <1>6. (c \in H <=> c \in N) => N = H
    BY <1>2, <1>4
  <1>7. c \notin H /\ c \in N => N = H \cup {c}
    BY <1>2, <1>4
  <1>8. c \in H /\ c \notin N => N = H \ {c}
    BY <1>2, <1>4
  <1>9. c \notin H => Cardinality(H \cup {c}) = Cardinality(H) + 1
    BY <1>1, FS_AddElement
  <1>10. c \in H => Cardinality(H \ {c}) = Cardinality(H) - 1 /\ Cardinality(H) >= 1
    BY <1>1, FS_RemoveElement, FS_EmptySet
  <1> QED BY <1>3, <1>5, <1>6, <1>7, <1>8, <1>9, <1>10 DEF H, N

LEMMA RunnersCounted ==
    ASSUME Shapes, NEW r \in Runners, NEW pcs, RunnerMoved(r, pcs)
    PROVE  /\ runner[r].pc # "idle" /\ "idle" \notin pcs
                => Cardinality(LiveRunners') = Cardinality(LiveRunners)
           /\ runner[r].pc = "idle" /\ "idle" \notin pcs
                => Cardinality(LiveRunners') = Cardinality(LiveRunners) + 1
           /\ runner[r].pc # "idle" /\ pcs = {"idle"}
                => /\ Cardinality(LiveRunners') = Cardinality(LiveRunners) - 1
                   /\ Cardinality(LiveRunners) >= 1
  <1> DEFINE L == LiveRunners
             N == LiveRunners'
  <1>1. IsFiniteSet(L) /\ Cardinality(L) \in Nat
    BY HoldersFinite
  <1>2. \A q \in Runners \ {r} : q \in N <=> q \in L
    BY DEF RunnerMoved, LiveRunners
  <1>3. (r \in L <=> runner[r].pc # "idle") /\ (r \in N <=> runner'[r].pc # "idle")
    BY DEF LiveRunners
  <1>4. L \subseteq Runners /\ N \subseteq Runners
    BY DEF LiveRunners
  <1>5. runner'[r].pc \in pcs
    BY DEF RunnerMoved
  <1> HIDE DEF L, N
  <1>6. (r \in L <=> r \in N) => N = L
    BY <1>2, <1>4
  <1>7. r \notin L /\ r \in N => N = L \cup {r}
    BY <1>2, <1>4
  <1>8. r \in L /\ r \notin N => N = L \ {r}
    BY <1>2, <1>4
  <1>9. r \notin L => Cardinality(L \cup {r}) = Cardinality(L) + 1
    BY <1>1, FS_AddElement
  <1>10. r \in L => Cardinality(L \ {r}) = Cardinality(L) - 1 /\ Cardinality(L) >= 1
    BY <1>1, FS_RemoveElement, FS_EmptySet
  <1> QED BY <1>3, <1>5, <1>6, <1>7, <1>8, <1>9, <1>10 DEF L, N

-----------------------------------------------------------------------------
(* What a step of each kind has to show *)

(* The marks somebody answers for. *)
Owed == marked \ lost.keys

(* The cache's and the clock's part of a step. *)
Settled ==
    /\ lost' \in [keys : SUBSET CacheKeys, slots : Nat]
    /\ cached' \subseteq CacheKeys /\ marked' \subseteq cached'
    /\ refreshing' \in Nat
    /\ budget' \in [tokens : 0 .. Capacity, last : Nat]
    /\ now' \in Nat

(* A step that moves caller c: types, and marks. *)
LEMMA CallerStepKeeps ==
    ASSUME IInv, NEW c \in Callers, NEW pcs \in SUBSET CallerPcs, Moved(c, pcs),
           UNCHANGED runner, Settled,
           \A k \in Owed' : k \in Owed \/ (caller'[c].pc \in OwningPcs /\ caller'[c].key = k),
           caller[c].pc \in OwningPcs =>
             \/ caller'[c].pc \in OwningPcs /\ caller'[c].key = caller[c].key
             \/ caller[c].key \notin Owed'
    PROVE  Shapes' /\ RefreshTypeOK' /\ MarkIsOwned'
  <1>1. Shapes'
    BY DEF IInv, Shapes, Settled, Moved
  <1>2. RefreshTypeOK'
    <2>1. \A d \in Callers : /\ caller'[d].pc \in CallerPcs
                             /\ caller'[d].pc # "idle" => caller'[d].key \in CacheKeys
      BY DEF IInv, SlotsReturned, RefreshTypeOK, Moved
    <2> QED BY <2>1 DEF IInv, SlotsReturned, RefreshTypeOK, Settled
  <1>3. MarkIsOwned'
    <2>1. ASSUME NEW k \in Owed'
          PROVE  \/ \E d \in Callers : caller'[d].pc \in OwningPcs /\ caller'[d].key = k
                 \/ \E r \in Runners : runner'[r].pc \in {"resolve", "failure"} /\ runner'[r].key = k
      <3>1. CASE k \in Owed
        <4>1. \/ \E d \in Callers : caller[d].pc \in OwningPcs /\ caller[d].key = k
              \/ \E r \in Runners : runner[r].pc \in {"resolve", "failure"} /\ runner[r].key = k
          BY <3>1 DEF IInv, MarkIsOwned, Owed, OwningPcs
        <4>2. ASSUME NEW d \in Callers, caller[d].pc \in OwningPcs, caller[d].key = k
              PROVE  caller'[d].pc \in OwningPcs /\ caller'[d].key = k
          <5>1. CASE d = c
            BY <2>1, <4>2, <5>1
          <5>2. CASE d # c
            BY <4>2, <5>2 DEF Moved
          <5> QED BY <5>1, <5>2
        <4> QED BY <4>1, <4>2
      <3>2. CASE k \notin Owed
        BY <2>1, <3>2
      <3> QED BY <3>1, <3>2
    <2> QED BY <2>1 DEF MarkIsOwned, Settled, Owed, OwningPcs
  <1> QED BY <1>1, <1>2, <1>3

(* A step that moves thread r. *)
LEMMA RunnerStepKeeps ==
    ASSUME IInv, NEW r \in Runners, NEW pcs \in SUBSET RunnerPcs, RunnerMoved(r, pcs),
           UNCHANGED caller, Settled,
           \A k \in Owed' : k \in Owed,
           runner[r].pc \in {"resolve", "failure"} =>
             \/ runner'[r].pc \in {"resolve", "failure"} /\ runner'[r].key = runner[r].key
             \/ runner[r].key \notin Owed'
    PROVE  Shapes' /\ RefreshTypeOK' /\ MarkIsOwned'
  <1>1. Shapes'
    BY DEF IInv, Shapes, Settled, RunnerMoved
  <1>2. RefreshTypeOK'
    <2>1. \A q \in Runners : /\ runner'[q].pc \in RunnerPcs
                             /\ runner'[q].pc # "idle" => runner'[q].key \in CacheKeys
      BY DEF IInv, SlotsReturned, RefreshTypeOK, RunnerMoved
    <2> QED BY <2>1 DEF IInv, SlotsReturned, RefreshTypeOK, Settled
  <1>3. MarkIsOwned'
    <2>1. ASSUME NEW k \in Owed'
          PROVE  \/ \E d \in Callers : caller'[d].pc \in OwningPcs /\ caller'[d].key = k
                 \/ \E q \in Runners : runner'[q].pc \in {"resolve", "failure"} /\ runner'[q].key = k
      <3>1. \/ \E d \in Callers : caller[d].pc \in OwningPcs /\ caller[d].key = k
            \/ \E q \in Runners : runner[q].pc \in {"resolve", "failure"} /\ runner[q].key = k
        BY <2>1 DEF IInv, MarkIsOwned, Owed, OwningPcs
      <3>2. ASSUME NEW q \in Runners, runner[q].pc \in {"resolve", "failure"}, runner[q].key = k
            PROVE  runner'[q].pc \in {"resolve", "failure"} /\ runner'[q].key = k
        <4>1. CASE q = r
          BY <2>1, <3>2, <4>1
        <4>2. CASE q # r
          BY <3>2, <4>2 DEF RunnerMoved
        <4> QED BY <4>1, <4>2
      <3> QED BY <3>1, <3>2
    <2> QED BY <2>1 DEF MarkIsOwned, Settled, Owed, OwningPcs
  <1> QED BY <1>1, <1>2, <1>3

(* Taking a mark off settles its key, and leaves the other marks alone. *)
LEMMA ClearsFacts ==
    ASSUME IInv, NEW k \in CacheKeys, Clears(k)
    PROVE  /\ lost' \in [keys : SUBSET CacheKeys, slots : Nat] /\ lost'.slots = lost.slots
           /\ marked' \subseteq marked /\ k \notin marked'
           /\ k \notin Owed' /\ \A q \in Owed' : q \in Owed
  BY DEF IInv, Shapes, Clears, Owed

-----------------------------------------------------------------------------
(* The callers' steps *)

(* The numbers SlotsReturned is about. *)
LEMMA Numbers ==
    ASSUME IInv
    PROVE  /\ Cardinality(HoldingCallers) \in Nat /\ Cardinality(LiveRunners) \in Nat
           /\ lost.slots \in Nat /\ refreshing \in Nat /\ MaxRefreshes \in Nat
           /\ refreshing = Cardinality(HoldingCallers) + Cardinality(LiveRunners) + lost.slots
           /\ refreshing <= MaxRefreshes
  <1>1. lost.slots \in Nat
    BY DEF IInv, Shapes
  <1> QED BY <1>1, HoldersFinite, RefreshAssumption DEF IInv, SlotsReturned, RefreshTypeOK

(* A step that leaves cache, marks, budget and clock alone is settled. *)
LEMMA QuietSettled ==
    ASSUME IInv, UNCHANGED <<cached, marks, budget, now>>, refreshing' \in Nat
    PROVE  Settled /\ Owed' = Owed
  BY DEF IInv, Shapes, SlotsReturned, RefreshTypeOK, MarkIsOwned, Settled, Owed, marks

LEMMA BeginKeeps ==
    ASSUME IInv, NEW c \in Callers, NEW batch \in Batches, Begin(c, batch)
    PROVE  IInv'
  <1>1. Moved(c, {"mark"})
    BY BeginMoves DEF IInv
  <1>2. caller[c].pc = "idle" /\ UNCHANGED <<cached, marks, refreshing, budget, now, runner, lost>>
    BY DEF Begin, marks
  <1>3. Settled /\ Owed' = Owed
    BY <1>2, Numbers, QuietSettled
  <1>4. Shapes' /\ RefreshTypeOK' /\ MarkIsOwned'
    BY <1>1, <1>2, <1>3, CallerStepKeeps DEF CallerPcs, OwningPcs
  <1>5. Cardinality(HoldingCallers') = Cardinality(HoldingCallers) /\ LiveRunners' = LiveRunners
    BY <1>1, <1>2, CallersCounted DEF HoldingPcs, LiveRunners, IInv
  <1> QED BY <1>2, <1>4, <1>5, Numbers DEF IInv, SlotsReturned

LEMMA MarkKeeps ==
    ASSUME IInv, NEW c \in Callers, Mark(c)
    PROVE  IInv'
  <1>1. /\ caller[c].pc = "mark"
        /\ UNCHANGED <<cached, lost, refreshing, budget, now, runner>>
    BY DEF Mark
  <1>2. Shapes /\ RefreshTypeOK /\ caller[c].key \in CacheKeys
    BY <1>1 DEF IInv, SlotsReturned, RefreshTypeOK
  <1>3. CASE caller[c].key \in cached \ marked
    <2>1. marked' = marked \cup {caller[c].key} /\ MoveTo(c, "slot")
      BY <1>3 DEF Mark
    <2>2. Moved(c, {"slot"}) /\ caller'[c].key = caller[c].key /\ caller'[c].pc = "slot"
      BY <1>1, <1>2, <2>1, GotoMoves DEF CallerPcs, Moved
    <2>3. Settled
      BY <1>1, <1>3, <2>1 DEF IInv, Shapes, SlotsReturned, RefreshTypeOK, MarkIsOwned, Settled
    <2>4. \A k \in Owed' : k \in Owed \/ k = caller[c].key
      BY <1>1, <2>1 DEF Owed
    <2>5. Shapes' /\ RefreshTypeOK' /\ MarkIsOwned'
      BY <1>1, <2>2, <2>3, <2>4, CallerStepKeeps DEF CallerPcs, OwningPcs
    <2>6. Cardinality(HoldingCallers') = Cardinality(HoldingCallers) /\ LiveRunners' = LiveRunners
      BY <1>1, <1>2, <2>2, CallersCounted DEF HoldingPcs, LiveRunners
    <2> QED BY <1>1, <2>5, <2>6, Numbers DEF IInv, SlotsReturned
  <1>4. CASE caller[c].key \notin cached \ marked
    <2>1. UNCHANGED marked /\ Proceed(c, FALSE)
      BY <1>4 DEF Mark
    <2>2. Moved(c, {"mark", "idle"})
      BY <1>1, <1>2, <2>1, ProceedMoves
    <2>3. Settled /\ Owed' = Owed
      BY <1>1, <2>1, Numbers, QuietSettled DEF marks
    <2>5. Shapes' /\ RefreshTypeOK' /\ MarkIsOwned'
      BY <1>1, <2>2, <2>3, CallerStepKeeps DEF CallerPcs, OwningPcs
    <2>6. Cardinality(HoldingCallers') = Cardinality(HoldingCallers) /\ LiveRunners' = LiveRunners
      BY <1>1, <1>2, <2>2, CallersCounted DEF HoldingPcs, LiveRunners
    <2> QED BY <1>1, <2>5, <2>6, Numbers DEF IInv, SlotsReturned
  <1> QED BY <1>3, <1>4

LEMMA AcquireSlotKeeps ==
    ASSUME IInv, NEW c \in Callers, AcquireSlot(c)
    PROVE  IInv'
  <1>1. caller[c].pc = "slot" /\ UNCHANGED <<cached, marks, budget, now, runner, lost>>
    BY DEF AcquireSlot, marks
  <1>2. Shapes /\ RefreshTypeOK
    BY DEF IInv, SlotsReturned
  <1>3. CASE refreshing >= MaxRefreshes
    <2>1. MoveTo(c, "unmark") /\ refreshing' = refreshing
      BY <1>3 DEF AcquireSlot
    <2>2. Moved(c, {"unmark"}) /\ caller'[c].key = caller[c].key /\ caller'[c].pc = "unmark"
      BY <1>1, <1>2, <2>1, GotoMoves DEF CallerPcs, Moved
    <2>3. Settled /\ Owed' = Owed
      BY <1>1, <2>1, Numbers, QuietSettled
    <2>4. Shapes' /\ RefreshTypeOK' /\ MarkIsOwned'
      BY <1>1, <2>2, <2>3, CallerStepKeeps DEF CallerPcs, OwningPcs
    <2>5. Cardinality(HoldingCallers') = Cardinality(HoldingCallers) /\ LiveRunners' = LiveRunners
      BY <1>1, <1>2, <2>2, CallersCounted DEF HoldingPcs, LiveRunners
    <2> QED BY <1>1, <2>1, <2>4, <2>5, Numbers DEF IInv, SlotsReturned
  <1>4. CASE ~(refreshing >= MaxRefreshes)
    <2>1. MoveTo(c, "budget") /\ refreshing' = refreshing + 1
      BY <1>4 DEF AcquireSlot
    <2>2. Moved(c, {"budget"}) /\ caller'[c].key = caller[c].key /\ caller'[c].pc = "budget"
      BY <1>1, <1>2, <2>1, GotoMoves DEF CallerPcs, Moved
    <2>3. Settled /\ Owed' = Owed
      BY <1>1, <2>1, Numbers, QuietSettled
    <2>4. Shapes' /\ RefreshTypeOK' /\ MarkIsOwned'
      BY <1>1, <2>2, <2>3, CallerStepKeeps DEF CallerPcs, OwningPcs
    <2>5. Cardinality(HoldingCallers') = Cardinality(HoldingCallers) + 1 /\ LiveRunners' = LiveRunners
      BY <1>1, <1>2, <2>2, CallersCounted DEF HoldingPcs, LiveRunners
    <2> QED BY <1>1, <1>4, <2>1, <2>4, <2>5, Numbers DEF IInv, SlotsReturned
  <1> QED BY <1>3, <1>4

LEMMA UnmarkKeeps ==
    ASSUME IInv, NEW c \in Callers, Unmark(c)
    PROVE  IInv'
  <1>1. /\ caller[c].pc = "unmark" /\ Clears(caller[c].key) /\ Proceed(c, FALSE)
        /\ UNCHANGED <<cached, refreshing, budget, now, runner>>
    BY DEF Unmark
  <1>2. Shapes /\ RefreshTypeOK /\ caller[c].key \in CacheKeys
    BY <1>1 DEF IInv, SlotsReturned, RefreshTypeOK
  <1>3. Moved(c, {"mark", "idle"})
    BY <1>1, <1>2, ProceedMoves
  <1>4. Settled
    BY <1>1, <1>2, ClearsFacts DEF IInv, SlotsReturned, RefreshTypeOK, MarkIsOwned, Settled
  <1>5. Shapes' /\ RefreshTypeOK' /\ MarkIsOwned'
    BY <1>1, <1>2, <1>3, <1>4, ClearsFacts, CallerStepKeeps DEF CallerPcs
  <1>6. Cardinality(HoldingCallers') = Cardinality(HoldingCallers) /\ LiveRunners' = LiveRunners
    BY <1>1, <1>2, <1>3, CallersCounted DEF HoldingPcs, LiveRunners
  <1> QED BY <1>1, <1>2, <1>5, <1>6, ClearsFacts, Numbers DEF IInv, SlotsReturned

(* Taking a token keeps the budget's bucket within its capacity. *)
LEMMA BudgetTyped ==
    ASSUME NEW b \in [tokens : 0 .. Capacity, last : Nat], NEW at \in Nat
    PROVE  LET r == Refill(b, Capacity, Rate, at)
           IN  /\ r \in [tokens : 0 .. Capacity, last : Nat]
               /\ Grants(r, 1) => Spend(r, 1) \in [tokens : 0 .. Capacity, last : Nat]
  <1> DEFINE r == Refill(b, Capacity, Rate, at)
             level == b.tokens + Rate * (at - b.last)
  <1>1. Capacity \in Nat /\ Rate \in Nat
    BY RefreshAssumption
  <1>2. r \in [tokens : 0 .. Capacity, last : Nat]
    <2>1. CASE at > b.last
      <3>1. Rate * (at - b.last) \in Nat
        BY <1>1, <2>1
      <3>2. level \in Nat
        BY <3>1
      <3> HIDE DEF level
      <3>3. r = [tokens |-> IF level < Capacity THEN level ELSE Capacity, last |-> at]
        BY <2>1 DEF Refill, level
      <3> QED BY <1>1, <3>2, <3>3
    <2>2. CASE ~(at > b.last)
      BY <2>2 DEF Refill
    <2> QED BY <2>1, <2>2
  <1> HIDE DEF r
  <1>3. Grants(r, 1) => Spend(r, 1) \in [tokens : 0 .. Capacity, last : Nat]
    BY <1>1, <1>2 DEF Grants, Spend
  <1> QED BY <1>2, <1>3 DEF r

LEMMA TakeBudgetKeeps ==
    ASSUME IInv, NEW c \in Callers, TakeBudget(c)
    PROVE  IInv'
  <1> DEFINE b == Refill(budget, Capacity, Rate, now)
             ok == Grants(b, 1)
             p == IF ok THEN "spawn" ELSE "denied"
  <1>1. /\ caller[c].pc = "budget" /\ budget' = (IF ok THEN Spend(b, 1) ELSE b) /\ MoveTo(c, p)
        /\ UNCHANGED <<cached, marks, refreshing, now, runner, lost, marked>>
    BY DEF TakeBudget, marks
  <1>2. Shapes /\ RefreshTypeOK
    BY DEF IInv, SlotsReturned
  <1>3. budget' \in [tokens : 0 .. Capacity, last : Nat]
    BY <1>1, <1>2, BudgetTyped DEF RefreshTypeOK
  <1> HIDE DEF ok
  <1>4. p \in CallerPcs /\ p \in HoldingPcs /\ p \in OwningPcs
    BY DEF CallerPcs, HoldingPcs, OwningPcs
  <1> HIDE DEF p
  <1>5. Moved(c, {p}) /\ caller'[c].key = caller[c].key /\ caller'[c].pc = p
    BY <1>1, <1>2, <1>4, GotoMoves DEF Moved
  <1>6. Settled /\ Owed' = Owed
    BY <1>1, <1>3 DEF IInv, Shapes, SlotsReturned, RefreshTypeOK, MarkIsOwned, Settled, Owed
  <1>7. Shapes' /\ RefreshTypeOK' /\ MarkIsOwned'
    BY <1>1, <1>4, <1>5, <1>6, CallerStepKeeps
  <1>8. Cardinality(HoldingCallers') = Cardinality(HoldingCallers) /\ LiveRunners' = LiveRunners
    <2>1. caller[c].pc \in HoldingPcs /\ {p} \subseteq HoldingPcs
      BY <1>1, <1>4 DEF HoldingPcs
    <2> QED BY <1>1, <1>2, <1>5, <2>1, CallersCounted DEF LiveRunners
  <1> QED BY <1>1, <1>7, <1>8, Numbers DEF IInv, SlotsReturned

LEMMA DeniedKeeps ==
    ASSUME IInv, NEW c \in Callers, Denied(c)
    PROVE  IInv'
  <1>1. /\ caller[c].pc = "denied" /\ Clears(caller[c].key) /\ MoveTo(c, "giveback")
        /\ UNCHANGED <<cached, refreshing, budget, now, runner>>
    BY DEF Denied
  <1>2. Shapes /\ RefreshTypeOK /\ caller[c].key \in CacheKeys
    BY <1>1 DEF IInv, SlotsReturned, RefreshTypeOK
  <1>3. Moved(c, {"giveback"})
    BY <1>1, <1>2, GotoMoves DEF CallerPcs
  <1>4. Settled
    BY <1>1, <1>2, ClearsFacts DEF IInv, SlotsReturned, RefreshTypeOK, MarkIsOwned, Settled
  <1>5. Shapes' /\ RefreshTypeOK' /\ MarkIsOwned'
    BY <1>1, <1>2, <1>3, <1>4, ClearsFacts, CallerStepKeeps DEF CallerPcs
  <1>6. Cardinality(HoldingCallers') = Cardinality(HoldingCallers) /\ LiveRunners' = LiveRunners
    BY <1>1, <1>2, <1>3, CallersCounted DEF HoldingPcs, LiveRunners
  <1> QED BY <1>1, <1>2, <1>5, <1>6, ClearsFacts, Numbers DEF IInv, SlotsReturned

LEMMA GiveBackKeeps ==
    ASSUME IInv, NEW c \in Callers, GiveBack(c)
    PROVE  IInv'
  <1>1. /\ caller[c].pc = "giveback" /\ refreshing' = refreshing - 1 /\ Proceed(c, FALSE)
        /\ UNCHANGED <<cached, marks, budget, now, runner, lost>>
    BY DEF GiveBack, marks
  <1>2. Shapes /\ RefreshTypeOK
    BY DEF IInv, SlotsReturned
  <1>3. Moved(c, {"mark", "idle"})
    BY <1>1, <1>2, ProceedMoves
  <1>4. /\ Cardinality(HoldingCallers') = Cardinality(HoldingCallers) - 1
        /\ Cardinality(HoldingCallers) >= 1 /\ LiveRunners' = LiveRunners
    BY <1>1, <1>2, <1>3, CallersCounted DEF HoldingPcs, LiveRunners
  <1>5. Settled /\ Owed' = Owed
    BY <1>1, <1>4, Numbers, QuietSettled
  <1>6. Shapes' /\ RefreshTypeOK' /\ MarkIsOwned'
    BY <1>1, <1>3, <1>5, CallerStepKeeps DEF CallerPcs, OwningPcs
  <1> QED BY <1>1, <1>4, <1>6, Numbers DEF IInv, SlotsReturned

LEMMA SpawnRefusedKeeps ==
    ASSUME IInv, NEW c \in Callers, SpawnRefused(c)
    PROVE  IInv'
  <1>1. /\ caller[c].pc = "spawn" /\ Proceed(c, TRUE)
        /\ lost' = [keys |-> lost.keys \cup ({caller[c].key} \cap marked), slots |-> lost.slots + 1]
        /\ UNCHANGED <<cached, marked, refreshing, budget, now, runner>>
    BY DEF SpawnRefused
  <1>2. Shapes /\ RefreshTypeOK /\ caller[c].key \in CacheKeys
    BY <1>1 DEF IInv, SlotsReturned, RefreshTypeOK
  <1>3. Moved(c, {"mark", "idle"})
    BY <1>1, <1>2, ProceedMoves
  <1>4. /\ Cardinality(HoldingCallers') = Cardinality(HoldingCallers) - 1
        /\ LiveRunners' = LiveRunners
    BY <1>1, <1>2, <1>3, CallersCounted DEF HoldingPcs, LiveRunners
  <1>5. lost' \in [keys : SUBSET CacheKeys, slots : Nat] /\ lost'.slots = lost.slots + 1
    BY <1>1, <1>2 DEF IInv, Shapes
  <1>6. Settled
    BY <1>1, <1>5 DEF IInv, SlotsReturned, RefreshTypeOK, MarkIsOwned, Settled
  <1>7. Owed' \subseteq Owed /\ caller[c].key \notin Owed'
    BY <1>1 DEF Owed
  <1>8. Shapes' /\ RefreshTypeOK' /\ MarkIsOwned'
    BY <1>1, <1>3, <1>6, <1>7, CallerStepKeeps DEF CallerPcs
  <1> QED BY <1>1, <1>4, <1>5, <1>8, Numbers DEF IInv, SlotsReturned

(* The slot and the mark pass from the caller to the thread it starts. *)
LEMMA SpawnKeeps ==
    ASSUME IInv, NEW c \in Callers, Spawn(c)
    PROVE  IInv'
  <1>1. /\ caller[c].pc = "spawn" /\ Proceed(c, TRUE)
        /\ UNCHANGED <<cached, marks, refreshing, budget, now, lost, marked>>
    BY DEF Spawn, marks
  <1>2. PICK r \in Runners :
             /\ runner[r].pc = "idle"
             /\ runner' = [runner EXCEPT ![r] = [pc |-> "resolve", key |-> caller[c].key]]
    BY DEF Spawn
  <1>3. Shapes /\ RefreshTypeOK /\ caller[c].key \in CacheKeys
    BY <1>1 DEF IInv, SlotsReturned, RefreshTypeOK
  <1>4. Moved(c, {"mark", "idle"})
    BY <1>1, <1>3, ProceedMoves
  <1>5. /\ RunnerMoved(r, {"resolve"})
        /\ runner'[r].pc = "resolve" /\ runner'[r].key = caller[c].key
    BY <1>2, <1>3 DEF RunnerMoved, Shapes, RunnerState, RunnerPcs
  <1>6. Cardinality(HoldingCallers') = Cardinality(HoldingCallers) - 1
    BY <1>1, <1>3, <1>4, CallersCounted DEF HoldingPcs
  <1>7. Cardinality(LiveRunners') = Cardinality(LiveRunners) + 1
    BY <1>2, <1>3, <1>5, RunnersCounted
  <1>8. Settled /\ Owed' = Owed
    BY <1>1, Numbers, QuietSettled
  <1>9. Shapes'
    BY <1>4, <1>5, <1>8 DEF Shapes, Settled, Moved, RunnerMoved
  <1>10. RefreshTypeOK'
    <2>1. \A d \in Callers : /\ caller'[d].pc \in CallerPcs
                             /\ caller'[d].pc # "idle" => caller'[d].key \in CacheKeys
      BY <1>3, <1>4 DEF RefreshTypeOK, Moved, CallerPcs
    <2>2. \A q \in Runners : /\ runner'[q].pc \in RunnerPcs
                             /\ runner'[q].pc # "idle" => runner'[q].key \in CacheKeys
      BY <1>3, <1>5 DEF RefreshTypeOK, RunnerMoved, RunnerPcs
    <2> QED BY <1>8, <2>1, <2>2 DEF RefreshTypeOK, Settled
  <1>11. MarkIsOwned'
    <2>1. ASSUME NEW k \in Owed'
          PROVE  \/ \E d \in Callers : caller'[d].pc \in OwningPcs /\ caller'[d].key = k
                 \/ \E q \in Runners : runner'[q].pc \in {"resolve", "failure"} /\ runner'[q].key = k
      <3>1. \/ \E d \in Callers : caller[d].pc \in OwningPcs /\ caller[d].key = k
            \/ \E q \in Runners : runner[q].pc \in {"resolve", "failure"} /\ runner[q].key = k
        BY <1>8, <2>1 DEF IInv, MarkIsOwned, Owed, OwningPcs
      <3>2. ASSUME NEW q \in Runners, runner[q].pc \in {"resolve", "failure"}
            PROVE  runner'[q] = runner[q]
        BY <1>2, <1>5, <3>2 DEF RunnerMoved
      <3>3. ASSUME NEW d \in Callers, d # c PROVE caller'[d] = caller[d]
        BY <1>4, <3>3 DEF Moved
      <3> QED BY <1>5, <3>1, <3>2, <3>3
    <2> QED BY <1>8, <2>1 DEF MarkIsOwned, Settled, Owed, OwningPcs
  <1> QED BY <1>1, <1>6, <1>7, <1>9, <1>10, <1>11, Numbers DEF IInv, SlotsReturned

-----------------------------------------------------------------------------
(* The threads' steps and the cache's *)

(* Storing or evicting an entry takes its mark off. *)
LEMMA StoreSettles ==
    ASSUME IInv, NEW k \in CacheKeys, Clears(k), cached' \in {cached \cup {k}, cached \ {k}},
           UNCHANGED <<refreshing, budget, now>>
    PROVE  Settled
  BY ClearsFacts DEF IInv, SlotsReturned, RefreshTypeOK, MarkIsOwned, Settled

LEMMA ResolveKeeps ==
    ASSUME IInv, NEW r \in Runners, Resolve(r)
    PROVE  IInv'
  <1>1. runner[r].pc = "resolve" /\ UNCHANGED <<refreshing, budget, now, caller>>
    BY DEF Resolve
  <1>2. Shapes /\ RefreshTypeOK /\ runner[r].key \in CacheKeys
    BY <1>1 DEF IInv, SlotsReturned, RefreshTypeOK
  <1>3. CASE Store(runner[r].key) /\ RunnerGoto(r, "again")
    <2>1. RunnerMoved(r, {"again"})
      BY <1>1, <1>2, <1>3, RunnerGotoMoves DEF RunnerPcs
    <2>2. Settled
      BY <1>1, <1>2, <1>3, StoreSettles DEF Store
    <2>3. Shapes' /\ RefreshTypeOK' /\ MarkIsOwned' /\ lost'.slots = lost.slots
      BY <1>1, <1>2, <1>3, <2>1, <2>2, ClearsFacts, RunnerStepKeeps DEF Store, RunnerPcs
    <2>4. Cardinality(LiveRunners') = Cardinality(LiveRunners) /\ HoldingCallers' = HoldingCallers
      BY <1>1, <1>2, <2>1, RunnersCounted DEF HoldingCallers
    <2> QED BY <1>1, <2>3, <2>4, Numbers DEF IInv, SlotsReturned
  <1>4. CASE RunnerGoto(r, "failure") /\ UNCHANGED <<cached, marks>>
    <2>1. RunnerMoved(r, {"failure"}) /\ runner'[r].key = runner[r].key /\ runner'[r].pc = "failure"
      BY <1>1, <1>2, <1>4, RunnerGotoMoves DEF RunnerPcs, RunnerMoved
    <2>2. Settled /\ Owed' = Owed /\ lost' = lost
      BY <1>1, <1>4, Numbers, QuietSettled DEF marks
    <2>3. Shapes' /\ RefreshTypeOK' /\ MarkIsOwned'
      BY <1>1, <2>1, <2>2, RunnerStepKeeps DEF RunnerPcs
    <2>4. Cardinality(LiveRunners') = Cardinality(LiveRunners) /\ HoldingCallers' = HoldingCallers
      BY <1>1, <1>2, <2>1, RunnersCounted DEF HoldingCallers
    <2> QED BY <1>1, <2>2, <2>3, <2>4, Numbers DEF IInv, SlotsReturned
  <1>5. CASE /\ RunnerGoto(r, "release")
             /\ lost' = [lost EXCEPT !.keys = @ \cup ({runner[r].key} \cap marked)]
             /\ UNCHANGED <<cached, marked>>
    <2>1. RunnerMoved(r, {"release"})
      BY <1>1, <1>2, <1>5, RunnerGotoMoves DEF RunnerPcs
    <2>2. /\ lost' \in [keys : SUBSET CacheKeys, slots : Nat] /\ lost'.slots = lost.slots
          /\ lost'.keys = lost.keys \cup ({runner[r].key} \cap marked)
      BY <1>2, <1>5 DEF Shapes
    <2>3. Settled
      BY <1>1, <1>5, <2>2 DEF IInv, SlotsReturned, RefreshTypeOK, MarkIsOwned, Settled
    <2>4. Owed' \subseteq Owed /\ runner[r].key \notin Owed'
      BY <1>5, <2>2 DEF Owed
    <2>5. Shapes' /\ RefreshTypeOK' /\ MarkIsOwned'
      BY <1>1, <2>1, <2>3, <2>4, RunnerStepKeeps DEF RunnerPcs
    <2>6. Cardinality(LiveRunners') = Cardinality(LiveRunners) /\ HoldingCallers' = HoldingCallers
      BY <1>1, <1>2, <2>1, RunnersCounted DEF HoldingCallers
    <2> QED BY <1>1, <2>2, <2>5, <2>6, Numbers DEF IInv, SlotsReturned
  <1> QED BY <1>3, <1>4, <1>5 DEF Resolve

LEMMA StoreAgainKeeps ==
    ASSUME IInv, NEW r \in Runners, StoreAgain(r)
    PROVE  IInv'
  <1>1. /\ runner[r].pc = "again" /\ Store(runner[r].key) /\ RunnerGoto(r, "release")
        /\ UNCHANGED <<refreshing, budget, now, caller>>
    BY DEF StoreAgain
  <1>2. Shapes /\ RefreshTypeOK /\ runner[r].key \in CacheKeys
    BY <1>1 DEF IInv, SlotsReturned, RefreshTypeOK
  <1>3. RunnerMoved(r, {"release"})
    BY <1>1, <1>2, RunnerGotoMoves DEF RunnerPcs
  <1>4. Settled
    BY <1>1, <1>2, StoreSettles DEF Store
  <1>5. Shapes' /\ RefreshTypeOK' /\ MarkIsOwned' /\ lost'.slots = lost.slots
    BY <1>1, <1>2, <1>3, <1>4, ClearsFacts, RunnerStepKeeps DEF Store, RunnerPcs
  <1>6. Cardinality(LiveRunners') = Cardinality(LiveRunners) /\ HoldingCallers' = HoldingCallers
    BY <1>1, <1>2, <1>3, RunnersCounted DEF HoldingCallers
  <1> QED BY <1>1, <1>5, <1>6, Numbers DEF IInv, SlotsReturned

LEMMA FailureKeeps ==
    ASSUME IInv, NEW r \in Runners, Failure(r)
    PROVE  IInv'
  <1>1. /\ runner[r].pc = "failure" /\ Clears(runner[r].key) /\ RunnerGoto(r, "release")
        /\ UNCHANGED <<cached, refreshing, budget, now, caller>>
    BY DEF Failure
  <1>2. Shapes /\ RefreshTypeOK /\ runner[r].key \in CacheKeys
    BY <1>1 DEF IInv, SlotsReturned, RefreshTypeOK
  <1>3. RunnerMoved(r, {"release"})
    BY <1>1, <1>2, RunnerGotoMoves DEF RunnerPcs
  <1>4. Settled
    BY <1>1, <1>2, ClearsFacts DEF IInv, SlotsReturned, RefreshTypeOK, MarkIsOwned, Settled
  <1>5. Shapes' /\ RefreshTypeOK' /\ MarkIsOwned' /\ lost'.slots = lost.slots
    BY <1>1, <1>2, <1>3, <1>4, ClearsFacts, RunnerStepKeeps DEF RunnerPcs
  <1>6. Cardinality(LiveRunners') = Cardinality(LiveRunners) /\ HoldingCallers' = HoldingCallers
    BY <1>1, <1>2, <1>3, RunnersCounted DEF HoldingCallers
  <1> QED BY <1>1, <1>5, <1>6, Numbers DEF IInv, SlotsReturned

LEMMA ReleaseKeeps ==
    ASSUME IInv, NEW r \in Runners, Release(r)
    PROVE  IInv'
  <1>1. /\ runner[r].pc = "release" /\ refreshing' = refreshing - 1
        /\ runner' = [runner EXCEPT ![r] = Free]
        /\ UNCHANGED <<cached, marks, budget, now, caller, lost>>
    BY DEF Release, marks
  <1>2. Shapes
    BY DEF IInv
  <1>3. RunnerMoved(r, {"idle"})
    BY <1>1, <1>2 DEF RunnerMoved, Shapes, RunnerState, RunnerPcs, Free
  <1>4. /\ Cardinality(LiveRunners') = Cardinality(LiveRunners) - 1
        /\ Cardinality(LiveRunners) >= 1 /\ HoldingCallers' = HoldingCallers
    BY <1>1, <1>2, <1>3, RunnersCounted DEF HoldingCallers
  <1>5. Settled /\ Owed' = Owed
    BY <1>1, <1>4, Numbers, QuietSettled
  <1>6. Shapes' /\ RefreshTypeOK' /\ MarkIsOwned'
    BY <1>1, <1>3, <1>5, RunnerStepKeeps DEF RunnerPcs
  <1> QED BY <1>1, <1>4, <1>6, Numbers DEF IInv, SlotsReturned

(* The cache and the clock move; nobody else does. *)
LEMMA CacheStepKeeps ==
    ASSUME IInv, UNCHANGED <<refreshing, caller, runner>>, Settled, lost'.slots = lost.slots,
           \A k \in Owed' : k \in Owed
    PROVE  IInv'
  <1>1. Shapes' /\ RefreshTypeOK'
    BY DEF IInv, Shapes, SlotsReturned, RefreshTypeOK, Settled
  <1>2. MarkIsOwned'
    BY DEF IInv, MarkIsOwned, Owed, Settled
  <1>3. HoldingCallers' = HoldingCallers /\ LiveRunners' = LiveRunners
    BY DEF HoldingCallers, LiveRunners
  <1> QED BY <1>1, <1>2, <1>3, Numbers DEF IInv, SlotsReturned

LEMMA InitInv == RefreshInit => IInv
  <1> SUFFICES ASSUME RefreshInit PROVE IInv
    OBVIOUS
  <1>1. Shapes
    BY RestingShape DEF RefreshInit, Shapes, Free, RunnerState, RunnerPcs
  <1>2. RefreshTypeOK
    BY RefreshAssumption DEF RefreshInit, RefreshTypeOK, Resting, Free, CallerPcs, RunnerPcs, NewBucket
  <1>3. HoldingCallers = {} /\ LiveRunners = {}
    BY DEF RefreshInit, HoldingCallers, LiveRunners, Resting, Free
  <1>4. SlotsReturned
    BY <1>2, <1>3, FS_EmptySet, RefreshAssumption DEF RefreshInit, SlotsReturned
  <1>5. MarkIsOwned
    BY DEF RefreshInit, MarkIsOwned
  <1> QED BY <1>1, <1>4, <1>5 DEF IInv

LEMMA StepInv == IInv /\ [RefreshNext]_refreshVars => IInv'
  <1> SUFFICES ASSUME IInv, [RefreshNext]_refreshVars PROVE IInv'
    OBVIOUS
  <1>1. ASSUME NEW k \in CacheKeys, ClientStores(k) \/ Evicts(k) PROVE IInv'
    <2>1. /\ Clears(k) /\ cached' \in {cached \cup {k}, cached \ {k}}
          /\ UNCHANGED <<refreshing, budget, now, caller, runner>>
      BY <1>1 DEF ClientStores, Evicts, Store
    <2>2. Settled
      BY <2>1, StoreSettles
    <2> QED BY <2>1, <2>2, ClearsFacts, CacheStepKeeps
  <1>2. CASE SetClock
    <2>1. now' \in Nat /\ UNCHANGED <<cached, marked, lost, refreshing, budget, caller, runner>>
      BY <1>2, RefreshAssumption DEF SetClock, marks
    <2>2. Settled /\ Owed' = Owed
      BY <2>1 DEF IInv, Shapes, SlotsReturned, RefreshTypeOK, MarkIsOwned, Settled, Owed
    <2> QED BY <2>1, <2>2, CacheStepKeeps
  <1>3. ASSUME NEW c \in Callers, NEW batch \in Batches, Begin(c, batch) PROVE IInv'
    BY <1>3, BeginKeeps
  <1>4. ASSUME NEW c \in Callers, CallerStep(c) PROVE IInv'
    BY <1>4, MarkKeeps, AcquireSlotKeeps, UnmarkKeeps, TakeBudgetKeeps, DeniedKeeps,
       GiveBackKeeps, SpawnKeeps, SpawnRefusedKeeps DEF CallerStep
  <1>5. ASSUME NEW r \in Runners, RunnerStep(r) PROVE IInv'
    BY <1>5, ResolveKeeps, StoreAgainKeeps, FailureKeeps, ReleaseKeeps DEF RunnerStep
  <1>6. CASE UNCHANGED refreshVars
    <2>1. UNCHANGED <<cached, marks, marked, lost, refreshing, budget, now, caller, runner>>
      BY <1>6 DEF refreshVars, marks
    <2>2. Settled /\ Owed' = Owed
      BY <2>1, Numbers, QuietSettled
    <2> QED BY <2>1, <2>2, CacheStepKeeps
  <1> QED BY <1>1, <1>2, <1>3, <1>4, <1>5, <1>6 DEF RefreshNext

LEMMA Invariance == RefreshSpec => []IInv
  BY InitInv, StepInv, PTL DEF RefreshSpec

(* No refresh slot leaks and the cap holds: at every moment the counter is at
   most max_concurrent_refreshes and equals the callers that hold a slot plus
   the threads that run plus the threads that could not be started, for every
   interleaving of callers, threads, clients and the cache. *)
THEOREM NoSlotLeaks == RefreshSpec => []SlotsReturned
  <1>1. IInv => SlotsReturned
    BY DEF IInv
  <1> QED BY <1>1, Invariance, PTL

(* No entry is barred from refresh by a mark nobody will take off: a marked
   entry is cached and has a refresh under way, or one of the two recorded
   failures left the mark. *)
THEOREM NoMarkIsOrphaned == RefreshSpec => []MarkIsOwned
  <1>1. IInv => MarkIsOwned
    BY DEF IInv
  <1> QED BY <1>1, Invariance, PTL
=============================================================================
