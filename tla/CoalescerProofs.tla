--------------------------- MODULE CoalescerProofs ---------------------------
(***************************************************************************)
(* Machine-checked proofs about Coalescer, for any number of threads, keys *)
(* and slots, any table bound and any validation dependencies.             *)
(***************************************************************************)
EXTENDS Coalescer, FiniteSetTheorems, WellFoundedInduction, TLAPS

(* A call past its entry has a key. *)
KeyHeld == \A c \in Calls : frame[c].pc # "idle" => frame[c].key \in Keys

(* A table entry is filed under its key and is finished or still owned. *)
TableOwned ==
    \A k \in Keys : table[k] # NoSlot =>
        /\ slots[table[k]].key = k
        /\ Done(table[k]) \/ \E d \in Calls : Owns(d, table[k])

(* The inductive invariant behind WaiterHasOwner and SlotMatchesKey: both
   depend on what the table hands out, which TableOwned describes. *)
IInv ==
    /\ Typed
    /\ SlotHeld
    /\ KeyHeld
    /\ TableOwned
    /\ WaiterHasOwner
    /\ SlotMatchesKey

(* The calls are pairs, and the call nested in a call is one too. *)
LEMMA CallsFacts ==
    ASSUME NEW c \in Calls
    PROVE  /\ c[1] \in Threads
           /\ c[2] \in {1, 2}
           /\ c = <<c[1], c[2]>>
           /\ Inner(c) \in Calls
           /\ c[2] = 1 => Inner(c) # c
  BY DEF Calls, Inner

(* The frame of a call that is not active. *)
LEMMA IdleFrame == Idle \in Frame
  <1>1. <<>> \in Seq(Keys)
    OBVIOUS
  <1> QED BY <1>1 DEF Idle, Frame, Pcs

LEMMA InitInv == Init => IInv
  <1> SUFFICES ASSUME Init PROVE IInv
    OBVIOUS
  <1>1. Typed
    BY IdleFrame DEF Init, Typed, SlotState
  <1>2. SlotHeld /\ KeyHeld /\ TableOwned /\ WaiterHasOwner /\ SlotMatchesKey
    BY DEF Init, Idle, SlotHeld, KeyHeld, TableOwned, WaiterHasOwner, SlotMatchesKey
  <1> QED BY <1>1, <1>2 DEF IInv

(* What the calls other than c keep in a step of c: program point, key, slot. *)
OthersKeep(c) ==
    \A d \in Calls : d # c => /\ frame'[d].pc = frame[d].pc
                              /\ frame'[d].key = frame[d].key
                              /\ frame'[d].slot = frame[d].slot

(* A call that moves between two points of the same kind (before the claim,
   owing a result, past the publication) disturbs no other call. *)
LEMMA QuietStep ==
    ASSUME IInv, Typed', NEW c \in Calls, OthersKeep(c),
           UNCHANGED <<slots, table>>,
           frame'[c].key = frame[c].key, frame'[c].slot = frame[c].slot,
           \/ frame[c].pc = "claim" /\ frame'[c].pc = "locked"
           \/ frame[c].pc \in OwnerPcs /\ frame'[c].pc \in OwnerPcs
           \/ frame[c].pc = "release" /\ frame'[c].pc = "unlink"
    PROVE  IInv'
  <1>1. \A d \in Calls, s \in Slots : Owns(d, s) => Owns(d, s)'
    BY DEF OthersKeep, Owns, OwnerPcs
  <1>2. SlotHeld' /\ KeyHeld'
    BY DEF IInv, SlotHeld, KeyHeld, OthersKeep, OwnerPcs
  <1>3. TableOwned'
    BY <1>1 DEF IInv, Typed, TableOwned, Done
  <1>4. \A d \in Calls : frame'[d].pc = "wait" => d # c /\ frame[d].pc = "wait"
    BY DEF OthersKeep, OwnerPcs
  <1>5. WaiterHasOwner'
    BY <1>1, <1>4 DEF IInv, WaiterHasOwner, SlotHeld, OthersKeep, Done
  <1>6. SlotMatchesKey'
    BY DEF IInv, SlotMatchesKey, OthersKeep
  <1> QED BY <1>2, <1>3, <1>5, <1>6 DEF IInv

(* A new call starts in a frame that is idle: Request and NestedResolve. *)
LEMMA StartStep ==
    ASSUME IInv, Typed', NEW c \in Calls, OthersKeep(c), NEW k \in Keys,
           UNCHANGED <<slots, table>>,
           frame[c].pc = "idle", frame'[c] = Starting(k)
    PROVE  IInv'
  <1>1. \A d \in Calls, s \in Slots : Owns(d, s) => Owns(d, s)'
    BY DEF OthersKeep, Owns, OwnerPcs
  <1>2. SlotHeld' /\ KeyHeld'
    BY DEF IInv, SlotHeld, KeyHeld, OthersKeep, Starting
  <1>3. TableOwned'
    BY <1>1 DEF IInv, Typed, TableOwned, Done
  <1>4. WaiterHasOwner' /\ SlotMatchesKey'
    BY <1>1 DEF IInv, SlotHeld, WaiterHasOwner, SlotMatchesKey, Done, Starting,
                OthersKeep
  <1> QED BY <1>2, <1>3, <1>4 DEF IInv

(* A call that returns owes nothing: it was parked or it had published. *)
LEMMA ReturnStep ==
    ASSUME IInv, Typed', NEW c \in Calls, OthersKeep(c),
           slots' = slots, \A k \in Keys : table'[k] \in {table[k], NoSlot},
           frame[c].pc \in {"wait", "release", "unlink"}, frame'[c] = Idle
    PROVE  IInv'
  <1>1. \A d \in Calls, s \in Slots : Owns(d, s) => Owns(d, s)'
    BY DEF OthersKeep, Owns, OwnerPcs
  <1>2. SlotHeld' /\ KeyHeld'
    BY DEF IInv, SlotHeld, KeyHeld, OthersKeep, Idle
  <1>3. TableOwned'
    BY <1>1 DEF IInv, Typed, TableOwned, Done
  <1>4. WaiterHasOwner' /\ SlotMatchesKey'
    BY <1>1 DEF IInv, SlotHeld, WaiterHasOwner, SlotMatchesKey, Done, Idle,
                OthersKeep
  <1> QED BY <1>2, <1>3, <1>4 DEF IInv

(* A waiter parks on a slot the table hands out, which TableOwned says is
   filed under the waiter's key and still owned, by somebody else. *)
LEMMA ClaimWaiterInv ==
    ASSUME IInv, NEW c \in Calls, ClaimWaiter(c)
    PROVE  IInv'
  <1> DEFINE s == table[frame[c].key]
  <1>1. frame[c].pc = "locked" /\ frame[c].key \in Keys /\ s \in Slots /\ ~Done(s)
    BY DEF IInv, Typed, KeyHeld, ClaimWaiter, At, Joinable
  <1>2. PICK o \in Calls : Owns(o, s)
    BY <1>1 DEF IInv, TableOwned, ClaimWaiter, Joinable
  <1>3. o # c
    BY <1>1, <1>2 DEF Owns, OwnerPcs
  <1>4. /\ frame'[c].pc = "wait" /\ frame'[c].slot = s
        /\ frame'[c].key = frame[c].key
        /\ \A d \in Calls : d # c => frame'[d] = frame[d]
        /\ UNCHANGED <<slots, table>>
    BY DEF ClaimWaiter, IInv, Typed, Frame
  <1>5. Typed'
    BY <1>1, ZenonT(60) DEF IInv, Typed, ClaimWaiter, Frame, Pcs
  <1>6. \A d \in Calls, r \in Slots : Owns(d, r) => Owns(d, r)'
    BY <1>1, <1>4 DEF Owns, OwnerPcs
  <1>7. SlotHeld' /\ KeyHeld'
    BY <1>1, <1>4 DEF IInv, SlotHeld, KeyHeld
  <1>8. TableOwned'
    BY <1>4, <1>6 DEF IInv, Typed, TableOwned, Done
  <1>9. slots[s].key = frame[c].key
    BY <1>1 DEF IInv, TableOwned, ClaimWaiter, Joinable
  <1> HIDE DEF s
  <1>10. WaiterHasOwner'
    <2> SUFFICES ASSUME NEW d \in Calls, frame'[d].pc = "wait"
                 PROVE  \/ Done(frame[d].slot)'
                        \/ \E e \in Calls : e # d /\ Owns(e, frame[d].slot)'
      BY DEF WaiterHasOwner
    <2>1. CASE d = c
      <3>1. frame[o].pc \in OwnerPcs /\ frame[o].slot = s /\ frame'[o] = frame[o]
        BY <1>2, <1>3, <1>4 DEF Owns
      <3> QED BY <2>1, <3>1, <1>3, <1>4 DEF Owns
    <2>2. CASE d # c
      <3>1. frame'[d] = frame[d] /\ frame[d].slot \in Slots
        BY <2>2, <1>4 DEF IInv, SlotHeld
      <3> QED BY <3>1, <1>4, <1>6 DEF IInv, WaiterHasOwner, Done, Owns
    <2> QED BY <2>1, <2>2
  <1>11. SlotMatchesKey'
    BY <1>4, <1>9 DEF IInv, SlotMatchesKey
  <1> QED BY <1>5, <1>7, <1>8, <1>10, <1>11 DEF IInv

(* The key evicted from a full table is one of the table. *)
LEMMA FirstKeyIn ==
    ASSUME NEW tbl \in [Keys -> Slots \cup {NoSlot}], Inflight(tbl) # {}
    PROVE  FirstKey(tbl) \in Inflight(tbl)
  <1> DEFINE K == Inflight(tbl)
  <1>1. K \subseteq Nat
    BY ConstantsAssumption DEF Inflight
  <1> DEFINE R == {p \in Nat \X Nat : p[1] < p[2]}
  <1>2. IsWellFoundedOn(R, Nat)
    BY NatLessThanWellFounded, Zenon DEF OpToRel
  <1>3. \E k \in K : \A j \in K : <<j, k>> \notin R
    BY <1>1, <1>2, WFMin
  <1>4. \A j, k \in Nat : <<j, k>> \notin R => k <= j
    OBVIOUS
  <1> HIDE DEF R, K
  <1>5. \E k \in K : \A j \in K : k <= j
    BY <1>1, <1>3, <1>4
  <1> QED BY <1>5 DEF FirstKey, K

(* Making room removes entries and adds none, and k itself is not there. *)
LEMMA RoomFacts ==
    ASSUME Typed, NEW k \in Keys
    PROVE  /\ Room(k) \in [Keys -> Slots \cup {NoSlot}]
           /\ Room(k)[k] = NoSlot
           /\ \A j \in Keys : Room(k)[j] \in {table[j], NoSlot}
  BY DEF Room, Typed

(* The slot a new owner gets is referred to by nobody, so no call and no table
   entry sees it change. *)
LEMMA ClaimOwnerInv ==
    ASSUME IInv, NEW c \in Calls, ClaimOwner(c)
    PROVE  IInv'
  <1> DEFINE k == frame[c].key
  <1>1. frame[c].pc = "locked" /\ k \in Keys
    BY DEF IInv, KeyHeld, ClaimOwner, At
  <1>2. PICK s \in FreeSlots :
          /\ slots' = [slots EXCEPT ![s] = [key |-> k, res |-> "none"]]
          /\ table' = [Room(k) EXCEPT ![k] = s]
          /\ frame' = [frame EXCEPT ![c].pc = "own", ![c].slot = s]
    BY DEF ClaimOwner
  <1>3. /\ s \in Slots /\ s # NoSlot
        /\ \A d \in Calls : frame[d].slot # s
        /\ \A j \in Keys : table[j] # s
    BY ConstantsAssumption DEF FreeSlots
  <1>4. /\ \A j \in Keys : j # k => table'[j] \in {table[j], NoSlot}
        /\ table'[k] = s
        /\ table' \in [Keys -> Slots \cup {NoSlot}]
    BY <1>1, <1>2, <1>3, RoomFacts DEF IInv
  <1>5. /\ frame'[c].pc = "own" /\ frame'[c].slot = s /\ frame'[c].key = k
        /\ \A d \in Calls : d # c => frame'[d] = frame[d]
    BY <1>2 DEF IInv, Typed, Frame
  <1>6. /\ slots'[s].key = k
        /\ \A r \in Slots : r # s => slots'[r] = slots[r]
    BY <1>2, <1>3 DEF IInv, Typed
  <1>7. Typed'
    <2>1. slots' \in [Slots -> SlotState]
      BY <1>1, <1>2, <1>3 DEF IInv, Typed, SlotState
    <2>2. frame' \in [Calls -> Frame]
      BY <1>2, <1>3 DEF IInv, Typed, Frame, Pcs
    <2> QED BY <1>4, <2>1, <2>2 DEF IInv, Typed, ClaimOwner
  <1> HIDE DEF k
  <1>8. \A d \in Calls, r \in Slots : Owns(d, r) => Owns(d, r)'
    BY <1>1, <1>5 DEF Owns, OwnerPcs
  <1>9. Owns(c, s)'
    BY <1>5 DEF Owns, OwnerPcs
  <1>10. SlotHeld' /\ KeyHeld'
    BY <1>1, <1>3, <1>5 DEF IInv, SlotHeld, KeyHeld
  <1>11. TableOwned'
    <2> SUFFICES ASSUME NEW j \in Keys, table'[j] # NoSlot
                 PROVE  /\ slots'[table'[j]].key = j
                        /\ \/ Done(table[j])'
                           \/ \E d \in Calls : Owns(d, table[j])'
      BY DEF TableOwned
    <2>1. CASE j = k
      BY <2>1, <1>4, <1>6, <1>9 DEF Owns
    <2>2. CASE j # k
      <3>1. /\ table'[j] = table[j] /\ table[j] \in Slots /\ table[j] # s
            /\ slots'[table[j]] = slots[table[j]]
        BY <2>2, <1>3, <1>4, <1>6 DEF IInv, Typed
      <3>2. Done(table[j]) \/ \E d \in Calls : Owns(d, table[j])
        BY <3>1 DEF IInv, TableOwned
      <3> QED BY <3>1, <3>2, <1>8 DEF IInv, TableOwned, Done, Owns
    <2> QED BY <2>1, <2>2
  <1>12. WaiterHasOwner'
    <2> SUFFICES ASSUME NEW d \in Calls, frame'[d].pc = "wait"
                 PROVE  \/ Done(frame[d].slot)'
                        \/ \E e \in Calls : e # d /\ Owns(e, frame[d].slot)'
      BY DEF WaiterHasOwner
    <2>1. /\ d # c /\ frame'[d] = frame[d] /\ frame[d].slot \in Slots
          /\ slots'[frame[d].slot] = slots[frame[d].slot]
      BY <1>3, <1>5, <1>6 DEF IInv, SlotHeld
    <2> QED BY <2>1, <1>8 DEF IInv, WaiterHasOwner, Done, Owns
  <1>13. SlotMatchesKey'
    <2> SUFFICES ASSUME NEW d \in Calls, frame'[d].slot # NoSlot
                 PROVE  slots'[frame'[d].slot].key = frame'[d].key
      BY DEF SlotMatchesKey
    <2>1. CASE d = c
      BY <2>1, <1>5, <1>6
    <2>2. CASE d # c
      BY <2>2, <1>3, <1>5, <1>6 DEF IInv, Typed, Frame, SlotMatchesKey
    <2> QED BY <2>1, <2>2
  <1> QED BY <1>7, <1>10, <1>11, <1>12, <1>13 DEF IInv

(* The owner stops owing its slot in the step that completes it. *)
LEMMA PublishInv ==
    ASSUME IInv, NEW c \in Calls, Publish(c)
    PROVE  IInv'
  <1> DEFINE s == frame[c].slot
  <1>1. frame[c].pc = "publish" /\ s \in Slots
    BY DEF IInv, SlotHeld, Publish, At
  <1>2. /\ slots' \in [Slots -> SlotState]
        /\ slots'[s].res # "none"
        /\ \A r \in Slots : slots'[r].key = slots[r].key
        /\ \A r \in Slots : Done(r) => slots'[r].res # "none"
    <2>1. PICK x \in {"ok", "err"} : PublishSlot(s, x)
      BY DEF Publish
    <2> QED BY <1>1, <2>1 DEF PublishSlot, Done, IInv, Typed, SlotState
  <1>3. /\ frame'[c].pc = "release" /\ frame'[c].slot = s
        /\ frame'[c].key = frame[c].key
        /\ \A d \in Calls : d # c => frame'[d] = frame[d]
        /\ table' = table
    BY DEF Publish, Goto, IInv, Typed, Frame
  <1>4. Typed'
    BY <1>2 DEF IInv, Typed, Publish, Goto, Frame, Pcs
  <1> HIDE DEF s
  <1>5. SlotHeld' /\ KeyHeld'
    BY <1>1, <1>3 DEF IInv, SlotHeld, KeyHeld
  <1>6. \A d \in Calls, r \in Slots : Owns(d, r) => Owns(d, r)' \/ Done(r)'
    BY <1>1, <1>2, <1>3 DEF Owns, OwnerPcs, Done, s
  <1>7. \A r \in Slots : Done(r) => Done(r)'
    BY <1>2 DEF Done
  <1>8. TableOwned'
    BY <1>2, <1>3, <1>6, <1>7 DEF IInv, Typed, TableOwned, Done
  <1>9. WaiterHasOwner'
    <2> SUFFICES ASSUME NEW d \in Calls, frame'[d].pc = "wait"
                 PROVE  \/ Done(frame[d].slot)'
                        \/ \E e \in Calls : e # d /\ Owns(e, frame[d].slot)'
      BY DEF WaiterHasOwner
    <2>1. frame'[d] = frame[d] /\ frame[d].slot \in Slots
      BY <1>3 DEF IInv, SlotHeld
    <2> QED BY <2>1, <1>6, <1>7 DEF IInv, WaiterHasOwner, Done, Owns
  <1>10. SlotMatchesKey'
    <2>1. \A d \in Calls : /\ frame'[d].slot = frame[d].slot
                           /\ frame'[d].key = frame[d].key
                           /\ frame[d].slot \in Slots \cup {NoSlot}
      BY <1>3 DEF IInv, Typed, Frame, s
    <2> QED BY <1>2, <2>1 DEF IInv, SlotMatchesKey
  <1> QED BY <1>4, <1>5, <1>8, <1>9, <1>10 DEF IInv

(* Every step of the specification, action by action. *)
LEMMA NextInv == IInv /\ [Next]_vars => IInv'
  <1> SUFFICES ASSUME IInv, [Next]_vars PROVE IInv'
    OBVIOUS
  <1> USE DEF IInv
  <1>1. ASSUME NEW t \in Threads, NEW k \in Keys, Request(t, k) PROVE IInv'
    <2>1. <<t, 1>> \in Calls /\ OthersKeep(<<t, 1>>) /\ frame'[<<t, 1>>] = Starting(k)
      BY <1>1 DEF Request, Calls, OthersKeep, Typed
    <2>2. Typed'
      <3>1. Starting(k) \in Frame
        BY DEF Starting, Frame, Pcs
      <3> QED BY <1>1, <3>1 DEF Request, Typed
    <2> QED BY <1>1, <2>1, <2>2, StartStep DEF Request
  <1>2. ASSUME NEW c \in Calls, Lock(c) PROVE IInv'
    BY <1>2, CallsFacts, QuietStep
    DEF Lock, At, Goto, Typed, Frame, Pcs, OthersKeep
  <1>3. ASSUME NEW c \in Calls, ClaimWaiter(c) PROVE IInv'
    BY <1>3, ClaimWaiterInv
  <1>4. ASSUME NEW c \in Calls, ClaimOwner(c) PROVE IInv'
    BY <1>4, ClaimOwnerInv
  <1>5. ASSUME NEW c \in Calls, WaiterWakes(c) PROVE IInv'
    <2>1. Typed' /\ OthersKeep(c) /\ frame'[c] = Idle
      BY <1>5, IdleFrame DEF WaiterWakes, Typed, OthersKeep
    <2> QED BY <1>5, <2>1, ReturnStep DEF WaiterWakes, At
  <1>6. ASSUME NEW c \in Calls, Resolved(c) PROVE IInv'
    BY <1>6, QuietStep
    DEF Resolved, At, Goto, Typed, Frame, Pcs, OthersKeep, OwnerPcs
  <1>7. ASSUME NEW c \in Calls, EnterValidation(c) PROVE IInv'
    <2>1. frame[c].pc = "own" /\ frame[c].key \in Keys
      BY <1>7 DEF EnterValidation, At, KeyHeld
    <2>2. Needs[frame[c].key] \in Seq(Keys)
      BY <2>1, ConstantsAssumption
    <2>3. Typed'
      BY <1>7, <2>2, ZenonT(60) DEF EnterValidation, Typed, Frame, Pcs
    <2>4. /\ OthersKeep(c) /\ frame'[c].pc = "validate"
          /\ frame'[c].key = frame[c].key /\ frame'[c].slot = frame[c].slot
      BY <1>7 DEF EnterValidation, Typed, Frame, OthersKeep
    <2> QED BY <1>7, <2>1, <2>3, <2>4, QuietStep DEF EnterValidation, OwnerPcs
  <1>8. ASSUME NEW c \in Calls, NestedResolve(c) PROVE IInv'
    <2> DEFINE k == Head(frame[c].todo)
    <2>1. k \in Keys /\ Tail(frame[c].todo) \in Seq(Keys)
      BY <1>8 DEF NestedResolve, Typed, Frame
    <2>2. Inner(c) \in Calls /\ Inner(c) # c /\ frame[Inner(c)].pc = "idle"
      BY <1>8, CallsFacts DEF NestedResolve, At, Running
    <2>3. Starting(k) \in Frame
      BY <2>1 DEF Starting, Frame, Pcs
    <2> HIDE DEF k
    <2>4. frame' = [frame EXCEPT ![c].todo = Tail(@), ![Inner(c)] = Starting(k)]
      BY <1>8 DEF NestedResolve, k
    <2>5. Typed'
      <3>1. [frame[c] EXCEPT !.todo = Tail(@)] \in Frame
        BY <2>1 DEF Typed, Frame
      <3>2. frame' \in [Calls -> Frame]
        BY <2>2, <2>3, <2>4, <3>1 DEF Typed
      <3> QED BY <1>8, <3>2 DEF NestedResolve, Typed
    <2>6. OthersKeep(Inner(c)) /\ frame'[Inner(c)] = Starting(k)
      BY <2>2, <2>4 DEF Typed, Frame, OthersKeep
    <2> QED BY <1>8, <2>1, <2>2, <2>5, <2>6, StartStep DEF NestedResolve
  <1>9. ASSUME NEW c \in Calls, LeaveValidation(c) PROVE IInv'
    <2>1. Typed'
      <3>1. <<>> \in Seq(Keys)
        OBVIOUS
      <3> QED BY <1>9, <3>1, ZenonT(60) DEF LeaveValidation, Typed, Frame, Pcs
    <2>2. /\ OthersKeep(c) /\ frame[c].pc = "validate" /\ frame'[c].pc = "publish"
          /\ frame'[c].key = frame[c].key /\ frame'[c].slot = frame[c].slot
      BY <1>9 DEF LeaveValidation, At, Typed, Frame, OthersKeep
    <2> QED BY <1>9, <2>1, <2>2, QuietStep DEF LeaveValidation, OwnerPcs
  <1>10. ASSUME NEW c \in Calls, Publish(c) PROVE IInv'
    BY <1>10, PublishInv
  <1>11. ASSUME NEW c \in Calls, TryRelease(c) PROVE IInv'
    BY <1>11, CallsFacts, QuietStep
    DEF TryRelease, At, Goto, Typed, Frame, Pcs, OthersKeep
  <1>12. ASSUME NEW c \in Calls, ReleaseBusy(c) PROVE IInv'
    <2>1. Typed' /\ OthersKeep(c) /\ frame'[c] = Idle
      BY <1>12, IdleFrame, CallsFacts DEF ReleaseBusy, Returns, Typed, OthersKeep
    <2> QED BY <1>12, <2>1, ReturnStep DEF ReleaseBusy, At
  <1>13. ASSUME NEW c \in Calls, Unlink(c) PROVE IInv'
    <2>1. Typed' /\ OthersKeep(c) /\ frame'[c] = Idle
      BY <1>13, IdleFrame, CallsFacts DEF Unlink, Returns, Typed, OthersKeep
    <2>2. \A k \in Keys : table'[k] \in {table[k], NoSlot}
      BY <1>13 DEF Unlink, Typed
    <2> QED BY <1>13, <2>1, <2>2, ReturnStep DEF Unlink, At
  <1>14. ASSUME NEW c \in Calls, Panic(c) PROVE IInv'
    BY <1>14, CallsFacts DEF Panic, Typed, SlotHeld, KeyHeld, TableOwned,
                  WaiterHasOwner, SlotMatchesKey, Done, Owns
  <1>15. ASSUME UNCHANGED vars PROVE IInv'
    BY <1>15 DEF vars, Typed, SlotHeld, KeyHeld, TableOwned,
                 WaiterHasOwner, SlotMatchesKey, Done, Owns
  <1> QED
    BY <1>1, <1>2, <1>3, <1>4, <1>5, <1>6, <1>7, <1>8, <1>9, <1>10, <1>11,
       <1>12, <1>13, <1>14, <1>15 DEF Next, CallStep

(* IInv holds in every reachable state. *)
THEOREM Inductive == Spec => []IInv
  BY InitInv, NextInv, PTL DEF Spec

(* Types: no step takes a call, a slot or the table outside its domain. *)
THEOREM TypeCorrect == Spec => []TypeOK
  <1>1. IInv => TypeOK
    BY DEF IInv, TypeOK
  <1> QED BY <1>1, Inductive, PTL

(* Owner's contract: whatever is reaped, evicted, unwound or unlinked, the slot
   of a parked call is published or another call still owes it a result. *)
THEOREM NoOrphanedWaiter == Spec => []WaiterHasOwner
  <1>1. IInv => WaiterHasOwner
    BY DEF IInv
  <1> QED BY <1>1, Inductive, PTL

(* A call only ever reads the result of the question it asked. *)
THEOREM OwnQuestion == Spec => []SlotMatchesKey
  <1>1. IInv => SlotMatchesKey
    BY DEF IInv
  <1> QED BY <1>1, Inductive, PTL

-----------------------------------------------------------------------------
(* A nested call is active only while the call around it validates. *)
Nested ==
    \A t \in Threads : frame[<<t, 2>>].pc # "idle" => frame[<<t, 1>>].pc = "validate"

(* GuardExclusive rests on Nested: a nested call finds the flag up. *)
GInv == Typed /\ Nested /\ GuardExclusive

(* A step of one call, or of a call and the one nested in it, keeps GInv when
   it moves neither into nor out of validation. *)
LEMMA GuardQuiet ==
    ASSUME GInv, Typed', validating' = validating, NEW c \in Calls,
           \A d \in Calls : d # c => frame'[d].pc = frame[d].pc,
           frame[c].pc # "validate", frame'[c].pc # "validate",
           frame[c].pc = "idle" /\ c[2] = 2 => frame[<<c[1], 1>>].pc = "validate"
    PROVE  GInv'
  <1>1. \A d \in Calls : frame'[d].pc = "validate" <=> frame[d].pc = "validate"
    OBVIOUS
  <1>2. GuardExclusive'
    BY <1>1 DEF GInv, GuardExclusive
  <1>3. Nested'
    <2> SUFFICES ASSUME NEW t \in Threads, frame'[<<t, 2>>].pc # "idle"
                 PROVE  frame'[<<t, 1>>].pc = "validate"
      BY DEF Nested
    <2>1. <<t, 1>> \in Calls /\ <<t, 2>> \in Calls
      BY DEF Calls
    <2>2. CASE c = <<t, 2>> /\ frame[c].pc = "idle"
      BY <2>1, <2>2, <1>1
    <2>3. CASE ~(c = <<t, 2>> /\ frame[c].pc = "idle")
      <3>1. frame[<<t, 2>>].pc # "idle"
        BY <2>1, <2>3
      <3> QED BY <2>1, <3>1, <1>1 DEF GInv, Nested
    <2> QED BY <2>2, <2>3
  <1> QED BY <1>2, <1>3 DEF GInv

LEMMA GuardInit == Init => GInv
  <1> SUFFICES ASSUME Init PROVE GInv
    OBVIOUS
  <1>1. Typed
    BY InitInv DEF IInv
  <1>2. \A t \in Threads : <<t, 2>> \in Calls
    BY DEF Calls
  <1>3. Nested /\ GuardExclusive
    BY <1>2 DEF Init, Idle, Nested, GuardExclusive
  <1> QED BY <1>1, <1>3 DEF GInv

LEMMA GuardNext == GInv /\ Typed' /\ [Next]_vars => GInv'
  <1> SUFFICES ASSUME GInv, Typed', [Next]_vars PROVE GInv'
    OBVIOUS
  <1> USE DEF GInv
  <1>1. ASSUME NEW t \in Threads, NEW k \in Keys, Request(t, k) PROVE GInv'
    <2>1. /\ <<t, 1>> \in Calls /\ frame[<<t, 1>>].pc = "idle"
          /\ frame'[<<t, 1>>].pc = "claim"
          /\ \A d \in Calls : d # <<t, 1>> => frame'[d].pc = frame[d].pc
      BY <1>1 DEF Request, Calls, Typed, Starting
    <2> QED BY <1>1, <2>1, GuardQuiet DEF Request
  <1>2. ASSUME NEW c \in Calls,
               \/ Lock(c) \/ ClaimWaiter(c) \/ ClaimOwner(c) \/ WaiterWakes(c)
               \/ Resolved(c) \/ Publish(c) \/ TryRelease(c) \/ ReleaseBusy(c)
               \/ Unlink(c)
        PROVE  GInv'
    <2>1. /\ frame[c].pc \notin {"idle", "validate"} /\ validating' = validating
          /\ frame'[c].pc # "validate"
          /\ \A d \in Calls : d # c => frame'[d].pc = frame[d].pc
      BY <1>2 DEF Lock, ClaimWaiter, ClaimOwner, WaiterWakes, Resolved, Publish,
                  TryRelease, ReleaseBusy, Unlink, At, Goto, Returns, Idle,
                  Typed, Frame
    <2> QED BY <2>1, GuardQuiet
  <1>3. ASSUME NEW c \in Calls, EnterValidation(c) PROVE GInv'
    <2>1. /\ ~validating /\ validating' /\ frame'[c].pc = "validate"
          /\ \A d \in Calls : d # c => frame'[d].pc = frame[d].pc
      BY <1>3 DEF EnterValidation, Typed, Frame
    <2>2. \A d \in Calls : frame[d].pc # "validate"
      BY <2>1 DEF GuardExclusive
    <2>3. \A t \in Threads : frame[<<t, 2>>].pc = "idle"
      BY <2>2 DEF Nested, Calls
    <2>4. c[2] = 1
      BY <1>3, <2>3, CallsFacts DEF EnterValidation, At
    <2>5. GuardExclusive'
      BY <2>1, <2>2, <2>4 DEF GuardExclusive
    <2>6. Nested'
      BY <2>1, <2>3, <2>4 DEF Nested, Calls
    <2> QED BY <2>5, <2>6
  <1>4. ASSUME NEW c \in Calls, NestedResolve(c) PROVE GInv'
    <2>1. /\ Inner(c) \in Calls /\ Inner(c) # c /\ frame[Inner(c)].pc = "idle"
          /\ frame[c].pc = "validate" /\ c = <<c[1], 1>>
      BY <1>4, CallsFacts DEF NestedResolve, At, Running
    <2>2. /\ frame'[Inner(c)].pc = "claim"
          /\ \A d \in Calls : d # Inner(c) => frame'[d].pc = frame[d].pc
      BY <1>4, <2>1 DEF NestedResolve, Typed, Frame, Starting
    <2> QED BY <1>4, <2>1, <2>2, GuardQuiet DEF NestedResolve, Inner
  <1>5. ASSUME NEW c \in Calls, LeaveValidation(c) PROVE GInv'
    <2>1. /\ frame[c].pc = "validate" /\ Running(c)
          /\ ~validating' /\ frame'[c].pc = "publish"
          /\ \A d \in Calls : d # c => frame'[d].pc = frame[d].pc
      BY <1>5 DEF LeaveValidation, At, Typed, Frame
    <2>2. c[2] = 1 /\ c = <<c[1], 1>> /\ frame[<<c[1], 2>>].pc = "idle"
      BY <2>1, CallsFacts DEF Running, Inner, GuardExclusive
    <2>3. GuardExclusive'
      BY <2>1 DEF GuardExclusive
    <2>4. Nested'
      BY <2>1, <2>2 DEF Nested, Calls
    <2> QED BY <2>3, <2>4
  <1>6. ASSUME NEW c \in Calls, Panic(c) PROVE GInv'
    BY <1>6 DEF Panic, Nested, GuardExclusive
  <1>7. ASSUME UNCHANGED vars PROVE GInv'
    BY <1>7 DEF vars, Nested, GuardExclusive
  <1> QED BY <1>1, <1>2, <1>3, <1>4, <1>5, <1>6, <1>7 DEF Next, CallStep

(* Validation never nests and never runs twice at once, and the VALIDATING
   flag is down again as soon as nobody validates, panics included. *)
THEOREM ValidationExclusive == Spec => []GuardExclusive
  <1>1. GInv => GuardExclusive
    BY DEF GInv
  <1>2. Spec => []GInv
    <2>1. IInv => Typed
      BY DEF IInv
    <2> QED BY <2>1, GuardInit, GuardNext, Inductive, PTL DEF Spec
  <1> QED BY <1>1, <1>2, PTL

-----------------------------------------------------------------------------
(* Claiming a key keeps the table within its bound. *)
LEMMA ClaimBounded ==
    ASSUME Typed, TableBounded, NEW k \in Keys, NEW s \in Slots
    PROVE  Cardinality(Inflight([Room(k) EXCEPT ![k] = s])) <= MaxInflight
  <1> DEFINE reaped == [table EXCEPT ![k] = NoSlot]
             R == Inflight(reaped)
             Q == Inflight(Room(k))
  <1>1. reaped \in [Keys -> Slots \cup {NoSlot}] /\ R = Inflight(table) \ {k}
    BY DEF Typed, Inflight
  <1>2. /\ IsFiniteSet(Inflight(table)) /\ Cardinality(Inflight(table)) \in Nat
        /\ IsFiniteSet(R) /\ Cardinality(R) \in Nat
        /\ Cardinality(R) <= Cardinality(Inflight(table))
    <2>1. Inflight(table) \subseteq Keys /\ R \subseteq Inflight(table)
      BY <1>1 DEF Inflight
    <2>2. IsFiniteSet(Inflight(table))
      BY <2>1, ConstantsAssumption, FS_Subset
    <2> QED BY <2>1, <2>2, FS_Subset, FS_CardinalityType
  <1>3. /\ IsFiniteSet(Q) /\ Cardinality(Q) \in Nat
        /\ Cardinality(Q) + 1 <= MaxInflight
    <2>1. CASE Cardinality(R) >= MaxInflight
      <3>1. Cardinality(R) # 0
        BY <2>1, <1>2, ConstantsAssumption
      <3>2. R # {}
        <4> HIDE DEF R
        <4> QED BY <3>1, FS_EmptySet
      <3>3. FirstKey(reaped) \in R
        BY <3>2, <1>1, FirstKeyIn
      <3>4. Q = R \ {FirstKey(reaped)}
        BY <2>1, <3>3, <1>1 DEF Room, Inflight
      <3>5. Cardinality(Inflight(table)) <= MaxInflight
        BY DEF TableBounded
      <3> HIDE DEF Q, R, reaped
      <3>6. IsFiniteSet(Q) /\ Cardinality(Q) = Cardinality(R) - 1
        BY <3>3, <3>4, <1>2, FS_RemoveElement
      <3> QED BY <3>1, <3>5, <3>6, <1>2, ConstantsAssumption
    <2>2. CASE ~(Cardinality(R) >= MaxInflight)
      <3>1. Q = R
        BY <2>2 DEF Room
      <3> HIDE DEF Q, R
      <3> QED BY <2>2, <3>1, <1>2, ConstantsAssumption
    <2> QED BY <2>1, <2>2
  <1>4. Inflight([Room(k) EXCEPT ![k] = s]) = Q \cup {k}
    BY RoomFacts, ConstantsAssumption DEF Inflight
  <1>5. k \notin Q
    BY RoomFacts DEF Inflight
  <1> HIDE DEF Q
  <1>6. Cardinality(Q \cup {k}) = Cardinality(Q) + 1
    BY <1>3, <1>5, FS_AddElement
  <1> QED BY <1>3, <1>4, <1>6

(* The in-flight table never holds more than max_inflight keys. *)
THEOREM InflightBounded == Spec => []TableBounded
  <1>1. Init => TableBounded
    <2> SUFFICES ASSUME Init PROVE TableBounded
      OBVIOUS
    <2>1. Inflight(table) = {}
      BY DEF Init, Inflight
    <2> QED BY <2>1, FS_EmptySet, ConstantsAssumption DEF TableBounded
  <1>2. TableBounded /\ IInv /\ [Next]_vars => TableBounded'
    <2> SUFFICES ASSUME TableBounded, IInv, [Next]_vars PROVE TableBounded'
      OBVIOUS
    <2>1. ASSUME table' = table PROVE TableBounded'
      BY <2>1 DEF TableBounded, Inflight
    <2>2. ASSUME NEW c \in Calls, ClaimOwner(c) PROVE TableBounded'
      <3>1. frame[c].key \in Keys
        BY <2>2 DEF IInv, KeyHeld, ClaimOwner, At
      <3>2. PICK s \in Slots : table' = [Room(frame[c].key) EXCEPT ![frame[c].key] = s]
        BY <2>2 DEF ClaimOwner, FreeSlots
      <3> QED BY <3>1, <3>2, ClaimBounded DEF IInv, TableBounded
    <2>3. ASSUME NEW c \in Calls, Unlink(c) PROVE TableBounded'
      <3>1. Inflight(table') \subseteq Inflight(table) /\ Inflight(table) \subseteq Keys
        BY <2>3 DEF Unlink, Inflight, IInv, Typed
      <3>2. IsFiniteSet(Inflight(table))
        BY <3>1, ConstantsAssumption, FS_Subset
      <3>3. /\ Cardinality(Inflight(table')) <= Cardinality(Inflight(table))
            /\ IsFiniteSet(Inflight(table'))
        BY <3>1, <3>2, FS_Subset
      <3>4. Cardinality(Inflight(table)) \in Nat /\ Cardinality(Inflight(table')) \in Nat
        BY <3>2, <3>3, FS_CardinalityType
      <3> QED BY <3>3, <3>4, ConstantsAssumption DEF TableBounded
    <2> QED BY <2>1, <2>2, <2>3
        DEF Next, CallStep, vars, Request, Lock, ClaimWaiter, WaiterWakes, Resolved,
            EnterValidation, NestedResolve, LeaveValidation, Publish, TryRelease,
            ReleaseBusy, Panic
  <1> QED BY <1>1, <1>2, Inductive, PTL DEF Spec

(* A published result does not change while a call or the table can reach it:
   Slot::publish keeps the first result, and only unreferenced slots are reused. *)
THEOREM ResultStable == Spec => FirstResultWins
  <1>1. IInv /\ [Next]_vars
        => [\A s \in Slots : Done(s) /\ s \notin FreeSlots => slots'[s] = slots[s]]_vars
    <2> SUFFICES ASSUME IInv, Next, NEW s \in Slots, Done(s), s \notin FreeSlots
                 PROVE  slots'[s] = slots[s]
      OBVIOUS
    <2>1. ASSUME NEW c \in Calls, ClaimOwner(c) PROVE slots'[s] = slots[s]
      BY <2>1 DEF ClaimOwner, IInv, Typed
    <2>2. ASSUME NEW c \in Calls, Publish(c) PROVE slots'[s] = slots[s]
      <3>1. PICK x \in {"ok", "err"} : PublishSlot(frame[c].slot, x)
        BY <2>2 DEF Publish
      <3> QED BY <3>1 DEF PublishSlot, IInv, Typed, Done
    <2> QED BY <2>1, <2>2
        DEF Next, CallStep, Request, Lock, ClaimWaiter, WaiterWakes, Resolved,
            EnterValidation, NestedResolve, LeaveValidation, TryRelease,
            ReleaseBusy, Unlink, Panic
  <1> QED BY <1>1, Inductive, PTL DEF Spec, FirstResultWins
=============================================================================
