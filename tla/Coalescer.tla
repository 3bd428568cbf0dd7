------------------------------ MODULE Coalescer ------------------------------
(***************************************************************************)
(* Coalescing of identical in-flight resolutions (src/resolver.rs: Slot,   *)
(* Owner, Inflight, Resolver::resolve_key) together with the re-entrant    *)
(* use DNSSEC validation makes of it (src/dnssec/mod.rs: ValidationGuard,  *)
(* validate_group, key_is_anchored).                                       *)
(*                                                                         *)
(* A thread that resolves a key claims it under the table lock.  The first *)
(* claimant becomes the owner of a fresh slot, later ones park on it.  The *)
(* owner publishes into the slot, wakes the waiters and then removes the   *)
(* key from the table with a try_lock that may fail.  While it owns a key  *)
(* a thread may validate the answer, which resolves further keys (DNSKEY,  *)
(* DS) through the same entry point, on the same thread.                   *)
(***************************************************************************)
EXTENDS Naturals, Sequences, FiniteSets

CONSTANTS
    Threads,      \* worker threads calling Resolver::resolve_key
    Keys,         \* QueryKeys, numbered in BTreeMap order
    Slots,        \* identities of heap-allocated slots (Arc<Slot>)
    MaxInflight,  \* ResolverConfig::max_inflight, after .max(1)
    Needs,        \* Needs[k]: the keys validating an answer of k resolves
    NoThread, NoSlot

ASSUME ConstantsAssumption ==
    /\ Keys \subseteq Nat
    /\ IsFiniteSet(Keys)
    /\ MaxInflight \in Nat \ {0}
    /\ Needs \in [Keys -> Seq(Keys)]
    /\ NoThread \notin Threads
    /\ NoSlot \notin Slots

\* A slot is reused once no Arc to it is left, so this many always suffice.
ASSUME EnoughSlots ==
    Cardinality(Slots) > MaxInflight + 2 * Cardinality(Threads)

VARIABLES
    frame,      \* frame[<<t, n>>]: the n-th nested resolve_key call of thread t
    slots,      \* the shared slots: key and published result
    table,      \* Inflight::slots, NoSlot where the key is absent
    lock,       \* holder of the table mutex
    validating, \* the process-wide VALIDATING flag
    unwinding   \* threads that are unwinding a panic

vars == <<frame, slots, table, lock, validating, unwinding>>

\* The guard bounds nesting: a call and the call its validation makes.
Calls == Threads \X {1, 2}

Pcs == {"idle", "claim", "locked", "wait", "own", "validate", "publish",
        "release", "unlink"}

Frame == [pc : Pcs, key : Keys \cup {0}, slot : Slots \cup {NoSlot},
          todo : Seq(Keys)]

SlotState == [key : Keys \cup {0}, res : {"none", "ok", "err"}]

Idle == [pc |-> "idle", key |-> 0, slot |-> NoSlot, todo |-> <<>>]

Starting(k) == [pc |-> "claim", key |-> k, slot |-> NoSlot, todo |-> <<>>]

Init ==
    /\ frame = [c \in Calls |-> Idle]
    /\ slots = [s \in Slots |-> [key |-> 0, res |-> "none"]]
    /\ table = [k \in Keys |-> NoSlot]
    /\ lock = NoThread
    /\ validating = FALSE
    /\ unwinding = [t \in Threads |-> FALSE]

-----------------------------------------------------------------------------
Inner(c) == <<c[1], 2>>

\* A call runs only while the call nested inside it is not active.
Running(c) == c[2] = 2 \/ frame[Inner(c)].pc = "idle"

At(c, pc) == frame[c].pc = pc /\ Running(c)

Goto(c, pc) == frame' = [frame EXCEPT ![c].pc = pc]

Done(s) == slots[s].res # "none"

\* Slots no frame and no table entry refers to: their Arc count is zero.
FreeSlots == { s \in Slots : /\ \A c \in Calls : frame[c].slot # s
                             /\ \A k \in Keys : table[k] # s }

Inflight(tbl) == { k \in Keys : tbl[k] # NoSlot }

FirstKey(tbl) == CHOOSE k \in Inflight(tbl) : \A j \in Inflight(tbl) : k <= j

\* A client query enters resolve_key past the block list and local answers.
Request(t, k) ==
    /\ frame[<<t, 1>>].pc = "idle"
    /\ frame' = [frame EXCEPT ![<<t, 1>>] = Starting(k)]
    /\ UNCHANGED <<slots, table, lock, validating, unwinding>>

Lock(c) ==
    /\ At(c, "claim")
    /\ lock = NoThread
    /\ lock' = c[1]
    /\ Goto(c, "locked")
    /\ UNCHANGED <<slots, table, validating, unwinding>>

\* The slot that makes the claimant of k a waiter: present and not done.
Joinable(k) == table[k] # NoSlot /\ ~Done(table[k])

ClaimWaiter(c) ==
    /\ At(c, "locked")
    /\ Joinable(frame[c].key)
    /\ lock' = NoThread
    /\ frame' = [frame EXCEPT ![c].pc = "wait", ![c].slot = table[frame[c].key]]
    /\ UNCHANGED <<slots, table, validating, unwinding>>

\* The table after reaping a finished slot of k and making room for k.
Room(k) ==
    LET reaped == [table EXCEPT ![k] = NoSlot]
    IN  IF Cardinality(Inflight(reaped)) >= MaxInflight
        THEN [reaped EXCEPT ![FirstKey(reaped)] = NoSlot]
        ELSE reaped

ClaimOwner(c) ==
    /\ At(c, "locked")
    /\ ~Joinable(frame[c].key)
    /\ \E s \in FreeSlots :
         /\ s = CHOOSE f \in FreeSlots : TRUE
         /\ slots' = [slots EXCEPT ![s] = [key |-> frame[c].key, res |-> "none"]]
         /\ table' = [Room(frame[c].key) EXCEPT ![frame[c].key] = s]
         /\ frame' = [frame EXCEPT ![c].pc = "own", ![c].slot = s]
    /\ lock' = NoThread
    /\ UNCHANGED <<validating, unwinding>>

\* Fault: a waiter that reads an error claims the key again.
WaiterRetries(c) ==
    /\ At(c, "wait")
    /\ Done(frame[c].slot)
    /\ frame' = [frame EXCEPT ![c] = IF slots[frame[c].slot].res = "err"
                                     THEN Starting(frame[c].key) ELSE Idle]
    /\ UNCHANGED <<slots, table, lock, validating, unwinding>>

\* Slot::read returns; the call ends with the published result.
WaiterWakes(c) ==
    /\ At(c, "wait")
    /\ Done(frame[c].slot)
    /\ frame' = [frame EXCEPT ![c] = Idle]
    /\ UNCHANGED <<slots, table, lock, validating, unwinding>>

\* resolve_inner finished without entering validation: an error, an answer
\* that needs none, or a validation slot that is already taken.
Resolved(c) ==
    /\ At(c, "own")
    /\ Goto(c, "publish")
    /\ UNCHANGED <<slots, table, lock, validating, unwinding>>

\* ValidationGuard::enter succeeds.
EnterValidation(c) ==
    /\ At(c, "own")
    /\ ~validating
    /\ ~unwinding[c[1]]
    /\ validating' = TRUE
    /\ frame' = [frame EXCEPT ![c].pc = "validate",
                              ![c].todo = Needs[frame[c].key]]
    /\ UNCHANGED <<slots, table, lock, unwinding>>

\* validate_group / key_is_anchored call Resolver::resolve for the next key.
NestedResolve(c) ==
    /\ At(c, "validate")
    /\ c[2] = 1
    /\ ~unwinding[c[1]]
    /\ frame[c].todo # <<>>
    /\ frame' = [frame EXCEPT ![c].todo = Tail(@),
                              ![Inner(c)] = Starting(Head(frame[c].todo))]
    /\ UNCHANGED <<slots, table, lock, validating, unwinding>>

\* A verdict is reached (possibly before every key was needed) and the guard
\* drops.
LeaveValidation(c) ==
    /\ At(c, "validate")
    /\ validating' = FALSE
    /\ frame' = [frame EXCEPT ![c].pc = "publish", ![c].todo = <<>>]
    /\ UNCHANGED <<slots, table, lock, unwinding>>

\* Fault: Owner has no Drop, so a panic leaves its slot without a result.
PanicWithoutDrop(c) ==
    /\ At(c, "own")
    /\ ~unwinding[c[1]]
    /\ frame' = [frame EXCEPT ![c] = Idle]
    /\ UNCHANGED <<slots, table, lock, validating, unwinding>>

\* The resolution panics.  Unwinding drops the guard and publishes an error on
\* every frame of the thread, by the steps that end a frame normally.
Panic(c) ==
    /\ At(c, "own") \/ At(c, "validate")
    /\ ~unwinding[c[1]]
    /\ unwinding' = [unwinding EXCEPT ![c[1]] = TRUE]
    /\ UNCHANGED <<frame, slots, table, lock, validating>>

\* Slot::publish: the first result wins, done is set and waiters are notified.
PublishSlot(s, r) ==
    slots' = IF Done(s) THEN slots ELSE [slots EXCEPT ![s].res = r]

Publish(c) ==
    /\ At(c, "publish")
    /\ \E r \in {"ok", "err"} :
         /\ unwinding[c[1]] => r = "err"
         /\ PublishSlot(frame[c].slot, r)
    /\ Goto(c, "release")
    /\ UNCHANGED <<table, lock, validating, unwinding>>

\* Where a call goes when it returns: an outermost call ends the unwinding.
Returns(c) ==
    /\ frame' = [frame EXCEPT ![c] = Idle]
    /\ unwinding' = [unwinding EXCEPT ![c[1]] = @ /\ c[2] = 2]

\* Fault: dropping the owner replaces the published result by an error.
TryReleaseAborts(c) ==
    /\ At(c, "release")
    /\ lock = NoThread
    /\ lock' = c[1]
    /\ slots' = [slots EXCEPT ![frame[c].slot].res = "err"]
    /\ Goto(c, "unlink")
    /\ UNCHANGED <<table, validating, unwinding>>

\* Owner::release: try_lock succeeds, or the table is busy and it gives up.
TryRelease(c) ==
    /\ At(c, "release")
    /\ lock = NoThread
    /\ lock' = c[1]
    /\ Goto(c, "unlink")
    /\ UNCHANGED <<slots, table, validating, unwinding>>

ReleaseBusy(c) ==
    /\ At(c, "release")
    /\ lock # NoThread
    /\ Returns(c)
    /\ UNCHANGED <<slots, table, lock, validating>>

\* inflight.slots.remove(&self.key): by key, whatever slot it now holds.
Unlink(c) ==
    /\ At(c, "unlink")
    /\ table' = [table EXCEPT ![frame[c].key] = NoSlot]
    /\ lock' = NoThread
    /\ Returns(c)
    /\ UNCHANGED <<slots, validating>>

CallStep(c) ==
    \/ Lock(c) \/ ClaimWaiter(c) \/ ClaimOwner(c) \/ WaiterWakes(c)
    \/ Resolved(c) \/ EnterValidation(c) \/ NestedResolve(c)
    \/ LeaveValidation(c) \/ Publish(c) \/ TryRelease(c) \/ ReleaseBusy(c)
    \/ Unlink(c)

Next ==
    \/ \E t \in Threads, k \in Keys : Request(t, k)
    \/ \E c \in Calls : CallStep(c) \/ Panic(c)

Spec == Init /\ [][Next]_vars

(* Threads are scheduled, an upstream walk ends (its deadline is finite) and
   the table mutex does not starve a thread that keeps asking for it. *)
Fairness == \A c \in Calls : WF_vars(CallStep(c)) /\ SF_vars(Lock(c))

FairSpec == Spec /\ Fairness

-----------------------------------------------------------------------------
Typed ==
    /\ frame \in [Calls -> Frame]
    /\ slots \in [Slots -> SlotState]
    /\ table \in [Keys -> Slots \cup {NoSlot}]
    /\ lock \in Threads \cup {NoThread}
    /\ validating \in BOOLEAN
    /\ unwinding \in [Threads -> BOOLEAN]

\* Which program points hold a slot: a parked call and a call that owns one.
SlotHeld ==
    \A c \in Calls :
        IF frame[c].pc \in {"idle", "claim", "locked"}
        THEN frame[c].slot = NoSlot
        ELSE frame[c].slot \in Slots /\ frame[c].key \in Keys

(* Every variable has its type, and a call holds a slot exactly when it is
   past the claim. *)
TypeOK == Typed /\ SlotHeld

\* The frames that hold an Owner which has not published yet.
OwnerPcs == {"own", "validate", "publish"}

Owns(c, s) == frame[c].pc \in OwnerPcs /\ frame[c].slot = s

(* Owner's contract: a waiter is never parked on a slot nobody will complete.
   Whatever was evicted, reaped, unwound or unlinked in between, the slot of a
   parked call is published or some other call still owes it a result. *)
WaiterHasOwner ==
    \A c \in Calls : frame[c].pc = "wait" =>
        \/ Done(frame[c].slot)
        \/ \E d \in Calls : d # c /\ Owns(d, frame[c].slot)

(* A parked call waits for its own question: slots are recycled and table
   entries overwritten, yet the slot a call holds is always one of its key. *)
SlotMatchesKey ==
    \A c \in Calls : frame[c].slot # NoSlot => slots[frame[c].slot].key = frame[c].key

(* The in-flight table never exceeds max_inflight, under any interleaving of
   claims with releases that could not take the lock. *)
TableBounded == Cardinality(Inflight(table)) <= MaxInflight

(* The VALIDATING flag is up exactly while one call validates, and that call
   is never a nested one: sub-resolutions skip their own validation, so the
   recursion depth is bounded by two. *)
GuardExclusive ==
    /\ \A c, d \in Calls : frame[c].pc = "validate" /\ frame[d].pc = "validate" => c = d
    /\ validating <=> \E c \in Calls : frame[c].pc = "validate"
    /\ \A c \in Calls : frame[c].pc = "validate" => c[2] = 1

(* Slot::publish is idempotent: a published result stays what it is for as
   long as some call can still read it. *)
FirstResultWins ==
    [][\A s \in Slots : Done(s) /\ s \notin FreeSlots => slots'[s] = slots[s]]_vars

(* Every query that enters resolve_key leaves it again: owners publish, woken
   waiters return, nobody is parked for ever (README: "a waiter cannot hang on
   a slot nobody will fill"). *)
EveryQueryReturns ==
    \A t \in Threads : frame[<<t, 1>>].pc # "idle" ~> frame[<<t, 1>>].pc = "idle"
=============================================================================
