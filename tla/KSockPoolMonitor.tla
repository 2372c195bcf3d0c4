-------------------------- MODULE KSockPoolMonitor --------------------------
(***************************************************************************)
(* Health of one upstream server: requests report errors and successes     *)
(* (KSockPoolHelper::health), a monitor fiber probes the server while the  *)
(* owner asks for it, and disable_flag says whether the server is used.    *)
(*                                                                         *)
(* monitor and disable_flag are bit fields of one 16-bit word, written     *)
(* from several selector threads without a lock: where Torn is TRUE a      *)
(* write is a load and a store of the whole word with steps of others in   *)
(* between; where it is FALSE there is one selector thread.                *)
(***************************************************************************)
EXTENDS Integers, FiniteSets, FiniteSetTheorems, TLAPS

CONSTANTS
  Fibers,       \* monitor fibers
  Requests,     \* requests that use the server
  MaxErrors,    \* the values of max_error_count the owner sets; 0: monitor
  ErrWidth,     \* 2^16: error_count is a uint16_t
  Changes,      \* bound: calls of setErrorTryTime, and times the server goes up or down
  Torn

\* What is assumed of the constants.
MonitorAssumption ==
  /\ MaxErrors \subseteq Nat /\ ErrWidth \in Nat \ {0} /\ Changes \in Nat /\ Torn \in BOOLEAN

VARIABLES
  word,             \* monitor, disable_flag
  store,            \* per actor: the word it has loaded and changed but not stored
  error_count, max_error_count,
  refs, owner,      \* KAtomCountable::refs; where the owner is
  fiber,            \* per monitor fiber
  busy,             \* requests holding an upstream, and so the container
  up,               \* the server answers (environment)
  wanted,           \* the owner's last call asked for monitoring
  changes

vars == <<word, store, error_count, max_error_count, refs, owner, fiber, busy, up, wanted, changes>>

Nothing == [monitor |-> -1, disable_flag |-> -1]
Actors == {"owner"} \cup Fibers \cup Requests

Init ==
  /\ word = [monitor |-> 0, disable_flag |-> 0]
  /\ store = [a \in Actors |-> Nothing]
  /\ error_count = 0 /\ max_error_count = 5
  /\ refs = 1 /\ owner = "idle"
  /\ fiber = [f \in Fibers |-> "none"]
  /\ busy = {} /\ up = TRUE /\ wanted = FALSE /\ changes = 0

\* a writes a bit field; it goes on once the word is stored.
Write(a, field, value) ==
  LET w == [word EXCEPT ![field] = value]
  IN  IF Torn THEN store' = [store EXCEPT ![a] = w] /\ UNCHANGED word
              ELSE word' = w /\ UNCHANGED store

Quiet == UNCHANGED <<word, store>>
Ready(a) == store[a] = Nothing

Store(a) ==
  /\ ~Ready(a) /\ word' = store[a]
  /\ store' = [store EXCEPT ![a] = Nothing]
  /\ UNCHANGED <<error_count, max_error_count, refs, owner, fiber, busy, up, wanted, changes>>

-----------------------------------------------------------------------------
\* setErrorTryTime(max, ..): a positive max stops the monitor, zero starts it,
\* unless monitor says that one is running.
SetErrorTryTime(max) ==
  /\ owner = "idle" /\ Ready("owner") /\ changes < Changes
  /\ changes' = changes + 1
  /\ max_error_count' = max /\ wanted' = (max <= 0)
  /\ IF max > 0 THEN Write("owner", "monitor", 0) /\ UNCHANGED <<owner, refs>>
     ELSE IF word.monitor = 1 THEN Quiet /\ UNCHANGED <<owner, refs>>
     ELSE Write("owner", "monitor", 1) /\ owner' = "starting" /\ refs' = refs + 1
  /\ UNCHANGED <<error_count, fiber, busy, up>>

\* startMonitor creates the fiber.
CreateFiber(f) ==
  /\ owner = "starting" /\ Ready("owner") /\ fiber[f] = "none"
  /\ owner' = "idle" /\ fiber' = [fiber EXCEPT ![f] = "loop"]
  /\ Quiet /\ UNCHANGED <<error_count, max_error_count, refs, busy, up, wanted, changes>>

\* ... or the fiber cannot be created.
CreateFails ==
  /\ owner = "starting" /\ Ready("owner")
  /\ owner' = "idle" /\ refs' = refs - 1 /\ wanted' = FALSE
  /\ Write("owner", "monitor", 0)
  /\ UNCHANGED <<error_count, max_error_count, fiber, busy, up, changes>>

\* remove(): shutdown clears monitor ...
Shutdown ==
  /\ owner = "idle" /\ Ready("owner") /\ owner' = "leaving" /\ wanted' = FALSE
  /\ Write("owner", "monitor", 0)
  /\ UNCHANGED <<error_count, max_error_count, refs, fiber, busy, up, changes>>

\* ... and the owner's reference goes.
RemoveOwner ==
  /\ owner = "leaving" /\ Ready("owner") /\ owner' = "gone" /\ refs' = refs - 1
  /\ Quiet /\ UNCHANGED <<error_count, max_error_count, fiber, busy, up, wanted, changes>>

-----------------------------------------------------------------------------
\* health(Err), and what a failed probe adds to it: disable().
Errs(a, probe) ==
  LET n == (error_count + 1) % ErrWidth
  IN  /\ error_count' = n
      /\ IF n >= max_error_count \/ probe THEN Write(a, "disable_flag", 1) ELSE Quiet

EnableCount(a) == error_count' = 0 /\ Quiet

\* health(Success), and what a good probe does: enable().
Enable(a) == error_count' = 0 /\ Write(a, "disable_flag", 0)

\* The monitor fiber after its sleep: it stops, or tries a new connection.
MonitorProbe(f) ==
  /\ fiber[f] = "loop" /\ Ready(f) /\ word.monitor = 1
  /\ IF up THEN Enable(f) ELSE Errs(f, TRUE)
  /\ UNCHANGED <<max_error_count, refs, owner, fiber, busy, up, wanted, changes>>

\* It leaves the loop, and clears monitor once more; another thread may run
\* in between.
MonitorStopped(f) ==
  /\ fiber[f] = "loop" /\ Ready(f) /\ word.monitor = 0
  /\ fiber' = [fiber EXCEPT ![f] = IF Torn THEN "stopping" ELSE "done"]
  /\ Quiet /\ UNCHANGED <<error_count, max_error_count, refs, owner, busy, up, wanted, changes>>

MonitorClears(f) ==
  /\ fiber[f] = "stopping" /\ fiber' = [fiber EXCEPT ![f] = "done"]
  /\ Write(f, "monitor", 0)
  /\ UNCHANGED <<error_count, max_error_count, refs, owner, busy, up, wanted, changes>>

\* monitor_fiber gives its reference back.
MonitorEnds(f) ==
  /\ fiber[f] = "done" /\ Ready(f)
  /\ fiber' = [fiber EXCEPT ![f] = "none"] /\ refs' = refs - 1
  /\ Quiet /\ UNCHANGED <<error_count, max_error_count, owner, busy, up, wanted, changes>>

-----------------------------------------------------------------------------
\* A request takes an upstream of an enabled server ...
RequestBegins(r) ==
  /\ owner # "gone" /\ r \notin busy /\ Ready(r) /\ word.disable_flag = 0
  /\ busy' = busy \cup {r} /\ refs' = refs + 1
  /\ Quiet /\ UNCHANGED <<error_count, max_error_count, owner, fiber, up, wanted, changes>>

\* ... and reports how it went while it holds it.  A late error may come from a
\* time the server was down.
RequestEnds(r, ok) ==
  /\ r \in busy /\ Ready(r)
  /\ busy' = busy \ {r} /\ refs' = refs - 1
  /\ IF ok THEN Enable(r) ELSE Errs(r, FALSE)
  /\ UNCHANGED <<max_error_count, owner, fiber, up, wanted, changes>>

ServerChanges ==
  /\ changes < Changes /\ changes' = changes + 1 /\ up' = ~up
  /\ Quiet /\ UNCHANGED <<error_count, max_error_count, refs, owner, fiber, busy, wanted>>

Over == refs = 0 /\ UNCHANGED vars

Next ==
  \/ \E max \in MaxErrors : SetErrorTryTime(max)
  \/ \E f \in Fibers : CreateFiber(f) \/ MonitorProbe(f) \/ MonitorStopped(f)
                         \/ MonitorClears(f) \/ MonitorEnds(f)
  \/ CreateFails \/ Shutdown \/ RemoveOwner
  \/ \E r \in Requests : RequestBegins(r) \/ \E ok \in BOOLEAN : RequestEnds(r, ok)
  \/ \E a \in Actors : Store(a)
  \/ ServerChanges
  \/ Over

Spec == Init /\ [][Next]_vars

\* Threads run: stores happen, created fibers run and wake from their sleep.
Fairness ==
  /\ \A a \in Actors : WF_vars(Store(a))
  /\ \A f \in Fibers : WF_vars(MonitorProbe(f) \/ MonitorStopped(f) \/ MonitorClears(f) \/ MonitorEnds(f))
  /\ WF_vars(\E f \in Fibers : CreateFiber(f)) /\ WF_vars(RemoveOwner)
FairSpec == Spec /\ Fairness

-----------------------------------------------------------------------------
\* addRef in startMonitor and release in monitor_fiber pair up however starts
\* and stops interleave: no fiber outlives the container, and nothing leaks.
MonitorRefs ==
  refs = (IF owner = "gone" THEN 0 ELSE 1) + (IF owner = "starting" THEN 1 ELSE 0)
         + Cardinality({f \in Fibers : fiber[f] # "none"}) + Cardinality(busy)

\* Once the owner dropped the container, its monitor fibers stop.
MonitorsEnd == owner = "gone" ~> \A f \in Fibers : fiber[f] = "none"

\* A monitored server that stays up is used again, whatever late errors come.
Recovers ==
  <>[](up /\ busy = {} /\ \E f \in Fibers : fiber[f] = "loop" /\ word.monitor = 1)
    => <>[](word.disable_flag = 0)

\* The fiber leaves its loop because "monitor is stoped" by the owner.
StopsWhenStopped ==
  [][\A f \in Fibers : fiber[f] = "loop" /\ fiber'[f] # "loop" => ~wanted]_vars

-----------------------------------------------------------------------------
(* MonitorRefs for any number of fibers and requests.  Nothing bounds the  *)
(* monitor fibers: a stop and a start may come while the last fiber still  *)
(* sleeps, so the invariant says that those alive are finitely many, and   *)
(* the steps that create and end one change their number by one.           *)

Alive == {f \in Fibers : fiber[f] # "none"}

RefsTyped ==
  /\ fiber \in [Fibers -> {"none", "loop", "stopping", "done"}]
  /\ owner \in {"idle", "starting", "leaving", "gone"}
  /\ busy \subseteq Requests
  /\ IsFiniteSet(Alive) /\ IsFiniteSet(busy)

RefsInv == RefsTyped /\ MonitorRefs

\* Who keeps the container is the same after the step.
SameHolders == UNCHANGED <<refs, owner, fiber, busy>>

LEMMA HoldersKept == ASSUME RefsInv, SameHolders PROVE RefsInv'
  BY DEF RefsInv, RefsTyped, MonitorRefs, SameHolders, Alive

\* A fiber begins, or ends.
LEMMA FiberBegins ==
  ASSUME RefsTyped, NEW f \in Fibers, NEW pc \in {"loop", "stopping", "done"},
         fiber[f] = "none", fiber' = [fiber EXCEPT ![f] = pc]
  PROVE  /\ Alive' = Alive \cup {f} /\ IsFiniteSet(Alive')
         /\ Cardinality(Alive') = Cardinality(Alive) + 1
  <1>1. Alive' = Alive \cup {f} /\ f \notin Alive BY DEF RefsTyped, Alive
  <1> QED BY <1>1, FS_AddElement DEF RefsTyped

LEMMA FiberEnds ==
  ASSUME RefsTyped, NEW f \in Fibers, fiber[f] # "none",
         fiber' = [fiber EXCEPT ![f] = "none"]
  PROVE  /\ Alive' = Alive \ {f} /\ IsFiniteSet(Alive')
         /\ Cardinality(Alive') = Cardinality(Alive) - 1
  <1>1. Alive' = Alive \ {f} /\ f \in Alive BY DEF RefsTyped, Alive
  <1> QED BY <1>1, FS_RemoveElement DEF RefsTyped

\* The step moves a fiber that stays alive.
LEMMA FiberMoves ==
  ASSUME RefsInv, NEW f \in Fibers, NEW pc \in {"loop", "stopping", "done"},
         fiber[f] # "none", fiber' = [fiber EXCEPT ![f] = pc], UNCHANGED <<refs, owner, busy>>
  PROVE  RefsInv'
  <1>1. Alive' = Alive BY DEF RefsInv, RefsTyped, Alive
  <1>2. RefsTyped' BY <1>1 DEF RefsInv, RefsTyped
  <1>3. MonitorRefs' BY <1>1 DEF RefsInv, MonitorRefs, Alive
  <1> QED BY <1>2, <1>3 DEF RefsInv

LEMMA CountsAreNat ==
  ASSUME RefsTyped
  PROVE  Cardinality(Alive) \in Nat /\ Cardinality(busy) \in Nat
  BY FS_CardinalityType DEF RefsTyped

\* MonitorRefs in terms of Alive.
LEMMA RefsOfAlive ==
  MonitorRefs <=>
    refs = (IF owner = "gone" THEN 0 ELSE 1) + (IF owner = "starting" THEN 1 ELSE 0)
           + Cardinality(Alive) + Cardinality(busy)
  BY DEF MonitorRefs, Alive

LEMMA OwnerSteps ==
  ASSUME RefsInv, (\E max \in MaxErrors : SetErrorTryTime(max)) \/ CreateFails \/ RemoveOwner \/ Shutdown
  PROVE  RefsInv'
  <1> USE DEF RefsInv
  <1>1. UNCHANGED <<fiber, busy>> /\ Alive' = Alive
    BY DEF SetErrorTryTime, CreateFails, RemoveOwner, Shutdown, Alive
  <1>2. RefsTyped'
    BY <1>1 DEF RefsTyped, SetErrorTryTime, CreateFails, RemoveOwner, Shutdown
  <1>3. \/ owner = "idle" /\ owner' \in {"idle", "leaving"} /\ refs' = refs
        \/ owner = "idle" /\ owner' = "starting" /\ refs' = refs + 1
        \/ owner = "starting" /\ owner' = "idle" /\ refs' = refs - 1
        \/ owner = "leaving" /\ owner' = "gone" /\ refs' = refs - 1
    BY DEF SetErrorTryTime, CreateFails, RemoveOwner, Shutdown
  <1>4. MonitorRefs' BY <1>1, <1>3, RefsOfAlive, CountsAreNat DEF MonitorRefs, Alive
  <1> QED BY <1>2, <1>4

LEMMA FiberSteps ==
  ASSUME RefsInv, NEW f \in Fibers,
         CreateFiber(f) \/ MonitorProbe(f) \/ MonitorStopped(f) \/ MonitorClears(f) \/ MonitorEnds(f)
  PROVE  RefsInv'
  <1> USE DEF RefsInv
  <1>1. CASE CreateFiber(f)
    <2>1. Alive' = Alive \cup {f} /\ IsFiniteSet(Alive')
          /\ Cardinality(Alive') = Cardinality(Alive) + 1
      BY <1>1, FiberBegins DEF CreateFiber
    <2>2. RefsTyped' BY <1>1, <2>1 DEF RefsTyped, CreateFiber
    <2>3. MonitorRefs' BY <1>1, <2>1, RefsOfAlive, CountsAreNat DEF CreateFiber, MonitorRefs, Alive
    <2> QED BY <2>2, <2>3
  <1>2. CASE MonitorProbe(f)
    BY <1>2, HoldersKept DEF MonitorProbe, SameHolders
  <1>3. CASE MonitorStopped(f)
    BY <1>3, FiberMoves DEF MonitorStopped
  <1>4. CASE MonitorClears(f)
    BY <1>4, FiberMoves DEF MonitorClears
  <1>5. CASE MonitorEnds(f)
    <2>1. Alive' = Alive \ {f} /\ IsFiniteSet(Alive')
          /\ Cardinality(Alive') = Cardinality(Alive) - 1
      BY <1>5, FiberEnds DEF MonitorEnds
    <2>2. RefsTyped' BY <1>5, <2>1 DEF RefsTyped, MonitorEnds
    <2>3. MonitorRefs' BY <1>5, <2>1, RefsOfAlive, CountsAreNat DEF MonitorEnds, MonitorRefs, Alive
    <2> QED BY <2>2, <2>3
  <1> QED BY <1>1, <1>2, <1>3, <1>4, <1>5

LEMMA RequestSteps ==
  ASSUME RefsInv, NEW r \in Requests,
         RequestBegins(r) \/ \E ok \in BOOLEAN : RequestEnds(r, ok)
  PROVE  RefsInv'
  <1> USE DEF RefsInv
  <1>1. UNCHANGED <<fiber, owner>> /\ Alive' = Alive
    BY DEF RequestBegins, RequestEnds, Alive
  <1>2. CASE RequestBegins(r)
    <2>1. IsFiniteSet(busy') /\ Cardinality(busy') = Cardinality(busy) + 1
      BY <1>2, FS_AddElement DEF RequestBegins, RefsTyped
    <2>2. RefsTyped' BY <1>1, <1>2, <2>1 DEF RefsTyped, RequestBegins
    <2>3. MonitorRefs' BY <1>1, <1>2, <2>1, CountsAreNat DEF RequestBegins, MonitorRefs, Alive
    <2> QED BY <2>2, <2>3
  <1>3. CASE \E ok \in BOOLEAN : RequestEnds(r, ok)
    <2>1. IsFiniteSet(busy') /\ Cardinality(busy') = Cardinality(busy) - 1
      BY <1>3, FS_RemoveElement DEF RequestEnds, RefsTyped
    <2>2. RefsTyped' BY <1>1, <1>3, <2>1 DEF RefsTyped, RequestEnds
    <2>3. MonitorRefs' BY <1>1, <1>3, <2>1, CountsAreNat DEF RequestEnds, MonitorRefs, Alive
    <2> QED BY <2>2, <2>3
  <1> QED BY <1>2, <1>3

\* The references of a monitored server's container are those of its owner, of
\* the start of a monitor, of each monitor fiber and of each request, for any
\* number of fibers and requests and however their steps, and the loads and
\* stores of the flags, interleave (addRef in startMonitor, release in
\* monitor_fiber).
THEOREM MonitorKeepsRefs == Spec => []MonitorRefs
  <1>1. Init => RefsInv
    <2> SUFFICES ASSUME Init PROVE RefsInv OBVIOUS
    <2>1. Alive = {} BY DEF Init, Alive
    <2>2. RefsTyped BY <2>1, FS_EmptySet DEF Init, RefsTyped
    <2>3. MonitorRefs BY <2>1, RefsOfAlive, FS_EmptySet DEF Init
    <2> QED BY <2>2, <2>3 DEF RefsInv
  <1>2. RefsInv /\ [Next]_vars => RefsInv'
    <2> SUFFICES ASSUME RefsInv, [Next]_vars PROVE RefsInv' OBVIOUS
    <2>1. CASE (\E max \in MaxErrors : SetErrorTryTime(max)) \/ CreateFails \/ RemoveOwner \/ Shutdown
      BY <2>1, OwnerSteps
    <2>2. CASE \E f \in Fibers : CreateFiber(f) \/ MonitorProbe(f) \/ MonitorStopped(f)
                                 \/ MonitorClears(f) \/ MonitorEnds(f)
      BY <2>2, FiberSteps
    <2>3. CASE \E r \in Requests : RequestBegins(r) \/ \E ok \in BOOLEAN : RequestEnds(r, ok)
      BY <2>3, RequestSteps
    <2>4. CASE (\E a \in Actors : Store(a)) \/ ServerChanges \/ Over \/ UNCHANGED vars
      BY <2>4, HoldersKept DEF Store, ServerChanges, Over, vars, SameHolders
    <2> QED BY <2>1, <2>2, <2>3, <2>4 DEF Next
  <1> QED BY <1>1, <1>2, PTL DEF Spec, RefsInv
=============================================================================
