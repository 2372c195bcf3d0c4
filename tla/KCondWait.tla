------------------------------ MODULE KCondWait ------------------------------
(***************************************************************************)
(* KCondWait (include/KCondWait.h, POSIX build): an event on a mutex and a *)
(* condition variable.  What a thread does while it holds the mutex is one *)
(* step; pthread_cond_wait gives the mutex up and takes it back, so a      *)
(* waiter that slept returns in a step of its own, after others may have   *)
(* run.  As the comment of the class says, an event that resets itself has *)
(* one waiter and is used many times, one that does not has many waiters   *)
(* and is used once.                                                       *)
(***************************************************************************)
EXTENDS Naturals, TLAPS

CONSTANTS
  Waiters,
  Modes,         \* the values of autoreset to look at
  MaxNotices,    \* bound: calls of notice
  MaxWaits,      \* bound: waits of one thread
  Spurious       \* whether the condition variable may wake a thread without a signal

\* What is assumed of the constants.
WaitAssumption ==
  /\ Modes \subseteq BOOLEAN /\ Spurious \subseteq BOOLEAN
  /\ MaxNotices \in Nat /\ MaxWaits \in Nat

VARIABLES
  autoreset, users,   \* the kind of event, and the threads that wait for it
  spurious,      \* the kind of condition variable, one of Spurious
  ev,
  pc,            \* "out", "asleep" in the condition variable, or "woken"
  waits,         \* waits (or tries) of each thread that have returned
  notices,       \* calls of notice
  consumed       \* returns that said the event had come

vars == <<autoreset, users, spurious, ev, pc, waits, notices, consumed>>

Init ==
  /\ autoreset \in Modes /\ spurious \in Spurious
  /\ users \in IF autoreset THEN {{t} : t \in Waiters} ELSE {Waiters}
  /\ ev = FALSE /\ pc = [t \in Waiters |-> "out"]
  /\ waits = [t \in Waiters |-> 0] /\ notices = 0 /\ consumed = 0

Calls(t) == t \in users /\ pc[t] = "out" /\ waits[t] < MaxWaits
Returns(t) == waits' = [waits EXCEPT ![t] = @ + 1]
Same == UNCHANGED <<autoreset, users, spurious, notices>>

\* The event has come: the thread takes it, whatever the kind of event.
TakeNow(t) ==
  /\ Calls(t) /\ ev /\ ev' = FALSE
  /\ Returns(t) /\ consumed' = consumed + 1 /\ UNCHANGED pc /\ Same

Sleeps(t) == ~ev

\* wait() before the event.
FallAsleep(t) ==
  /\ Calls(t) /\ Sleeps(t)
  /\ pc' = [pc EXCEPT ![t] = "asleep"]
  /\ UNCHANGED <<ev, waits, consumed>> /\ Same

\* tryWait() before the event: the nanoseconds of its deadline come out
\* negative, and pthread_cond_timedwait refuses such a deadline at once.
TryFails(t) ==
  /\ Calls(t) /\ ~ev /\ Returns(t)
  /\ UNCHANGED <<ev, pc, consumed>> /\ Same

NeverReset == ev
Reset == IF autoreset THEN FALSE ELSE ev

\* wait() returns from the condition variable with the mutex held again.
Wake(t) ==
  /\ pc[t] = "woken" /\ pc' = [pc EXCEPT ![t] = "out"]
  /\ ev' = Reset
  /\ Returns(t) /\ consumed' = consumed + 1 /\ Same

SpuriousWake(t) ==
  /\ spurious /\ pc[t] = "asleep" /\ pc' = [pc EXCEPT ![t] = "woken"]
  /\ UNCHANGED <<ev, waits, consumed>> /\ Same

Asleep == {t \in Waiters : pc[t] = "asleep"}

\* Whom pthread_cond_signal or pthread_cond_broadcast wakes.
Signalled == IF ~autoreset THEN {Asleep}
             ELSE IF Asleep = {} THEN {{}} ELSE {{t} : t \in Asleep}

notice ==
  /\ notices < MaxNotices /\ notices' = notices + 1 /\ ev' = TRUE
  /\ \E W \in Signalled : pc' = [t \in Waiters |-> IF t \in W THEN "woken" ELSE pc[t]]
  /\ UNCHANGED <<autoreset, users, spurious, waits, consumed>>

Step(t) == TakeNow(t) \/ FallAsleep(t) \/ TryFails(t) \/ Wake(t) \/ SpuriousWake(t)

Next == notice \/ \E t \in Waiters : Step(t)

Spec == Init /\ [][Next]_vars

\* Threads run: one that can take the event, or was woken, does so, one that
\* is not in wait() calls it, and the event is noticed at least once.
Fairness ==
  /\ \A t \in Waiters : WF_vars(TakeNow(t)) /\ WF_vars(Wake(t))
                        /\ WF_vars(FallAsleep(t))
  /\ WF_vars(notice /\ notices = 0)
FairSpec == Spec /\ Fairness

-----------------------------------------------------------------------------
(* Properties.                                                             *)

\* No notice falls between the test of ev and the sleep: while the event is
\* there, no thread it is meant for sleeps on.
NobodySleepsOver == ev => Asleep = {}

\* A thread that waits many times is let through at most once by each notice,
\* also when it was woken by one and another came before it ran.
OncePerNotice == autoreset => consumed <= notices

\* Both: no notice is lost and, unless the system wakes threads on its own, none
\* counts twice.
NoticesCount == NobodySleepsOver /\ (spurious \/ OncePerNotice)

\* "Many waiters, used once": once the event that is not reset was noticed,
\* every thread that waits for it gets through, those that come late too.
EverybodyPasses == ~autoreset => [](notices > 0 => <>(\A t \in users : pc[t] = "out"))

-----------------------------------------------------------------------------
(* NoticesCount for any number of threads, waits and notices.  It is not   *)
(* inductive: a thread that was woken has a return coming to it that is    *)
(* not counted in consumed yet, so the invariant counts the event that is  *)
(* there, or the thread that was woken by it, as one notice more.  That    *)
(* there is at most one of the two needs the promise that an event which   *)
(* resets itself has one waiter.                                           *)

TypeOK ==
  /\ autoreset \in BOOLEAN /\ spurious \in BOOLEAN
  /\ users \subseteq Waiters /\ ev \in BOOLEAN
  /\ pc \in [Waiters -> {"out", "asleep", "woken"}]
  /\ waits \in [Waiters -> Nat] /\ notices \in Nat /\ consumed \in Nat

OneUser == autoreset => \A t \in users, u \in users : t = u

OnlyUsersWait == \A t \in Waiters : pc[t] # "out" => t \in users

\* A return that a notice has paid for and that has not happened yet.
Owed == IF ev \/ \E t \in Waiters : pc[t] = "woken" THEN 1 ELSE 0

Paid == autoreset /\ ~spurious => consumed + Owed <= notices

WaitInv == TypeOK /\ OneUser /\ OnlyUsersWait /\ NobodySleepsOver /\ Paid

LEMMA InitWait == ASSUME WaitAssumption, Init PROVE WaitInv
  <1>1. TypeOK /\ OneUser /\ OnlyUsersWait BY DEF WaitAssumption, Init, TypeOK, OneUser, OnlyUsersWait
  <1>2. NobodySleepsOver BY DEF Init, NobodySleepsOver
  <1>3. Paid BY DEF Init, Paid, Owed
  <1> QED BY <1>1, <1>2, <1>3 DEF WaitInv

\* With one user, a thread that is in wait() is alone there.
LEMMA Alone ==
  ASSUME WaitInv, autoreset, NEW t \in Waiters, NEW u \in Waiters, t \in users, u # t
  PROVE  pc[u] = "out"
  BY DEF WaitInv, OneUser, OnlyUsersWait

LEMMA StepWait ==
  ASSUME WaitInv, NEW t \in Waiters, Step(t)
  PROVE  WaitInv'
  <1> USE DEF WaitInv, TypeOK, Same, Returns
  <1>1. CASE TakeNow(t)
    <2>1. TypeOK'
      <3>1. ev' \in BOOLEAN BY <1>1 DEF TakeNow
      <3>2. waits' \in [Waiters -> Nat] /\ consumed' \in Nat BY <1>1 DEF TakeNow
      <3> QED BY <1>1, <3>1, <3>2 DEF TakeNow
    <2>2. OneUser' /\ OnlyUsersWait' /\ NobodySleepsOver'
      BY <1>1 DEF TakeNow, OneUser, OnlyUsersWait, NobodySleepsOver, Asleep
    <2>3. Paid'
      <3> SUFFICES ASSUME autoreset, ~spurious PROVE consumed' + Owed' <= notices'
        BY <1>1 DEF Paid, TakeNow
      <3>1. \A u \in Waiters : pc[u] = "out"
        BY <1>1, Alone DEF TakeNow, Calls
      <3>2. Owed = 1 /\ Owed' = 0 BY <1>1, <3>1 DEF Owed, TakeNow
      <3> QED BY <1>1, <3>2 DEF Paid, TakeNow
    <2> QED BY <2>1, <2>2, <2>3
  <1>2. CASE FallAsleep(t)
    <2>1. TypeOK' /\ OneUser' /\ OnlyUsersWait' /\ NobodySleepsOver'
      BY <1>2 DEF FallAsleep, Calls, Sleeps, OneUser, OnlyUsersWait, NobodySleepsOver
    <2>2. Owed' = Owed BY <1>2 DEF FallAsleep, Calls, Owed
    <2> QED BY <1>2, <2>1, <2>2 DEF FallAsleep, Paid
  <1>3. CASE TryFails(t)
    <2>1. TypeOK' /\ OneUser' /\ OnlyUsersWait' /\ NobodySleepsOver'
      BY <1>3 DEF TryFails, OneUser, OnlyUsersWait, NobodySleepsOver, Asleep
    <2>2. Owed' = Owed BY <1>3 DEF TryFails, Owed
    <2> QED BY <1>3, <2>1, <2>2 DEF TryFails, Paid
  <1>4. CASE Wake(t)
    <2>1. TypeOK'
      <3>1. ev' \in BOOLEAN BY <1>4 DEF Wake, Reset
      <3>2. waits' \in [Waiters -> Nat] /\ consumed' \in Nat BY <1>4 DEF Wake
      <3>3. pc' \in [Waiters -> {"out", "asleep", "woken"}] BY <1>4 DEF Wake
      <3> QED BY <1>4, <3>1, <3>2, <3>3 DEF Wake
    <2>2. OneUser' /\ OnlyUsersWait' /\ NobodySleepsOver'
      BY <1>4 DEF Wake, Reset, OneUser, OnlyUsersWait, NobodySleepsOver, Asleep
    <2>3. Paid'
      <3> SUFFICES ASSUME autoreset, ~spurious PROVE consumed' + Owed' <= notices'
        BY <1>4 DEF Paid, Wake
      <3>1. t \in users BY <1>4 DEF Wake, OnlyUsersWait
      <3>2. \A u \in Waiters : pc'[u] = "out"
        BY <1>4, <3>1, Alone DEF Wake
      <3>3. Owed = 1 /\ Owed' = 0 BY <1>4, <3>2 DEF Owed, Wake, Reset
      <3> QED BY <1>4, <3>3 DEF Paid, Wake
    <2> QED BY <2>1, <2>2, <2>3
  <1>5. CASE SpuriousWake(t)
    <2>1. TypeOK' /\ OneUser' /\ OnlyUsersWait' /\ NobodySleepsOver'
      BY <1>5 DEF SpuriousWake, OneUser, OnlyUsersWait, NobodySleepsOver, Asleep
    <2> QED BY <1>5, <2>1 DEF SpuriousWake, Paid
  <1> QED BY <1>1, <1>2, <1>3, <1>4, <1>5 DEF Step

LEMMA NoticeWait == ASSUME WaitInv, notice PROVE WaitInv'
  <1> USE DEF WaitInv, TypeOK
  <1>1. PICK W \in Signalled : pc' = [t \in Waiters |-> IF t \in W THEN "woken" ELSE pc[t]]
    BY DEF notice
  <1>2. W \subseteq Asleep /\ (~autoreset => W = Asleep) BY DEF Signalled
  <1>3. Asleep \subseteq W
    <2>1. CASE autoreset
      <3> SUFFICES ASSUME NEW t \in Asleep PROVE t \in W OBVIOUS
      <3>1. PICK u \in Asleep : W = {u} BY <2>1 DEF Signalled
      <3>2. t \in users /\ u \in users BY DEF Asleep, OnlyUsersWait
      <3> QED BY <2>1, <3>1, <3>2 DEF OneUser
    <2> QED BY <1>2, <2>1
  <1>4. TypeOK' BY <1>1 DEF notice
  <1>5. OneUser' /\ OnlyUsersWait'
    BY <1>1, <1>2 DEF notice, OneUser, OnlyUsersWait, Asleep
  <1>6. NobodySleepsOver' BY <1>1, <1>3 DEF NobodySleepsOver, Asleep
  <1>7. Paid'
    <2>1. Owed \in {0, 1} /\ Owed' = 1 BY DEF Owed, notice
    <2> QED BY <2>1 DEF Paid, Owed, notice
  <1> QED BY <1>4, <1>5, <1>6, <1>7

\* An event of KCondWait loses no notice and counts none twice, for any number
\* of threads: while the event is there no thread it is meant for sleeps on, and
\* a thread that waits many times is let through at most once by each notice.
THEOREM NoticeCounted == ASSUME WaitAssumption PROVE Spec => []NoticesCount
  <1>1. Init => WaitInv BY InitWait
  <1>2. WaitInv /\ [Next]_vars => WaitInv'
    <2> SUFFICES ASSUME WaitInv, [Next]_vars PROVE WaitInv' OBVIOUS
    <2>1. CASE notice BY <2>1, NoticeWait
    <2>2. CASE \E t \in Waiters : Step(t) BY <2>2, StepWait
    <2>3. CASE UNCHANGED vars
      BY <2>3 DEF vars, WaitInv, TypeOK, OneUser, OnlyUsersWait, NobodySleepsOver, Asleep, Paid, Owed
    <2> QED BY <2>1, <2>2, <2>3 DEF Next
  <1>3. WaitInv => NoticesCount
    <2> SUFFICES ASSUME WaitInv PROVE NoticesCount OBVIOUS
    <2>1. Owed \in {0, 1} BY DEF Owed
    <2> QED BY <2>1 DEF WaitInv, TypeOK, Paid, NoticesCount, OncePerNotice
  <1> QED BY <1>1, <1>2, <1>3, PTL DEF Spec
=============================================================================
