----------------------------- MODULE FetchSlots -----------------------------
(***************************************************************************)
(* The fetch slots of the Telegram bridge (telegram/slots.go): a mutex, a  *)
(* condition variable, a limit an administrator may change at run time and *)
(* the number of fetches in flight.  Waiters sleep on the condition until  *)
(* a release signals one of them or their context ends.                    *)
(*                                                                         *)
(* Every critical section is one step.  cond.Wait gives the mutex up and   *)
(* falls asleep in one step, and the broadcast of a context that ended     *)
(* needs the mutex: it is a step of its own, some time after the end.      *)
(***************************************************************************)
EXTENDS Naturals, FiniteSets

CONSTANTS Fetchers,   \* the goroutines that may want a slot
          SlotsMax    \* 32 in ClampConcurrentSlots

ASSUME SlotsAssumption == IsFiniteSet(Fetchers) /\ SlotsMax \in Nat \ {0}

VARIABLES limit,      \* fetchSlots.limit
          inFlight,   \* fetchSlots.inFlight
          awake,      \* in acquire, before the test of the loop
          asleep,     \* in cond.Wait
          inside,     \* past acquire, before release
          ended,      \* waiters whose context has ended
          ringing     \* ended contexts whose AfterFunc has not broadcast yet

slotVars == <<limit, inFlight, awake, asleep, inside, ended, ringing>>

SlotsInit(n) ==
  /\ limit = n /\ inFlight = 0
  /\ awake = {} /\ asleep = {} /\ inside = {}
  /\ ended = {} /\ ringing = {}

Outside(p) == p \notin awake \cup asleep \cup inside

\* cond.Broadcast: every sleeper goes back to the test.
Broadcast == awake' = awake \cup asleep /\ asleep' = {}

ClampConcurrentSlots(n) == IF n < 1 THEN 1 ELSE IF n > SlotsMax THEN SlotsMax ELSE n

setLimit(n) ==
  /\ limit' = ClampConcurrentSlots(n)
  /\ Broadcast
  /\ UNCHANGED <<inFlight, inside, ended, ringing>>

SlotWant(p) ==
  /\ Outside(p)
  /\ awake' = awake \cup {p}
  /\ UNCHANGED <<limit, inFlight, asleep, inside, ended, ringing>>

\* stop() on the way out: an AfterFunc that has already started still rings.
Stop(p) == ringing' \in {ringing, ringing \ {p}}

MutSlotOver(p) ==       \* one fetch too many
  /\ p \in awake /\ inFlight <= limit
  /\ inFlight' = inFlight + 1
  /\ awake' = awake \ {p} /\ inside' = inside \cup {p}
  /\ ended' = ended \ {p} /\ Stop(p)
  /\ UNCHANGED <<limit, asleep>>


\* The loop of acquire finds a free slot ...
SlotEnter(p) ==
  /\ p \in awake /\ inFlight < limit
  /\ inFlight' = inFlight + 1
  /\ awake' = awake \ {p} /\ inside' = inside \cup {p}
  /\ ended' = ended \ {p} /\ Stop(p)
  /\ UNCHANGED <<limit, asleep>>

\* ... or none and a context that has ended ...
SlotGiveUp(p) ==
  /\ p \in awake /\ inFlight >= limit /\ p \in ended
  /\ awake' = awake \ {p}
  /\ ended' = ended \ {p} /\ Stop(p)
  /\ UNCHANGED <<limit, inFlight, asleep, inside>>

\* ... or none, and goes to sleep.
SlotSleep(p) ==
  /\ p \in awake /\ inFlight >= limit /\ p \notin ended
  /\ awake' = awake \ {p} /\ asleep' = asleep \cup {p}
  /\ UNCHANGED <<limit, inFlight, inside, ended, ringing>>

\* The context of a waiter ends; its AfterFunc broadcasts later.
SlotEnds(p) ==
  /\ p \in awake \cup asleep /\ p \notin ended
  /\ ended' = ended \cup {p} /\ ringing' = ringing \cup {p}
  /\ UNCHANGED <<limit, inFlight, awake, asleep, inside>>

SlotRing(p) ==
  /\ p \in ringing
  /\ ringing' = ringing \ {p}
  /\ Broadcast
  /\ UNCHANGED <<limit, inFlight, inside, ended>>

\* release signals one sleeper, if there is one.
MutSlotRelease(p) ==    \* a release nobody hears of
  /\ p \in inside
  /\ inFlight' = inFlight - 1 /\ inside' = inside \ {p}
  /\ UNCHANGED <<limit, awake, asleep, ended, ringing>>

SlotRelease(p) ==
  /\ p \in inside
  /\ inFlight' = inFlight - 1 /\ inside' = inside \ {p}
  /\ \/ asleep = {} /\ UNCHANGED <<awake, asleep>>
     \/ \E q \in asleep : awake' = awake \cup {q} /\ asleep' = asleep \ {q}
  /\ UNCHANGED <<limit, ended, ringing>>

SlotsNext == \/ \E p \in Fetchers : \/ SlotWant(p) \/ SlotEnter(p) \/ SlotGiveUp(p) \/ SlotSleep(p)
                                    \/ SlotEnds(p) \/ SlotRing(p) \/ SlotRelease(p)
             \/ \E n \in Nat : setLimit(n)

SlotsSpec == (\E n \in Nat : SlotsInit(ClampConcurrentSlots(n))) /\ [][SlotsNext]_slotVars

(***************************************************************************)
(* Properties                                                              *)
(***************************************************************************)
SlotsTypeOK ==
  /\ limit \in 1..SlotsMax /\ inFlight \in Nat
  /\ awake \subseteq Fetchers /\ asleep \subseteq Fetchers /\ inside \subseteq Fetchers
  /\ ended \subseteq awake \cup asleep /\ ringing \subseteq Fetchers

\* A fetcher is in one place, and inFlight counts the fetches in flight: no
\* path out of a fetch forgets its slot or returns it twice.
SlotsAccounted ==
  /\ awake \cap asleep = {} /\ awake \cap inside = {} /\ asleep \cap inside = {}
  /\ inFlight = Cardinality(inside)

\* No lost wakeup: while somebody sleeps, the slots are all taken or wanted by
\* somebody who is awake, so no poll sleeps through a free slot.
NoLostWakeup == asleep # {} => inFlight + Cardinality(awake) >= limit

\* The counter, the sleepers and the limit fit together at every moment.
SlotsInv == SlotsTypeOK /\ SlotsAccounted /\ NoLostWakeup

FetchLimit == INSTANCE SlotLimit WITH Users <- Fetchers, MaxSize <- SlotsMax,
                                      size <- limit, holders <- inside

\* The slots of acquire and release, with their counter, their sleepers and a
\* limit that changes at run time, are a slot limiter.
SlotsLimit == FetchLimit!LimitSpec

=============================================================================
