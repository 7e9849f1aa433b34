------------------------------ MODULE EventBus ------------------------------
(***************************************************************************)
(* modem::EventBus and its RAII handle EventBus::Subscription              *)
(* (src/modem/event_bus.cpp): ids are handed out, owned by at most one     *)
(* Subscription object, moved from object to object and erased with their  *)
(* owner; publish() calls the handlers of the ids it found when it began.  *)
(*                                                                         *)
(* Everything runs on one thread, so the hard part is re-entrance: a       *)
(* handler may subscribe, move, reset or destroy subscriptions (its own    *)
(* included) and may publish again before it returns.                      *)
(***************************************************************************)
EXTENDS Integers, FiniteSets

CONSTANTS
  Handles,    \* names of Subscription objects
  MaxId,      \* bound: the ids handed out are 1..MaxId
  MaxDepth    \* bound: how deep calls of publish() nest

ASSUME MaxIdAssumption == MaxId \in Nat
ASSUME MaxDepthAssumption == MaxDepth \in Nat \ {0}

VARIABLES
  handlers,   \* the keys of handlers_
  nextId,     \* nextId_
  alive,      \* the Subscription objects that exist
  held,       \* id_ of each Subscription, 0 when it holds none (bus_ is null
              \* exactly then)
  depth,      \* number of publish() calls on the stack
  todo,       \* per call: the ids of `ids' the loop has not come to
  running,    \* per call: the id whose handler is being called, or 0
  asked,      \* history, per call: the ids found when the call began
  called      \* history, per call: the ids whose handler was called

vars == <<handlers, nextId, alive, held, depth, todo, running, asked, called>>
busVars == <<handlers, nextId, alive, held>>
callVars == <<depth, todo, running, asked, called>>

Ids == 1..MaxId
Levels == 1..MaxDepth

Init ==
  /\ handlers = {}
  /\ nextId = 1
  /\ alive = {}
  /\ held = [h \in Handles |-> 0]
  /\ depth = 0
  /\ todo = [d \in Levels |-> {}]
  /\ running = [d \in Levels |-> 0]
  /\ asked = [d \in Levels |-> {}]
  /\ called = [d \in Levels |-> {}]

\* publish() itself runs: between two handlers.
BusRuns == depth > 0 /\ running[depth] = 0

\* Code outside publish() runs: nothing is being published, or the innermost
\* publish() is inside a handler.
UserRuns == ~BusRuns

-----------------------------------------------------------------------------
\* Faulty variants, each rejected by a property below: a move assignment that
\* drops its old id without reset() or leaves the id in the moved-from object;
\* publish() calling an id without looking it up or leaving it in the list after
\* the call; nextId_ restarted when the map is empty or incremented too early.
MovedWithoutReset(h, g) ==
  /\ handlers' = handlers
  /\ held' = [held EXCEPT ![h] = held[g], ![g] = 0]

MovedByCopy(h, g) ==
  /\ handlers' = handlers \ {held[h]}
  /\ held' = [held EXCEPT ![h] = held[g]]

FoundAlways(id) == TRUE

RemainingAfterKept(id) == todo[depth]

FreshIdRestarted == IF handlers = {} THEN 1 ELSE nextId

FreshIdTooLate == nextId + 1
-----------------------------------------------------------------------------

\* The state after h takes over what g owns: reset() erases what h owned.
Moved(h, g) ==
  /\ handlers' = handlers \ {held[h]}
  /\ held' = [held EXCEPT ![h] = held[g], ![g] = 0]

\* publish() finds the id among the handlers.
Found(id) == id \in handlers

\* The list of ids after the call of `id'.
RemainingAfter(id) == todo[depth] \ {id}

\* The id handed out by nextId_++.
FreshId == nextId

\* A default-constructed Subscription.
Construct(h) ==
  /\ UserRuns
  /\ h \notin alive
  /\ alive' = alive \union {h}
  /\ held' = [held EXCEPT ![h] = 0]
  /\ UNCHANGED <<handlers, nextId, callVars>>

\* Subscription h = bus.subscribe(handler).
Subscribe(h) ==
  /\ UserRuns
  /\ h \notin alive
  /\ nextId =< MaxId
  /\ nextId' = nextId + 1
  /\ handlers' = handlers \union {FreshId}
  /\ alive' = alive \union {h}
  /\ held' = [held EXCEPT ![h] = FreshId]
  /\ UNCHANGED callVars

\* Subscription h(std::move(g)).
MoveConstruct(h, g) ==
  /\ UserRuns
  /\ h \notin alive /\ g \in alive
  /\ alive' = alive \union {h}
  /\ held' = [held EXCEPT ![h] = held[g], ![g] = 0]
  /\ UNCHANGED <<handlers, nextId, callVars>>

\* h = std::move(g): an assignment to itself does nothing.
MoveAssign(h, g) ==
  /\ UserRuns
  /\ h \in alive /\ g \in alive
  /\ IF h = g THEN UNCHANGED <<handlers, held>> ELSE Moved(h, g)
  /\ UNCHANGED <<nextId, alive, callVars>>

\* h.reset(), and what is left of h.
Release(h) ==
  /\ h \in alive
  /\ handlers' = handlers \ {held[h]}
  /\ held' = [held EXCEPT ![h] = 0]

Reset(h) ==
  /\ UserRuns
  /\ Release(h)
  /\ UNCHANGED <<nextId, alive, callVars>>

\* ~Subscription().
Destroy(h) ==
  /\ UserRuns
  /\ Release(h)
  /\ alive' = alive \ {h}
  /\ UNCHANGED <<nextId, callVars>>

-----------------------------------------------------------------------------
\* publish(event) begins, from outside or from a handler: it copies the ids.
Publish ==
  /\ UserRuns
  /\ depth < MaxDepth
  /\ depth' = depth + 1
  /\ todo' = [todo EXCEPT ![depth + 1] = handlers]
  /\ running' = [running EXCEPT ![depth + 1] = 0]
  /\ asked' = [asked EXCEPT ![depth + 1] = handlers]
  /\ called' = [called EXCEPT ![depth + 1] = {}]
  /\ UNCHANGED busVars

\* The loop comes to an id that is still subscribed and calls its handler.
\* (The map is unordered: any id of the list may come next.)
Call(id) ==
  /\ BusRuns
  /\ id \in todo[depth]
  /\ Found(id)
  /\ todo' = [todo EXCEPT ![depth] = RemainingAfter(id)]
  /\ running' = [running EXCEPT ![depth] = id]
  /\ called' = [called EXCEPT ![depth] = @ \union {id}]
  /\ UNCHANGED <<busVars, depth, asked>>

\* The loop comes to an id whose subscription is gone.
Skip(id) ==
  /\ BusRuns
  /\ id \in todo[depth]
  /\ ~Found(id)
  /\ todo' = [todo EXCEPT ![depth] = @ \ {id}]
  /\ UNCHANGED <<busVars, depth, running, asked, called>>

\* The handler returns to publish().
HandlerReturns ==
  /\ depth > 0
  /\ running[depth] # 0
  /\ running' = [running EXCEPT ![depth] = 0]
  /\ UNCHANGED <<busVars, depth, todo, asked, called>>

\* The list is done: publish() returns.
PublishReturns ==
  /\ BusRuns
  /\ todo[depth] = {}
  /\ depth' = depth - 1
  /\ asked' = [asked EXCEPT ![depth] = {}]
  /\ called' = [called EXCEPT ![depth] = {}]
  /\ UNCHANGED <<busVars, todo, running>>

UserStep ==
  \E h \in Handles :
    \/ Construct(h)
    \/ Subscribe(h)
    \/ \E g \in Handles : MoveConstruct(h, g)
    \/ \E g \in Handles : MoveAssign(h, g)
    \/ Reset(h)
    \/ Destroy(h)

BusStep ==
  \/ Publish
  \/ \E id \in Ids : Call(id)
  \/ \E id \in Ids : Skip(id)
  \/ HandlerReturns
  \/ PublishReturns

Next == UserStep \/ BusStep

Spec == Init /\ [][Next]_vars

-----------------------------------------------------------------------------
TypeOK ==
  /\ handlers \subseteq Ids
  /\ nextId \in 1..(MaxId + 1)
  /\ alive \subseteq Handles
  /\ held \in [Handles -> Ids \union {0}]
  /\ depth \in 0..MaxDepth
  /\ todo \in [Levels -> SUBSET Ids]
  /\ running \in [Levels -> Ids \union {0}]
  /\ asked \in [Levels -> SUBSET Ids]
  /\ called \in [Levels -> SUBSET Ids]

\* RAII: the handlers in the bus are exactly those some living Subscription
\* owns, and no handler has two owners, whatever is moved, reset or destroyed
\* and in whatever order, inside a handler or outside (event_bus.cpp, the five
\* special members).
Ownership ==
  /\ \A id \in handlers : \E h \in alive : held[h] = id
  /\ \A h \in Handles : held[h] # 0 => h \in alive /\ held[h] \in handlers
  /\ \A h, g \in Handles : held[h] = held[g] /\ held[h] # 0 => h = g

\* Every handler found by a publish() and not unsubscribed since is called or
\* will be, none is called twice, and none subscribed since the publish()
\* began: at its end exactly the surviving ones of the beginning were called,
\* nested calls and self-removal included (event_bus.cpp publish).
Delivery ==
  \A d \in 1..depth :
    /\ asked[d] \intersect handlers \subseteq called[d] \union todo[d]
    /\ called[d] \union todo[d] \subseteq asked[d]
    /\ called[d] \intersect todo[d] = {}

\* event_bus.hpp: the callback is not called once its owner is destroyed.
CalledNow(id) == depth' = depth /\ BusRuns /\ running'[depth] = id

NoCallAfterDestroy ==
  [][\A id \in Ids : CalledNow(id) => \E h \in alive : held[h] = id]_vars

\* A running publish() is not fooled by a handler that subscribes: the id of a
\* newcomer is none that any publish() on the stack has in its list, even when
\* all the earlier subscriptions are gone (event_bus.cpp subscribe, publish).
NewcomersWait ==
  [][\A id \in handlers' \ handlers : \A d \in 1..depth : id \notin asked[d]]_vars
=============================================================================
