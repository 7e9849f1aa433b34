--------------------------- MODULE EventBusProofs ---------------------------
(***************************************************************************)
(* The guarantees of modem::EventBus for any set of Subscription objects,  *)
(* any number of ids and any depth of nested publish() calls.              *)
(***************************************************************************)
EXTENDS EventBus, TLAPS

\* The ids in use are behind nextId_.
IdsAreFresh ==
  /\ \A id \in handlers : id < nextId
  /\ \A d \in 1..depth : \A id \in todo[d] \union asked[d] : id < nextId

\* The inductive invariant.  Ownership needs IdsAreFresh for subscribe(): the
\* id handed out is owned by nobody and waits in no list of a running publish().
IInv ==
  /\ TypeOK
  /\ Ownership
  /\ IdsAreFresh
  /\ Delivery

LEMMA InitIInv == Init => IInv
BY MaxIdAssumption, MaxDepthAssumption
DEF Init, IInv, TypeOK, Ownership, IdsAreFresh, Delivery, Ids, Levels

LEMMA StutterIInv == IInv /\ UNCHANGED vars => IInv'
BY DEF vars, IInv, TypeOK, Ownership, IdsAreFresh, Delivery

\* A list of ids made while `handlers' had a handler more is still served when
\* the handler goes, and one subscribed since is not in it.
LEMMA FewerHandlers ==
  ASSUME IdsAreFresh, Delivery, UNCHANGED callVars,
         handlers' \subseteq handlers, nextId' = nextId
  PROVE  IdsAreFresh' /\ Delivery'
BY DEF IdsAreFresh, Delivery, callVars

LEMMA ConstructIInv ==
  ASSUME IInv, NEW h \in Handles, Construct(h)
  PROVE  IInv'
<1> USE DEF IInv, Construct
<1>1. held[h] = 0
  BY DEF Ownership
<1>2. TypeOK' /\ held' = held
  BY <1>1 DEF TypeOK, busVars, callVars
<1>3. Ownership'
  BY <1>1, <1>2 DEF Ownership
<1> QED BY <1>2, <1>3, FewerHandlers

LEMMA SubscribeIInv ==
  ASSUME IInv, NEW h \in Handles, Subscribe(h)
  PROVE  IInv'
<1> USE DEF IInv, Subscribe, FreshId
<1>1. nextId \in Ids /\ nextId' \in 1..(MaxId + 1) /\ nextId \in Nat
  BY MaxIdAssumption DEF TypeOK, Ids
<1>2. TypeOK'
  BY <1>1 DEF TypeOK, callVars
<1>3. nextId \notin handlers /\ held[h] = 0
  BY <1>1 DEF IdsAreFresh, Ownership
<1>4. \A g \in Handles : held'[g] = IF g = h THEN nextId ELSE held[g]
  BY DEF TypeOK
<1>5. \A g \in Handles : held[g] # nextId
  <2>1. nextId # 0
    BY MaxIdAssumption DEF TypeOK
  <2> QED BY <1>3, <2>1 DEF Ownership
<1>6. Ownership'
  <2>1. \A id \in handlers' : \E g \in alive' : held'[g] = id
    BY <1>3, <1>4 DEF Ownership, TypeOK
  <2>2. \A g \in Handles : held'[g] # 0 => g \in alive' /\ held'[g] \in handlers'
    BY <1>4 DEF Ownership
  <2>3. \A g, k \in Handles : held'[g] = held'[k] /\ held'[g] # 0 => g = k
    BY <1>4, <1>5 DEF Ownership
  <2> QED BY <2>1, <2>2, <2>3 DEF Ownership
<1>7. IdsAreFresh'
  BY <1>1 DEF IdsAreFresh, callVars, TypeOK, Ids, Levels
<1>8. Delivery'
  <2>1. \A d \in 1..depth : nextId \notin asked[d]
    BY <1>1 DEF IdsAreFresh
  <2> QED BY <2>1 DEF Delivery, callVars
<1> QED BY <1>2, <1>6, <1>7, <1>8

LEMMA MoveConstructIInv ==
  ASSUME IInv, NEW h \in Handles, NEW g \in Handles, MoveConstruct(h, g)
  PROVE  IInv'
<1> USE DEF IInv, MoveConstruct
<1>1. held[h] = 0 /\ h # g
  BY DEF Ownership
<1>2. \A k \in Handles :
        held'[k] = IF k = g THEN 0 ELSE IF k = h THEN held[g] ELSE held[k]
  BY <1>1 DEF TypeOK
<1>3. TypeOK'
  BY DEF TypeOK, callVars, Ids
<1>4. Ownership'
  <2>1. \A id \in handlers' : \E k \in alive' : held'[k] = id
    BY <1>1, <1>2 DEF Ownership, TypeOK
  <2>2. ASSUME NEW k \in Handles, held'[k] # 0
        PROVE  k \in alive' /\ held'[k] \in handlers'
    <3>1. alive' = alive \union {h} /\ handlers' = handlers
      OBVIOUS
    <3>2. \A m \in Handles : held[m] # 0 => m \in alive /\ held[m] \in handlers
      BY DEF Ownership
    <3>3. CASE k = h
      <4>1. held'[k] = held[g]
        BY <1>1, <1>2, <3>3
      <4> QED BY <2>2, <3>1, <3>2, <3>3, <4>1
    <3>4. CASE k # h
      <4>1. held'[k] = held[k]
        BY <1>2, <2>2, <3>4
      <4> QED BY <2>2, <3>1, <3>2, <4>1
    <3> QED BY <3>3, <3>4
  <2>3. \A k, m \in Handles : held'[k] = held'[m] /\ held'[k] # 0 => k = m
    BY <1>2 DEF Ownership
  <2> QED BY <2>1, <2>2, <2>3 DEF Ownership
<1> QED BY <1>3, <1>4, FewerHandlers

LEMMA MoveAssignIInv ==
  ASSUME IInv, NEW h \in Handles, NEW g \in Handles, MoveAssign(h, g)
  PROVE  IInv'
<1> USE DEF IInv, MoveAssign
<1>1. CASE h = g
  BY <1>1, StutterIInv DEF vars, callVars
<1>2. CASE h # g
  <2>1. handlers' = handlers \ {held[h]}
    BY <1>2 DEF Moved
  <2>2. \A k \in Handles :
          held'[k] = IF k = g THEN 0 ELSE IF k = h THEN held[g] ELSE held[k]
    BY <1>2 DEF Moved, TypeOK
  <2>3. TypeOK'
    BY <1>2, <2>1 DEF Moved, TypeOK, callVars, Ids
  <2>4. Ownership'
    <3>1. \A id \in handlers' : \E k \in alive' : held'[k] = id
      BY <1>2, <2>1, <2>2 DEF Ownership, TypeOK
    <3>2. \A k \in Handles : held'[k] # 0 => k \in alive' /\ held'[k] \in handlers'
      BY <1>2, <2>1, <2>2 DEF Ownership
    <3>3. \A k, m \in Handles : held'[k] = held'[m] /\ held'[k] # 0 => k = m
      BY <1>2, <2>2 DEF Ownership
    <3> QED BY <3>1, <3>2, <3>3 DEF Ownership
  <2> QED BY <2>1, <2>3, <2>4, FewerHandlers
<1> QED BY <1>1, <1>2

LEMMA ReleaseIInv ==
  ASSUME IInv, NEW h \in Handles, Release(h), UNCHANGED <<nextId, callVars>>,
         alive' = alive \/ alive' = alive \ {h}
  PROVE  IInv'
<1> USE DEF IInv, Release
<1>1. \A k \in Handles : held'[k] = IF k = h THEN 0 ELSE held[k]
  BY DEF TypeOK
<1>2. TypeOK'
  BY DEF TypeOK, callVars, Ids
<1>3. Ownership'
  <2>1. \A id \in handlers' : \E k \in alive' : held'[k] = id
    BY <1>1 DEF Ownership, TypeOK
  <2>2. \A k \in Handles : held'[k] # 0 => k \in alive' /\ held'[k] \in handlers'
    BY <1>1 DEF Ownership
  <2>3. \A k, m \in Handles : held'[k] = held'[m] /\ held'[k] # 0 => k = m
    BY <1>1 DEF Ownership
  <2> QED BY <2>1, <2>2, <2>3 DEF Ownership
<1> QED BY <1>2, <1>3, FewerHandlers

LEMMA PublishIInv == ASSUME IInv, Publish PROVE IInv'
<1> USE DEF IInv, Publish, busVars
<1>1. depth + 1 \in Levels /\ depth \in Nat /\ depth' = depth + 1
  BY MaxDepthAssumption DEF TypeOK, Levels
<1>2. TypeOK'
  BY <1>1 DEF TypeOK, Ids, Levels
<1>3. \A d \in Levels :
        /\ todo'[d] = IF d = depth + 1 THEN handlers ELSE todo[d]
        /\ asked'[d] = IF d = depth + 1 THEN handlers ELSE asked[d]
        /\ called'[d] = IF d = depth + 1 THEN {} ELSE called[d]
  BY DEF TypeOK
<1>4. ASSUME NEW d \in 1..depth'
      PROVE  d \in Levels /\ (d = depth + 1 \/ d \in 1..depth)
  BY <1>1, MaxDepthAssumption DEF Levels
<1>5. Ownership'
  BY DEF Ownership
<1>6. IdsAreFresh'
  BY <1>3, <1>4 DEF IdsAreFresh
<1>7. Delivery'
  BY <1>3, <1>4 DEF Delivery
<1> QED BY <1>2, <1>5, <1>6, <1>7

LEMMA CallIInv == ASSUME IInv, NEW id \in Ids, Call(id) PROVE IInv'
<1> USE DEF IInv, Call, busVars, BusRuns, RemainingAfter, Found
<1>1. depth \in Levels /\ depth' = depth
  BY MaxDepthAssumption DEF TypeOK, Levels
<1>2. TypeOK'
  BY <1>1 DEF TypeOK
<1>3. \A d \in Levels :
        /\ todo'[d] = IF d = depth THEN todo[d] \ {id} ELSE todo[d]
        /\ called'[d] = IF d = depth THEN called[d] \union {id} ELSE called[d]
  BY DEF TypeOK
<1>4. \A d \in 1..depth : d \in Levels
  BY MaxDepthAssumption DEF TypeOK, Levels
<1>5. Ownership'
  BY DEF Ownership
<1>6. IdsAreFresh'
  BY <1>1, <1>3, <1>4 DEF IdsAreFresh
<1>7. Delivery'
  <2>1. ASSUME NEW d \in 1..depth
        PROVE  /\ asked[d] \intersect handlers \subseteq called'[d] \union todo'[d]
               /\ called'[d] \union todo'[d] \subseteq asked[d]
               /\ called'[d] \intersect todo'[d] = {}
    <3>1. /\ asked[d] \intersect handlers \subseteq called[d] \union todo[d]
          /\ called[d] \union todo[d] \subseteq asked[d]
          /\ called[d] \intersect todo[d] = {}
      BY <2>1 DEF Delivery
    <3>2. /\ todo'[d] = IF d = depth THEN todo[d] \ {id} ELSE todo[d]
          /\ called'[d] = IF d = depth THEN called[d] \union {id} ELSE called[d]
      BY <1>3, <1>4, <2>1
    <3>3. id \in todo[depth]
      OBVIOUS
    <3> QED BY <3>1, <3>2, <3>3
  <2>2. handlers' = handlers /\ asked' = asked
    OBVIOUS
  <2> QED BY <1>1, <2>1, <2>2 DEF Delivery
<1> QED BY <1>2, <1>5, <1>6, <1>7

LEMMA SkipIInv == ASSUME IInv, NEW id \in Ids, Skip(id) PROVE IInv'
<1> USE DEF IInv, Skip, busVars, BusRuns, Found
<1>1. TypeOK'
  BY DEF TypeOK
<1>2. \A d \in Levels : todo'[d] = IF d = depth THEN todo[d] \ {id} ELSE todo[d]
  BY DEF TypeOK
<1>3. \A d \in 1..depth : d \in Levels
  BY MaxDepthAssumption DEF TypeOK, Levels
<1>4. Ownership'
  BY DEF Ownership
<1>5. IdsAreFresh'
  BY <1>2, <1>3 DEF IdsAreFresh
<1>6. Delivery'
  BY <1>2, <1>3 DEF Delivery
<1> QED BY <1>1, <1>4, <1>5, <1>6

LEMMA HandlerReturnsIInv == ASSUME IInv, HandlerReturns PROVE IInv'
<1> USE DEF IInv, HandlerReturns, busVars
<1>1. TypeOK'
  BY DEF TypeOK
<1> QED BY <1>1 DEF Ownership, IdsAreFresh, Delivery

LEMMA PublishReturnsIInv == ASSUME IInv, PublishReturns PROVE IInv'
<1> USE DEF IInv, PublishReturns, busVars, BusRuns
<1>1. depth \in Levels /\ depth' = depth - 1 /\ depth' \in 0..MaxDepth
  BY MaxDepthAssumption DEF TypeOK, Levels
<1>2. TypeOK'
  BY <1>1 DEF TypeOK
<1>3. \A d \in 1..depth' :
        /\ d \in 1..depth
        /\ todo'[d] = todo[d] /\ asked'[d] = asked[d] /\ called'[d] = called[d]
  BY <1>1 DEF TypeOK, Levels
<1>4. Ownership'
  BY DEF Ownership
<1>5. IdsAreFresh'
  BY <1>3 DEF IdsAreFresh
<1>6. Delivery'
  BY <1>3 DEF Delivery
<1> QED BY <1>2, <1>4, <1>5, <1>6

-----------------------------------------------------------------------------
LEMMA StepIInv == IInv /\ [Next]_vars => IInv'
<1> SUFFICES ASSUME IInv, [Next]_vars PROVE IInv'
  OBVIOUS
<1>1. CASE UserStep
  <2> SUFFICES ASSUME NEW h \in Handles,
                      \/ Construct(h)
                      \/ Subscribe(h)
                      \/ \E g \in Handles : MoveConstruct(h, g)
                      \/ \E g \in Handles : MoveAssign(h, g)
                      \/ Reset(h)
                      \/ Destroy(h)
               PROVE  IInv'
    BY <1>1 DEF UserStep
  <2>1. CASE Reset(h) \/ Destroy(h)
    BY <2>1, ReleaseIInv DEF Reset, Destroy
  <2> QED BY <2>1, ConstructIInv, SubscribeIInv, MoveConstructIInv, MoveAssignIInv
<1>2. CASE BusStep
  BY <1>2, PublishIInv, CallIInv, SkipIInv, HandlerReturnsIInv, PublishReturnsIInv
  DEF BusStep
<1>3. CASE UNCHANGED vars
  BY <1>3, StutterIInv
<1> QED BY <1>1, <1>2, <1>3 DEF Next

THEOREM Inductive == Spec => []IInv
BY InitIInv, StepIInv, PTL DEF Spec

\* The type invariant of the bus and its subscriptions, for any number of ids
\* and any nesting (event_bus.cpp).
THEOREM TypesAreKept == Spec => []TypeOK
BY Inductive, PTL DEF IInv

\* Handlers and living Subscription objects correspond one to one, whatever is
\* moved, reset and destroyed, inside handlers and outside.
THEOREM HandlersAreOwned == Spec => []Ownership
BY Inductive, PTL DEF IInv

\* Each publish() calls the surviving handlers of its beginning, once each.
THEOREM PublishDelivers == Spec => []Delivery
BY Inductive, PTL DEF IInv

\* No handler is called after the Subscription that owns it is gone.
THEOREM DestroyedIsSilent == Spec => NoCallAfterDestroy
<1> DEFINE Asked(id) == CalledNow(id) => \E h \in alive : held[h] = id
<1>1. ASSUME IInv, Next, NEW id \in Ids, CalledNow(id)
      PROVE  \E h \in alive : held[h] = id
  <2>1. BusRuns /\ depth' = depth /\ running'[depth] = id /\ id # 0
    BY <1>1 DEF CalledNow, Ids
  <2>2. running'[depth] # running[depth]
    BY <2>1 DEF BusRuns
  <2>3. \E i \in Ids : Call(i)
    <3>1. ~UserStep
      BY <2>1 DEF UserStep, Construct, Subscribe, MoveConstruct, MoveAssign,
                  Reset, Destroy, UserRuns
    <3>2. ~Publish /\ ~HandlerReturns /\ ~PublishReturns
      BY <2>1 DEF Publish, HandlerReturns, PublishReturns, UserRuns, BusRuns
    <3>3. ~(\E i \in Ids : Skip(i))
      BY <2>2 DEF Skip
    <3> QED BY <1>1, <3>1, <3>2, <3>3 DEF Next, BusStep
  <2>4. PICK i \in Ids : Call(i)
    BY <2>3
  <2>5. i = id /\ id \in handlers
    <3>1. depth \in Levels
      BY <1>1, <2>1, MaxDepthAssumption DEF IInv, TypeOK, Levels, BusRuns
    <3> QED BY <1>1, <2>1, <2>4, <3>1 DEF Call, Found, IInv, TypeOK
  <2> QED BY <1>1, <2>5 DEF IInv, Ownership
<1>2. IInv /\ [Next]_vars => [\A id \in Ids : Asked(id)]_vars
  BY <1>1
<1> QED BY <1>2, Inductive, PTL DEF Spec, NoCallAfterDestroy

\* A handler subscribed while publish() runs is on no list of that publish().
THEOREM NewcomersAreNotListed == Spec => NewcomersWait
<1> DEFINE Unlisted(id) == \A d \in 1..depth : id \notin asked[d]
<1>1. ASSUME IInv, Next, NEW id \in handlers' \ handlers, NEW d \in 1..depth
      PROVE  id \notin asked[d]
  <2>1. id = nextId
    <3>1. ~BusStep
      BY <1>1 DEF BusStep, Publish, Call, Skip, HandlerReturns, PublishReturns, busVars
    <3>2. PICK h \in Handles :
            \/ Construct(h)
            \/ Subscribe(h)
            \/ \E g \in Handles : MoveConstruct(h, g)
            \/ \E g \in Handles : MoveAssign(h, g)
            \/ Reset(h)
            \/ Destroy(h)
      BY <1>1, <3>1 DEF Next, UserStep
    <3>3. Subscribe(h)
      BY <1>1, <3>2 DEF Construct, MoveConstruct, MoveAssign, Moved, Reset, Destroy, Release
    <3> QED BY <1>1, <3>3 DEF Subscribe, FreshId
  <2>2. nextId \in Int
    BY <1>1 DEF IInv, TypeOK
  <2>3. id \in asked[d] => id < nextId
    BY <1>1 DEF IInv, IdsAreFresh
  <2> QED BY <2>1, <2>2, <2>3
<1>2. IInv /\ [Next]_vars => [\A id \in handlers' \ handlers : Unlisted(id)]_vars
  BY <1>1
<1> QED BY <1>2, Inductive, PTL DEF Spec, NewcomersWait
=============================================================================
