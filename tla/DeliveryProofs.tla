--------------------------- MODULE DeliveryProofs ---------------------------
(* Proofs about Delivery, for any number of orders, dispatches, posts and   *)
(* webhooks; about the polls of the printing app (Printing), for any        *)
(* orders, jobs and pages; and about the answers of the couriers' clients   *)
(* (ProviderClients), for any requests, branches and failures.              *)
EXTENDS MCDelivery, FiniteSetTheorems, WellFoundedInduction, TLAPS

\* What a handler holds fits where it stands.
CreatorShape(d) ==
  pc[d] # "idle" =>
    /\ job[d] \in Job
    /\ pc[d] \in {"check", "order", "provider", "save", "done"}
WebhookShape(w) ==
  pc[w] # "idle" =>
    /\ job[w] \in Job
    /\ pc[w] \in {"status", "tell", "done"}
    /\ job[w].status \in DeliveryStatus
    /\ pc[w] # "done" =>
         job[w].about \in Creators /\ placed[job[w].about] # None
    /\ pc[w] = "tell" => OrderStatusOf(job[w].status) # Same

ShapeInv ==
  /\ TypeOK
  /\ \A d \in Creators : CreatorShape(d)
  /\ \A w \in Webhooks : WebhookShape(w)

LEMMA StatusOfType == ASSUME NEW r PROVE StatusOf(r) \in DeliveryStatus
<1>1. UberStatusOf(r) \in DeliveryStatus BY DEF UberStatusOf, DeliveryStatus
<1>2. AdloggsStatusOf(r) \in DeliveryStatus
  BY DEF AdloggsStatusOf, DeliveryStatus
<1>3. QED BY <1>1, <1>2 DEF StatusOf

LEMMA AnswersType == Answers \subseteq DeliveryStatus
BY DEF Answers, UberStatusOf, DeliveryStatus

LEMMA OrderStatusOfType ==
  ASSUME NEW s, OrderStatusOf(s) # Same PROVE OrderStatusOf(s) \in Status
BY DEF OrderStatusOf, Same, Status

LEMMA InitShape == Init => ShapeInv
BY DEF Init, ShapeInv, TypeOK, CreatorShape, WebhookShape, Handlers, Places,
       Status

\* A handler that starts.
LEMMA StartShape ==
  ASSUME ShapeInv, HandlersAssumption, NoneAssumption,
         \/ \E o \in Orders :
              \/ \E d \in Dispatches : Dispatch(d, o)
              \/ \E p \in Posts : Post(p, o)
         \/ \E w \in Webhooks, d \in Creators, r \in Reports :
              WebhookFind(w, d, r)
  PROVE  ShapeInv'
<1> USE DEF Handlers
<1>1. ASSUME NEW o \in Orders, NEW d \in Creators,
             Dispatch(d, o) \/ Post(d, o)
      PROVE  ShapeInv'
  <2>1. /\ \E place \in {"check", "order"} : pc' = [pc EXCEPT ![d] = place]
        /\ job' = [job EXCEPT ![d] =
                     [order |-> o, about |-> None, status |-> None,
                      after |-> Ended]]
        /\ UNCHANGED <<orderStatus, placed, deliveryOrder, failed>>
    BY <1>1 DEF Dispatch, Post, Start
  <2>2. [order |-> o, about |-> None, status |-> None, after |-> Ended] \in Job
    BY DEF Job, Ended
  <2>3. TypeOK'
    BY <2>1, <2>2 DEF ShapeInv, TypeOK, Places
  <2>4. ASSUME NEW e \in Creators PROVE CreatorShape(e)'
    BY <2>1, <2>2 DEF ShapeInv, TypeOK, CreatorShape
  <2>5. ASSUME NEW w \in Webhooks PROVE WebhookShape(w)'
    <3>1. w # d BY HandlersAssumption
    <3>2. pc'[w] = pc[w] /\ job'[w] = job[w]
      BY <2>1, <3>1 DEF ShapeInv, TypeOK
    <3>3. QED BY <2>1, <3>2 DEF ShapeInv, WebhookShape
  <2>6. QED BY <2>3, <2>4, <2>5 DEF ShapeInv
<1>2. ASSUME NEW w \in Webhooks, NEW d \in Creators, NEW r \in Reports,
             WebhookFind(w, d, r)
      PROVE  ShapeInv'
  <2> DEFINE about == IF deliveryOrder[d] = None THEN None ELSE d
             place == IF about = None THEN "done" ELSE "status"
             j == [order |-> placed[d], about |-> about,
                   status |-> StatusOf(r), after |-> Ended]
  <2>1. /\ pc' = [pc EXCEPT ![w] = place] /\ place \in {"done", "status"}
        /\ place = "status" => about = d
        /\ job' = [job EXCEPT ![w] = j]
        /\ placed[d] # None
        /\ UNCHANGED <<orderStatus, placed, deliveryOrder, failed>>
    BY <1>2 DEF WebhookFind, Start
  <2>2. j \in Job /\ j.about = about /\ j.status \in DeliveryStatus
    BY <2>1, StatusOfType DEF Job, Ended, ShapeInv, TypeOK
  <2> HIDE DEF about, place
  <2> HIDE DEF j
  <2>3. TypeOK'
    BY <2>1, <2>2 DEF ShapeInv, TypeOK, Places
  <2>4. ASSUME NEW e \in Creators PROVE CreatorShape(e)'
    <3>1. w # e BY HandlersAssumption
    <3>2. pc'[e] = pc[e] /\ job'[e] = job[e]
      BY <2>1, <3>1 DEF ShapeInv, TypeOK
    <3>3. QED BY <3>2 DEF ShapeInv, CreatorShape
  <2>5. ASSUME NEW v \in Webhooks PROVE WebhookShape(v)'
    BY <2>1, <2>2 DEF ShapeInv, TypeOK, WebhookShape
  <2>6. QED BY <2>3, <2>4, <2>5 DEF ShapeInv
<1>3. QED BY <1>1, <1>2 DEF Creators

LEMMA CreatorStepShape ==
  ASSUME ShapeInv, HandlersAssumption, NoneAssumption,
         NEW d \in Creators, CreatorStep(d)
  PROVE  ShapeInv'
<1> USE DEF Handlers
<1>1. /\ \E place \in {"order", "provider", "save", "done"} :
           pc' = [pc EXCEPT ![d] = place]
      /\ pc[d] # "idle" /\ job' = job
      /\ UNCHANGED <<orderStatus, failed>>
  BY DEF CreatorStep, DispatchCheck, FindOrder, PlaceWithProvider,
         SaveDelivery, Goto
<1>2. job[d].order \in Orders
  BY <1>1 DEF ShapeInv, CreatorShape, Job
<1>3. /\ placed' = placed \/ placed' = [placed EXCEPT ![d] = job[d].order]
      /\ \/ deliveryOrder' = deliveryOrder
         \/ \E s \in DeliveryStatus :
              deliveryOrder' = [deliveryOrder EXCEPT ![d] = s]
  BY AnswersType DEF CreatorStep, DispatchCheck, FindOrder, PlaceWithProvider,
                     SaveDelivery
<1>4. TypeOK'
  <2>1. pc' \in [Handlers -> Places] BY <1>1 DEF ShapeInv, TypeOK, Places
  <2>2. placed' \in [Creators -> Orders \cup {None}]
    BY <1>2, <1>3 DEF ShapeInv, TypeOK
  <2>3. deliveryOrder' \in [Creators -> DeliveryStatus \cup {None}]
    BY <1>3 DEF ShapeInv, TypeOK
  <2>4. QED BY <1>1, <2>1, <2>2, <2>3 DEF ShapeInv, TypeOK
<1>5. ASSUME NEW e \in Creators PROVE CreatorShape(e)'
  BY <1>1 DEF ShapeInv, TypeOK, CreatorShape
<1>6. ASSUME NEW w \in Webhooks PROVE WebhookShape(w)'
  <2>1. w # d BY HandlersAssumption
  <2>2. pc'[w] = pc[w] /\ job'[w] = job[w]
    BY <1>1, <2>1 DEF ShapeInv, TypeOK
  <2>3. \A e \in Creators : placed[e] # None => placed'[e] # None
    BY <1>2, <1>3, NoneAssumption DEF ShapeInv, TypeOK
  <2>4. QED BY <2>2, <2>3 DEF ShapeInv, WebhookShape
<1>7. QED BY <1>4, <1>5, <1>6 DEF ShapeInv

LEMMA WebhookStepShape ==
  ASSUME ShapeInv, HandlersAssumption, NoneAssumption,
         NEW w \in Webhooks, WebhookStep(w)
  PROVE  ShapeInv'
<1> USE DEF Handlers
<1>1. /\ pc[w] \in {"status", "tell"} /\ WebhookShape(w)
      /\ \/ pc' = [pc EXCEPT ![w] = "done"]
         \/ /\ pc' = [pc EXCEPT ![w] = "tell"]
            /\ OrderStatusOf(job[w].status) # Same
      /\ job' = job /\ UNCHANGED <<placed, failed>>
  BY DEF WebhookStep, WebhookStatus, TellOrder, Goto, ShapeInv
<1>2. /\ job[w].about \in Creators /\ job[w].status \in DeliveryStatus
      /\ job[w].order \in Orders
  BY <1>1 DEF WebhookShape, Job
<1>3. deliveryOrder' \in [Creators -> DeliveryStatus \cup {None}]
  BY <1>2 DEF WebhookStep, WebhookStatus, TellOrder, ShapeInv, TypeOK
<1>4. orderStatus' \in [Orders -> Status \cup {None}]
  <2>1. CASE WebhookStatus(w)
    BY <2>1 DEF WebhookStatus, ShapeInv, TypeOK
  <2>2. CASE TellOrder(w)
    <3>1. OrderStatusOf(job[w].status) \in Status
      BY <1>1, <2>2, OrderStatusOfType DEF TellOrder, Goto, WebhookShape
    <3>2. QED BY <1>2, <2>2, <3>1 DEF TellOrder, ShapeInv, TypeOK
  <2>3. QED BY <2>1, <2>2 DEF WebhookStep
<1>5. TypeOK' BY <1>1, <1>3, <1>4 DEF ShapeInv, TypeOK, Places
<1>6. ASSUME NEW e \in Creators PROVE CreatorShape(e)'
  <2>1. w # e BY HandlersAssumption
  <2>2. pc'[e] = pc[e] /\ job'[e] = job[e]
    BY <1>1, <2>1 DEF ShapeInv, TypeOK
  <2>3. QED BY <2>2 DEF ShapeInv, CreatorShape
<1>7. ASSUME NEW v \in Webhooks PROVE WebhookShape(v)'
  BY <1>1 DEF ShapeInv, TypeOK, WebhookShape
<1>8. QED BY <1>5, <1>6, <1>7 DEF ShapeInv

LEMMA NextShape ==
  ASSUME ShapeInv, HandlersAssumption, NoneAssumption, [Next]_vars
  PROVE  ShapeInv'
<1>1. CASE UNCHANGED vars
  BY <1>1 DEF vars, ShapeInv, TypeOK, CreatorShape, WebhookShape
<1>2. ASSUME NEW o \in Orders, DeleteOrder(o) PROVE ShapeInv'
  BY <1>2 DEF DeleteOrder, ShapeInv, TypeOK, CreatorShape, WebhookShape
<1>3. ASSUME NEW h \in Handlers, Abort(h) PROVE ShapeInv'
  BY <1>3 DEF Abort, ShapeInv, TypeOK, CreatorShape, WebhookShape, Handlers,
              Places, Running
<1>4. QED
  BY <1>1, <1>2, <1>3, StartShape, CreatorStepShape, WebhookStepShape DEF Next

\* The collections keep their types: every status a webhook saves, and every
\* status it gives an order, is one of the schema's.
THEOREM TypeCorrect == Spec => []TypeOK
<1>1. ShapeInv /\ [Next]_vars => ShapeInv'
  BY NextShape, HandlersAssumption, NoneAssumption
<1>2. ShapeInv => TypeOK BY DEF ShapeInv
<1>3. QED BY InitShape, <1>1, <1>2, PTL DEF Spec

-----------------------------------------------------------------------------
(* The provider's deliveries and ours *)

\* A creation has placed its delivery when it is past the provider's call, and
\* knows it when it is past the save.
PlacedOK(d) ==
  /\ pc[d] \in {"idle", "check", "order", "provider"} => placed[d] = None
  /\ pc[d] = "save" => placed[d] # None
  /\ placed[d] # None => placed[d] = job[d].order
  /\ deliveryOrder[d] # None => placed[d] # None
  /\ (placed[d] # None /\ deliveryOrder[d] = None)
       => pc[d] = "save" \/ d \in failed

\* What had ended when a handler began has ended; a dispatch that looked for
\* the deliveries known then found none.
LookedOK(e) ==
  pc[e] # "idle" =>
    /\ \A h \in job[e].after : h \in Handlers /\ pc[h] = "done"
    /\ (e \in Dispatches /\ pc[e] \in {"order", "provider"}) =>
         \A d \in Creators \cap job[e].after :
           placed[d] = job[e].order => d \in failed
    /\ (e \in Dispatches /\ placed[e] # None) =>
         \A d \in Creators \cap job[e].after :
           placed[d] = placed[e] => d \in failed

PlacedInv ==
  /\ ShapeInv
  /\ \A d \in Creators : PlacedOK(d) /\ LookedOK(d)

LEMMA InitPlaced == Init => PlacedInv
<1>1. Init => ShapeInv BY InitShape
<1>2. Init => \A d \in Creators : PlacedOK(d) /\ LookedOK(d)
  BY DEF Init, PlacedOK, LookedOK, Handlers
<1>3. QED BY <1>1, <1>2 DEF PlacedInv

\* A step that places and forgets no delivery, starts no creation and brings
\* back no handler from its end.
LEMMA PlacedFrame ==
  ASSUME PlacedInv, ShapeInv', placed' = placed, failed \subseteq failed',
         \A d \in Creators :
           /\ deliveryOrder[d] # None => deliveryOrder'[d] # None
           /\ deliveryOrder'[d] # None => placed[d] # None,
         \A h \in Handlers : pc[h] = "done" => pc'[h] = "done",
         \A d \in Creators :
           /\ job'[d] = job[d]
           /\ \/ pc'[d] = pc[d]
              \/ pc[d] # "idle" /\ pc'[d] = "done" /\ d \in failed'
  PROVE  PlacedInv'
<1>1. ASSUME NEW d \in Creators PROVE PlacedOK(d)'
  BY DEF PlacedInv, PlacedOK
<1>2. ASSUME NEW e \in Creators PROVE LookedOK(e)'
  BY DEF PlacedInv, LookedOK
<1>3. QED BY <1>1, <1>2 DEF PlacedInv

LEMMA CreatorStartPlaced ==
  ASSUME PlacedInv, ShapeInv', HandlersAssumption, NoneAssumption,
         NEW d \in Creators, NEW o \in Orders, Dispatch(d, o) \/ Post(d, o),
         Post(d, o) => d \in Posts
  PROVE  PlacedInv'
<1>1. /\ pc[d] = "idle" /\ placed[d] = None
      /\ pc' = [pc EXCEPT ![d] = IF Dispatch(d, o) THEN "check" ELSE "order"]
      /\ job' = [job EXCEPT ![d] =
                   [order |-> o, about |-> None, status |-> None,
                    after |-> Ended]]
      /\ UNCHANGED <<placed, deliveryOrder, failed>>
      /\ pc \in [Handlers -> Places] /\ job \in [Handlers -> Job \cup {None}]
      /\ d \in Handlers
  BY DEF Dispatch, Post, Start, PlacedInv, PlacedOK, ShapeInv, TypeOK,
         Handlers
<1>2. \A h \in Handlers : pc[h] = "done" => pc'[h] = "done"
  BY <1>1
<1>3. ASSUME NEW e \in Creators PROVE PlacedOK(e)'
  BY <1>1 DEF PlacedInv, PlacedOK, Handlers
<1>4. ASSUME NEW e \in Creators PROVE LookedOK(e)'
  <2>1. CASE e = d
    <3>1. job'[d].after = Ended BY <1>1
    <3>2. d \in Dispatches => pc'[d] = "check"
      BY <1>1, HandlersAssumption
    <3>3. QED BY <1>1, <1>2, <2>1, <3>1, <3>2 DEF LookedOK, Ended
  <2>2. CASE e # d
    <3>1. pc'[e] = pc[e] /\ job'[e] = job[e]
      BY <1>1, <2>2 DEF Handlers
    <3>2. LookedOK(e) BY DEF PlacedInv
    <3>3. QED BY <1>1, <1>2, <3>1, <3>2 DEF LookedOK
  <2>3. QED BY <2>1, <2>2
<1>5. QED BY <1>3, <1>4 DEF PlacedInv

LEMMA CreatorStepPlaced ==
  ASSUME PlacedInv, ShapeInv', HandlersAssumption, NoneAssumption,
         NEW d \in Creators, CreatorStep(d)
  PROVE  PlacedInv'
<1>1. /\ pc \in [Handlers -> Places]
      /\ placed \in [Creators -> Orders \cup {None}]
      /\ deliveryOrder \in [Creators -> DeliveryStatus \cup {None}]
      /\ d \in Handlers /\ Creators \subseteq Handlers
  BY DEF PlacedInv, ShapeInv, TypeOK, Handlers
<1>2. /\ job' = job /\ failed' = failed
      /\ pc[d] \in {"check", "order", "provider", "save"}
      /\ \E place \in {"order", "provider", "save", "done"} :
           pc' = [pc EXCEPT ![d] = place]
  BY DEF CreatorStep, DispatchCheck, FindOrder, PlaceWithProvider,
         SaveDelivery, Goto
<1>3. /\ \A h \in Handlers : pc[h] = "done" => pc'[h] = "done"
      /\ \A e \in Creators \ {d} : pc'[e] = pc[e]
      /\ job[d].order \in Orders
      /\ \A e \in Creators : LookedOK(e) /\ PlacedOK(e)
  BY <1>1, <1>2 DEF PlacedInv, ShapeInv, CreatorShape, Job
<1>4. \A e \in Creators : \A g \in Creators \cap job[e].after :
        pc[e] # "idle" => pc[g] = "done" /\ g # d
  BY <1>2, <1>3 DEF LookedOK
<1>5. CASE DispatchCheck(d) \/ FindOrder(d)
  <2>1. /\ UNCHANGED <<placed, deliveryOrder>>
        /\ pc'[d] \in {"order", "provider", "done"} /\ placed[d] = None
        /\ pc'[d] = "provider" => pc[d] = "order"
        /\ pc'[d] = "order" => DispatchCheck(d) /\ Known(job[d].order) = {}
    BY <1>1, <1>3, <1>5 DEF DispatchCheck, FindOrder, Goto, PlacedOK
  <2>2. ASSUME NEW e \in Creators PROVE PlacedOK(e)'
    BY <1>2, <1>3, <2>1 DEF PlacedOK
  <2>3. ASSUME NEW e \in Creators, e # d PROVE LookedOK(e)'
    BY <1>2, <1>3, <2>1, <2>3 DEF LookedOK
  <2>4. LookedOK(d)'
    <3>1. \A h \in job[d].after : h \in Handlers /\ pc'[h] = "done"
      BY <1>2, <1>3 DEF LookedOK
    <3>2. ASSUME d \in Dispatches, pc'[d] \in {"order", "provider"},
                 NEW g \in Creators \cap job[d].after,
                 placed[g] = job[d].order
          PROVE  g \in failed
      <4>1. CASE pc'[d] = "provider"
        BY <1>3, <2>1, <3>2, <4>1 DEF LookedOK
      <4>2. CASE pc'[d] = "order"
        <5>1. deliveryOrder[g] = None BY <2>1, <3>2, <4>2 DEF Known
        <5>2. pc[g] = "done" BY <1>2, <1>4
        <5>3. placed[g] # None BY <1>3, <3>2, NoneAssumption
        <5>4. QED BY <1>3, <5>1, <5>2, <5>3 DEF PlacedOK
      <4>3. QED BY <3>2, <4>1, <4>2
    <3>3. QED BY <1>2, <2>1, <3>1, <3>2 DEF LookedOK
  <2>5. QED BY <2>2, <2>3, <2>4 DEF PlacedInv
<1>6. CASE PlaceWithProvider(d)
  <2>1. /\ deliveryOrder' = deliveryOrder
        /\ placed' = [placed EXCEPT ![d] = job[d].order]
        /\ pc[d] = "provider" /\ pc'[d] = "save"
    BY <1>1, <1>6 DEF PlaceWithProvider, Goto
  <2>2. placed'[d] = job[d].order
        /\ \A e \in Creators \ {d} : placed'[e] = placed[e]
    BY <1>1, <2>1
  <2>3. ASSUME NEW e \in Creators PROVE PlacedOK(e)'
    BY <1>2, <1>3, <2>1, <2>2 DEF PlacedOK
  <2>4. ASSUME NEW e \in Creators PROVE LookedOK(e)'
    <3>1. \A g \in Creators \cap job[e].after :
            pc[e] # "idle" => placed'[g] = placed[g]
      BY <1>4, <2>2
    <3>2. CASE e = d
      BY <1>2, <1>3, <2>1, <2>2, <3>1, <3>2 DEF LookedOK
    <3>3. CASE e # d
      BY <1>2, <1>3, <2>2, <3>1, <3>3 DEF LookedOK
    <3>4. QED BY <3>2, <3>3
  <2>5. QED BY <2>3, <2>4 DEF PlacedInv
<1>7. CASE SaveDelivery(d)
  <2>1. /\ placed' = placed
        /\ \E s \in DeliveryStatus :
             deliveryOrder' = [deliveryOrder EXCEPT ![d] = s]
        /\ pc[d] = "save" /\ pc'[d] = "done"
    BY <1>1, <1>7, AnswersType DEF SaveDelivery, Goto
  <2>2. ASSUME NEW e \in Creators PROVE LookedOK(e)'
    BY <1>2, <1>3, <2>1 DEF LookedOK
  <2>3. /\ deliveryOrder'[d] # None
        /\ \A e \in Creators \ {d} : deliveryOrder'[e] = deliveryOrder[e]
    BY <1>1, <2>1, NoneAssumption
  <2>4. ASSUME NEW e \in Creators PROVE PlacedOK(e)'
    BY <1>2, <1>3, <2>1, <2>3 DEF PlacedOK
  <2>5. QED BY <2>2, <2>4 DEF PlacedInv
<1>8. QED BY <1>5, <1>6, <1>7 DEF CreatorStep

LEMMA WebhookPlaced ==
  ASSUME PlacedInv, ShapeInv', HandlersAssumption, NoneAssumption,
         NEW w \in Webhooks,
         \/ WebhookStep(w)
         \/ \E d \in Creators, r \in Reports : WebhookFind(w, d, r)
  PROVE  PlacedInv'
<1>1. /\ pc \in [Handlers -> Places] /\ w \in Handlers
      /\ job \in [Handlers -> Job \cup {None}]
      /\ deliveryOrder \in [Creators -> DeliveryStatus \cup {None}]
      /\ Creators \subseteq Handlers
  BY DEF PlacedInv, ShapeInv, TypeOK, Handlers
<1>2. /\ pc[w] # "done" /\ \E place : pc' = [pc EXCEPT ![w] = place]
      /\ job' = job \/ \E j : job' = [job EXCEPT ![w] = j]
      /\ placed' = placed /\ failed' = failed
  BY DEF WebhookStep, WebhookStatus, TellOrder, WebhookFind, Start, Goto
<1>3. ASSUME NEW d \in Creators
      PROVE  d # w /\ pc'[d] = pc[d] /\ job'[d] = job[d]
  BY <1>1, <1>2, HandlersAssumption
<1>4. ASSUME NEW d \in Creators
      PROVE  /\ deliveryOrder[d] # None => deliveryOrder'[d] # None
             /\ deliveryOrder'[d] # None => placed[d] # None
  <2>1. deliveryOrder[d] # None => placed[d] # None
    BY DEF PlacedInv, PlacedOK
  <2>2. CASE WebhookStatus(w)
    <3>1. /\ pc[w] = "status"
          /\ deliveryOrder' =
               [deliveryOrder EXCEPT ![job[w].about] = job[w].status]
      BY <2>2 DEF WebhookStatus, Goto
    <3>2. /\ job[w].status \in DeliveryStatus /\ job[w].about \in Creators
          /\ placed[job[w].about] # None
      BY <3>1 DEF PlacedInv, ShapeInv, WebhookShape
    <3>3. QED BY <1>1, <2>1, <3>1, <3>2, NoneAssumption
  <2>3. CASE deliveryOrder' = deliveryOrder BY <2>1, <2>3
  <2>4. QED BY <2>2, <2>3 DEF WebhookStep, TellOrder, WebhookFind
<1>5. \A h \in Handlers : pc[h] = "done" => pc'[h] = "done"
  BY <1>1, <1>2
<1>6. QED BY <1>2, <1>3, <1>4, <1>5, PlacedFrame

LEMMA NextPlaced ==
  ASSUME PlacedInv, HandlersAssumption, NoneAssumption, [Next]_vars
  PROVE  PlacedInv'
<1>1. ShapeInv' BY NextShape DEF PlacedInv
<1>2. \A d \in Creators : PlacedOK(d) BY DEF PlacedInv
<1>3. CASE UNCHANGED vars
  BY <1>1, <1>3 DEF vars, PlacedInv, PlacedOK, LookedOK
<1>4. ASSUME NEW o \in Orders, DeleteOrder(o) PROVE PlacedInv'
  BY <1>1, <1>4 DEF DeleteOrder, PlacedInv, PlacedOK, LookedOK
<1>5. ASSUME NEW h \in Handlers, Abort(h) PROVE PlacedInv'
  <2>1. /\ pc[h] \notin {"idle", "done"} /\ pc' = [pc EXCEPT ![h] = "done"]
        /\ failed' = failed \cup {h} /\ pc \in [Handlers -> Places]
        /\ UNCHANGED <<placed, deliveryOrder, job>>
        /\ Creators \subseteq Handlers
    BY <1>5 DEF Abort, Running, PlacedInv, ShapeInv, TypeOK, Handlers
  <2>2. \A d \in Creators :
          /\ job'[d] = job[d]
          /\ \/ pc'[d] = pc[d]
             \/ pc[d] # "idle" /\ pc'[d] = "done" /\ d \in failed'
    BY <2>1
  <2>3. \A g \in Handlers : pc[g] = "done" => pc'[g] = "done"
    BY <2>1
  <2>4. \A d \in Creators : /\ deliveryOrder[d] # None => deliveryOrder'[d] # None
                            /\ deliveryOrder'[d] # None => placed[d] # None
    BY <1>2, <2>1 DEF PlacedOK
  <2>5. QED BY <1>1, <2>1, <2>2, <2>3, <2>4, PlacedFrame
<1>6. ASSUME NEW o \in Orders, NEW d \in Dispatches, Dispatch(d, o)
      PROVE  PlacedInv'
  <2>1. ~Post(d, o) \/ d \in Posts
    BY <1>6 DEF Dispatch, Post, Start, PlacedInv, ShapeInv, TypeOK, Handlers,
                Creators
  <2>2. QED BY <1>1, <1>6, <2>1, CreatorStartPlaced DEF Creators
<1>7. ASSUME NEW o \in Orders, NEW d \in Posts, Post(d, o)
      PROVE  PlacedInv'
  BY <1>1, <1>7, CreatorStartPlaced DEF Creators
<1>8. QED
  BY <1>1, <1>3, <1>4, <1>5, <1>6, <1>7, CreatorStepPlaced, WebhookPlaced
     DEF Next

\* However creations, webhooks, deletions and failures overlap, a courier of
\* whom the database knows nothing belongs to a creation that is about to save
\* or that died before it could.
THEOREM PlacedDeliveriesAreKnown == Spec => []PlacedIsKnown
<1>1. PlacedInv /\ [Next]_vars => PlacedInv'
  BY NextPlaced, HandlersAssumption, NoneAssumption
<1>2. PlacedInv => PlacedIsKnown
  BY DEF PlacedInv, PlacedOK, PlacedIsKnown
<1>3. QED BY InitPlaced, <1>1, <1>2, PTL DEF Spec

\* The check of handleDeliveryOrderCreation works against everything that has
\* ended well before it: only overlapping or failed creations send a second
\* courier.
THEOREM SequentialDispatchIsSafe == Spec => []SecondDispatchSkips
<1>1. PlacedInv /\ [Next]_vars => PlacedInv'
  BY NextPlaced, HandlersAssumption, NoneAssumption
<1>2. PlacedInv => SecondDispatchSkips
  <2>1. SUFFICES ASSUME PlacedInv, NEW d \in Creators, NEW e \in Dispatches,
                        placed[d] # None, placed[e] = placed[d],
                        d \in job[e].after
                 PROVE  d \in failed
    BY DEF SecondDispatchSkips
  <2>2. e \in Creators BY DEF Creators
  <2>3. pc[e] # "idle"
    BY <2>1, <2>2 DEF PlacedInv, PlacedOK
  <2>4. QED BY <2>1, <2>2, <2>3 DEF PlacedInv, LookedOK
<1>3. QED BY InitPlaced, <1>1, <1>2, PTL DEF Spec

-----------------------------------------------------------------------------
(* The two records of an order *)

\* What a step never takes back.
Grown ==
  /\ \A h \in Handlers :
       /\ pc[h] # "idle" => pc'[h] # "idle" /\ job'[h] = job[h]
       /\ pc[h] = "done" => pc'[h] = "done"
  /\ failed \subseteq failed'
  /\ \A d \in Creators :
       /\ placed[d] # None => placed'[d] = placed[d]
       /\ deliveryOrder[d] # None => deliveryOrder'[d] # None
  /\ \A o \in Orders : orderStatus'[o] # None => orderStatus[o] # None

LEMMA Grows == ASSUME PlacedInv, Next PROVE Grown
<1>1. /\ pc \in [Handlers -> Places] /\ job \in [Handlers -> Job \cup {None}]
      /\ placed \in [Creators -> Orders \cup {None}]
      /\ deliveryOrder \in [Creators -> DeliveryStatus \cup {None}]
      /\ orderStatus \in [Orders -> Status \cup {None}]
      /\ Creators \subseteq Handlers /\ Webhooks \subseteq Handlers
      /\ Dispatches \subseteq Creators /\ Posts \subseteq Creators
  BY DEF PlacedInv, ShapeInv, TypeOK, Handlers, Creators
<1>2. ASSUME NEW h \in Handlers, NEW j, NEW place, Start(h, j, place),
             place # "idle",
             UNCHANGED <<orderStatus, placed, deliveryOrder, failed>>
      PROVE  Grown
  BY <1>1, <1>2 DEF Start, Grown
<1>3. ASSUME NEW o \in Orders, NEW d \in Creators, Dispatch(d, o) \/ Post(d, o)
      PROVE  Grown
  BY <1>1, <1>2, <1>3 DEF Dispatch, Post
<1>4. ASSUME NEW w \in Webhooks, NEW d \in Creators, NEW r,
             WebhookFind(w, d, r)
      PROVE  Grown
  BY <1>1, <1>2, <1>4 DEF WebhookFind
<1>5. ASSUME NEW o \in Orders, DeleteOrder(o) PROVE Grown
  BY <1>1, <1>5 DEF DeleteOrder, Grown
<1>6. ASSUME NEW h \in Handlers, Abort(h) PROVE Grown
  BY <1>1, <1>6 DEF Abort, Grown
<1>7. ASSUME NEW d \in Creators, CreatorStep(d) PROVE Grown
  <2>1. /\ job' = job /\ failed' = failed /\ orderStatus' = orderStatus
        /\ pc[d] # "done"
        /\ \E place \in {"order", "provider", "save", "done"} :
             pc' = [pc EXCEPT ![d] = place]
    BY <1>7 DEF CreatorStep, DispatchCheck, FindOrder, PlaceWithProvider,
                SaveDelivery, Goto
  <2>2. \A e \in Creators : placed[e] # None => placed'[e] = placed[e]
    <3>1. \/ placed' = placed
          \/ pc[d] = "provider" /\ placed' = [placed EXCEPT ![d] = job[d].order]
      BY <1>7 DEF CreatorStep, DispatchCheck, FindOrder, PlaceWithProvider,
                  SaveDelivery, Goto
    <3>2. pc[d] = "provider" => placed[d] = None BY DEF PlacedInv, PlacedOK
    <3>3. QED BY <1>1, <3>1, <3>2
  <2>3. \A e \in Creators : deliveryOrder[e] # None => deliveryOrder'[e] # None
    BY <1>1, <1>7, NoneAssumption, AnswersType
       DEF CreatorStep, DispatchCheck, FindOrder, PlaceWithProvider,
           SaveDelivery
  <2>4. QED BY <1>1, <2>1, <2>2, <2>3 DEF Grown
<1>8. ASSUME NEW w \in Webhooks, WebhookStep(w) PROVE Grown
  <2>1. /\ job' = job /\ failed' = failed /\ placed' = placed
        /\ pc[w] \in {"status", "tell"}
        /\ \E place \in {"tell", "done"} : pc' = [pc EXCEPT ![w] = place]
    BY <1>8 DEF WebhookStep, WebhookStatus, TellOrder, Goto
  <2>2. job[w].status \in DeliveryStatus
    BY <2>1 DEF PlacedInv, ShapeInv, WebhookShape
  <2>3. \A e \in Creators : deliveryOrder[e] # None => deliveryOrder'[e] # None
    BY <1>1, <1>8, <2>2, NoneAssumption
       DEF WebhookStep, WebhookStatus, TellOrder
  <2>4. \A o \in Orders : orderStatus'[o] # None => orderStatus[o] # None
    BY <1>1, <1>8 DEF WebhookStep, WebhookStatus, TellOrder
  <2>5. QED BY <1>1, <2>1, <2>3, <2>4 DEF Grown
<1>9. QED BY <1>1, <1>3, <1>4, <1>5, <1>6, <1>7, <1>8 DEF Next

\* Webhooks that do not come apart never will; and as long as a delivery is its
\* order's only one, it was the only one before.
LEMMA GrownApart ==
  ASSUME Grown, \A h \in Handlers : pc[h] = "idle" \/ job[h] \in Job,
         NEW d \in Creators
  PROVE  /\ About(d) \subseteq About(d)'
         /\ Apart(d)' => Apart(d)
         /\ deliveryOrder[d] # None /\ placed[d] # None /\ Known(placed[d])' = {d}
              => Known(placed[d]) = {d}
<1>1. About(d) \subseteq About(d)'
  BY DEF Grown, About, Handlers
<1>2. Apart(d)' => Apart(d)
  BY <1>1 DEF Grown, Apart, About, Handlers
<1>3. ASSUME deliveryOrder[d] # None, placed[d] # None,
             Known(placed[d])' = {d}
      PROVE  Known(placed[d]) = {d}
  <2>1. placed'[d] = placed[d] BY <1>3 DEF Grown
  <2>2. Known(placed[d]) \subseteq Known(placed[d])'
    BY <1>3, <2>1 DEF Grown, Known
  <2>3. d \in Known(placed[d]) BY <1>3 DEF Known
  <2>4. QED BY <1>3, <2>1, <2>2, <2>3
<1>4. QED BY <1>1, <1>2, <1>3

\* A webhook that found its delivery before the step is as it was; one that the
\* step starts begins when what ended before has ended.
LEMMA ReportsStep ==
  ASSUME PlacedInv, RecordsInv, Next, NEW w \in Webhooks
  PROVE  ReportOK(w)'
<1>1. Grown /\ w \in Handlers BY Grows DEF Handlers
<1>2. CASE pc[w] # "idle"
  <2>1. job'[w] = job[w] /\ (pc[w] = "done" => pc'[w] = "done")
    BY <1>1, <1>2 DEF Grown
  <2>2. /\ job[w] \in Job
        /\ job[w].about # None
             => job[w].about \in Creators /\ placed[job[w].about] # None
    BY <1>2 DEF PlacedInv, PlacedOK, ShapeInv, WebhookShape, RecordsInv,
                ReportOK, Job
  <2>3. \A h \in job[w].after : pc'[h] = "done"
    BY <1>1, <1>2, <2>2 DEF Grown, RecordsInv, ReportOK, Job
  <2>4. QED BY <1>1, <1>2, <2>1, <2>2, <2>3 DEF Grown, RecordsInv, ReportOK
<1>3. CASE pc[w] = "idle"
  <2>1. ASSUME NEW d \in Creators, NEW r \in Reports, WebhookFind(w, d, r)
        PROVE  ReportOK(w)'
    <3>1. /\ job'[w].about = IF deliveryOrder[d] = None THEN None ELSE d
          /\ job'[w].order = placed[d] /\ job'[w].after = Ended
          /\ pc'[w] = IF job'[w].about = None THEN "done" ELSE "status"
          /\ UNCHANGED <<placed, deliveryOrder>>
      BY <1>1, <2>1 DEF WebhookFind, Start, PlacedInv, ShapeInv, TypeOK
    <3>2. \A h \in Ended : pc'[h] = "done" BY <1>1 DEF Ended, Grown
    <3>3. QED BY <3>1, <3>2 DEF ReportOK
  <2>2. \/ \E d \in Creators, r \in Reports : WebhookFind(w, d, r)
        \/ pc'[w] = "idle"
    <3>1. /\ pc \in [Handlers -> Places] /\ Creators \cap Webhooks = {}
          /\ Dispatches \subseteq Creators /\ Posts \subseteq Creators
      BY HandlersAssumption DEF PlacedInv, ShapeInv, TypeOK, Creators
    <3>2. ASSUME NEW o \in Orders, NEW d \in Creators,
                 Dispatch(d, o) \/ Post(d, o)
          PROVE  pc'[w] = "idle"
      BY <1>1, <1>3, <3>1, <3>2 DEF Dispatch, Post, Start
    <3>3. ASSUME NEW o \in Orders, DeleteOrder(o) PROVE pc'[w] = "idle"
      BY <1>3, <3>3 DEF DeleteOrder
    <3>4. ASSUME NEW h \in Handlers, Abort(h) PROVE pc'[w] = "idle"
      BY <1>1, <1>3, <3>1, <3>4 DEF Abort, Running
    <3>5. ASSUME NEW d \in Creators, CreatorStep(d) PROVE pc'[w] = "idle"
      BY <1>1, <1>3, <3>1, <3>5
         DEF CreatorStep, DispatchCheck, FindOrder, PlaceWithProvider,
             SaveDelivery, Goto
    <3>6. ASSUME NEW v \in Webhooks, WebhookStep(v) PROVE pc'[w] = "idle"
      BY <1>1, <1>3, <3>1, <3>6
         DEF WebhookStep, WebhookStatus, TellOrder, Goto
    <3>7. ASSUME NEW v \in Webhooks, v # w, NEW d \in Creators, NEW r,
                 WebhookFind(v, d, r)
          PROVE  pc'[w] = "idle"
      BY <1>1, <1>3, <3>1, <3>7 DEF WebhookFind, Start
    <3>8. QED BY <3>1, <3>2, <3>3, <3>4, <3>5, <3>6, <3>7 DEF Next
  <2>3. QED BY <2>1, <2>2 DEF ReportOK
<1>4. QED BY <1>2, <1>3

\* Of webhooks that come one after the other only one can be running.
LEMMA OneRuns ==
  ASSUME RecordsInv, NEW d \in Creators, Apart(d),
         NEW w \in About(d), NEW v \in About(d),
         pc[w] # "done", pc[v] # "done"
  PROVE  w = v
BY DEF RecordsInv, ReportOK, Apart, About

\* A step that leaves the delivery, its order and the webhooks about them.
LEMMA RecordsFrame ==
  ASSUME PlacedInv, RecordsInv, Grown, NoneAssumption, NEW d \in Creators,
         deliveryOrder'[d] = deliveryOrder[d],
         placed[d] # None /\ orderStatus'[placed[d]] # None
           => orderStatus'[placed[d]] = orderStatus[placed[d]],
         \A w \in Webhooks : pc'[w] = "tell" => pc[w] = "tell",
         \A w \in About(d) :
           pc[w] # "done" => pc'[w] # "done" \/ w \in failed',
         About(d) # {} \/ \A w \in About(d)' : pc'[w] # "done"
  PROVE  Apart(d)' => Told(d)' /\ Agreed(d)'
<1> SUFFICES ASSUME Apart(d)' PROVE Told(d)' /\ Agreed(d)' OBVIOUS
<1>1. \A h \in Handlers : pc[h] = "idle" \/ job[h] \in Job
  BY DEF PlacedInv, ShapeInv, CreatorShape, WebhookShape, Handlers
<1>2. /\ About(d) \subseteq About(d)' /\ Apart(d)
      /\ deliveryOrder[d] # None /\ placed[d] # None /\ Known(placed[d])' = {d}
           => Known(placed[d]) = {d}
  BY <1>1, GrownApart
<1>3. Told(d) /\ Agreed(d) BY <1>2 DEF RecordsInv
<1>4. Told(d)'
  <2> SUFFICES ASSUME NEW w \in About(d)', pc'[w] = "tell"
               PROVE  job'[w].status = deliveryOrder'[d]
    BY DEF Told
  <2>1. w \in Webhooks /\ w \in Handlers /\ pc[w] = "tell"
    BY DEF About, Handlers
  <2>2. job'[w] = job[w] /\ w \in About(d) BY <2>1 DEF Grown, About
  <2>3. QED BY <1>3, <2>1, <2>2 DEF Told
<1>5. Agreed(d)'
  <2> SUFFICES ASSUME About(d)' # {}, Known(placed[d])' = {d},
                      orderStatus'[placed'[d]] # None,
                      OrderStatusOf(deliveryOrder'[d]) # Same
               PROVE  \/ orderStatus'[placed'[d]] = OrderStatusOf(deliveryOrder'[d])
                      \/ \E w \in About(d)' : pc'[w] # "done"
    BY DEF Agreed
  <2>1. About(d) # {} => deliveryOrder[d] # None
    BY NoneAssumption DEF RecordsInv, ReportOK, About
  <2>2. deliveryOrder[d] # None => placed[d] # None /\ placed'[d] = placed[d]
    BY DEF PlacedInv, PlacedOK, Grown
  <2>3. About(d) # {} =>
          \/ orderStatus[placed[d]] = OrderStatusOf(deliveryOrder[d])
          \/ \E w \in About(d) : pc[w] # "done"
    BY <1>2, <1>3, <2>1, <2>2 DEF Agreed
  <2>4. QED BY <1>2, <2>1, <2>2, <2>3 DEF Apart
<1>6. QED BY <1>4, <1>5

\* A creation saves its delivery once.
LEMMA SavesOnce ==
  ASSUME PlacedInv, RecordsInv, Next, NEW d \in Creators, pc'[d] = "save"
  PROVE  deliveryOrder'[d] = None
<1>1. /\ pc \in [Handlers -> Places]
      /\ deliveryOrder \in [Creators -> DeliveryStatus \cup {None}]
      /\ Creators \subseteq Handlers /\ Webhooks \subseteq Handlers
      /\ Dispatches \subseteq Creators /\ Posts \subseteq Creators
      /\ Creators \cap Webhooks = {}
      /\ pc[d] \in {"idle", "check", "order", "provider", "save"}
           => deliveryOrder[d] = None
  BY HandlersAssumption
     DEF PlacedInv, PlacedOK, RecordsInv, ShapeInv, TypeOK, Handlers, Creators
<1>2. ASSUME NEW h \in Handlers, NEW place, place # "save",
             pc' = [pc EXCEPT ![h] = place]
      PROVE  pc[d] = "save"
  BY <1>1, <1>2
<1>3. ASSUME NEW o \in Orders, NEW e \in Creators, Dispatch(e, o) \/ Post(e, o)
      PROVE  deliveryOrder'[d] = None
  BY <1>1, <1>2, <1>3 DEF Dispatch, Post, Start
<1>4. ASSUME NEW o \in Orders, DeleteOrder(o) PROVE deliveryOrder'[d] = None
  BY <1>1, <1>4 DEF DeleteOrder
<1>5. ASSUME NEW h \in Handlers, Abort(h) PROVE deliveryOrder'[d] = None
  BY <1>1, <1>2, <1>5 DEF Abort
<1>6. ASSUME NEW e \in Creators, CreatorStep(e) PROVE deliveryOrder'[d] = None
  <2>1. CASE SaveDelivery(e)
    BY <1>1, <2>1 DEF SaveDelivery, Goto
  <2>2. CASE PlaceWithProvider(e)
    BY <1>1, <2>2 DEF PlaceWithProvider, Goto
  <2>3. CASE DispatchCheck(e) \/ FindOrder(e)
    BY <1>1, <1>2, <2>3 DEF DispatchCheck, FindOrder, Goto
  <2>4. QED BY <1>6, <2>1, <2>2, <2>3 DEF CreatorStep
<1>7. ASSUME NEW w \in Webhooks, NEW e \in Creators, NEW r,
             WebhookFind(w, e, r)
      PROVE  deliveryOrder'[d] = None
  BY <1>1, <1>2, <1>7 DEF WebhookFind, Start
<1>8. ASSUME NEW w \in Webhooks, WebhookStep(w) PROVE deliveryOrder'[d] = None
  <2>1. pc[d] = "save"
    BY <1>1, <1>2, <1>8 DEF WebhookStep, WebhookStatus, TellOrder, Goto
  <2>2. pc[w] = "status" => job[w].about # d
    BY <1>1, <2>1 DEF RecordsInv, ReportOK
  <2>3. QED BY <1>1, <1>8, <2>1, <2>2
       DEF WebhookStep, WebhookStatus, TellOrder, Goto
<1>9. QED BY <1>1, <1>3, <1>4, <1>5, <1>6, <1>7, <1>8 DEF Next

\* A webhook saves what it was told about its delivery, and is the only one to
\* bring it to the order.
LEMMA StatusRecords ==
  ASSUME PlacedInv, RecordsInv, Grown, NoneAssumption, NEW w \in Webhooks, WebhookStatus(w),
         NEW d \in Creators
  PROVE  Apart(d)' => Told(d)' /\ Agreed(d)'
<1>1. /\ pc \in [Handlers -> Places] /\ w \in Handlers
      /\ Webhooks \subseteq Handlers
      /\ deliveryOrder \in [Creators -> DeliveryStatus \cup {None}]
      /\ pc[w] = "status" /\ job' = job /\ failed' = failed
      /\ UNCHANGED <<orderStatus, placed>>
      /\ pc' = [pc EXCEPT ![w] =
                  IF OrderStatusOf(job[w].status) = Same THEN "done" ELSE "tell"]
      /\ deliveryOrder' = [deliveryOrder EXCEPT ![job[w].about] = job[w].status]
  BY DEF PlacedInv, ShapeInv, TypeOK, Handlers, WebhookStatus, Goto
<1>2. CASE job[w].about # d
  <2>1. deliveryOrder'[d] = deliveryOrder[d] BY <1>1, <1>2
  <2>2. ASSUME NEW v \in About(d) PROVE pc'[v] = pc[v]
    BY <1>1, <1>2 DEF About
  <2>3. ASSUME NEW v \in About(d)' PROVE v \in About(d) /\ pc'[v] = pc[v]
    BY <1>1, <1>2 DEF About
  <2>4. Apart(d)' => Apart(d)
    BY <1>1, GrownApart
       DEF PlacedInv, ShapeInv, CreatorShape, WebhookShape, Handlers
  <2>5. Apart(d)' => Told(d) /\ Agreed(d) BY <2>4 DEF RecordsInv
  <2>6. Apart(d)' => Told(d)' BY <1>1, <2>1, <2>3, <2>5 DEF Told
  <2>7. ASSUME Apart(d)', About(d)' # {}, Known(placed[d])' = {d},
               orderStatus'[placed'[d]] # None,
               OrderStatusOf(deliveryOrder'[d]) # Same
        PROVE  \/ orderStatus'[placed'[d]] = OrderStatusOf(deliveryOrder'[d])
               \/ \E v \in About(d)' : pc'[v] # "done"
    <3>0. About(d) # {} /\ deliveryOrder[d] # None
      BY <2>3, <2>7, NoneAssumption DEF RecordsInv, ReportOK, About
    <3>1. placed[d] # None BY <3>0 DEF PlacedInv, PlacedOK
    <3>2. /\ About(d) \subseteq About(d)' /\ Known(placed[d]) = {d}
      BY <1>1, <2>1, <2>7, <3>0, <3>1, GrownApart
         DEF PlacedInv, ShapeInv, CreatorShape, WebhookShape, Handlers
    <3>3. QED BY <1>1, <2>1, <2>2, <2>5, <2>7, <3>0, <3>2 DEF Agreed
  <2>8. QED BY <2>6, <2>7 DEF Agreed
<1>3. CASE job[w].about = d
  <2> SUFFICES ASSUME Apart(d)' PROVE Told(d)' /\ Agreed(d)' OBVIOUS
  <2>1. deliveryOrder'[d] = job[w].status BY <1>1, <1>3
  <2>2. Apart(d) /\ w \in About(d) /\ w \in About(d)'
    BY <1>1, <1>3, GrownApart
       DEF PlacedInv, ShapeInv, CreatorShape, WebhookShape, Handlers, About
  <2>3. ASSUME NEW v \in About(d)', pc'[v] = "tell" PROVE v = w
    <3>1. SUFFICES ASSUME v # w PROVE FALSE OBVIOUS
    <3>2. v \in About(d) /\ pc[v] = "tell" BY <1>1, <2>3, <3>1 DEF About
    <3>3. QED BY <1>1, <2>2, <3>1, <3>2, OneRuns
  <2>4. Told(d)' BY <1>1, <2>1, <2>3 DEF Told
  <2>5. OrderStatusOf(deliveryOrder'[d]) # Same => pc'[w] = "tell"
    BY <1>1, <2>1
  <2>6. Agreed(d)' BY <2>2, <2>5 DEF Agreed
  <2>7. QED BY <2>4, <2>6
<1>4. QED BY <1>2, <1>3

\* The order takes the status of the delivery it is told about; if that is not
\* the delivery d, d is not the order's only one.
LEMMA TellRecords ==
  ASSUME PlacedInv, RecordsInv, Grown, NoneAssumption, NEW w \in Webhooks, TellOrder(w),
         NEW d \in Creators
  PROVE  Apart(d)' => Told(d)' /\ Agreed(d)'
<1>1. /\ pc \in [Handlers -> Places] /\ w \in Handlers
      /\ Webhooks \subseteq Handlers
      /\ orderStatus \in [Orders -> Status \cup {None}]
      /\ pc[w] = "tell" /\ job' = job /\ failed' = failed
      /\ UNCHANGED <<placed, deliveryOrder>>
      /\ pc' = [pc EXCEPT ![w] = "done"]
  BY DEF PlacedInv, ShapeInv, TypeOK, Handlers, TellOrder, Goto
<1>2. /\ job[w].about \in Creators /\ job[w].order = placed[job[w].about]
      /\ deliveryOrder[job[w].about] # None /\ job[w].order \in Orders
      /\ orderStatus' =
           IF orderStatus[job[w].order] = None THEN orderStatus
           ELSE [orderStatus EXCEPT ![job[w].order] =
                                      OrderStatusOf(job[w].status)]
  BY <1>1 DEF PlacedInv, ShapeInv, WebhookShape, RecordsInv, ReportOK, Job,
              TellOrder
<1>3. \A v \in Webhooks : pc'[v] = "tell" => pc[v] = "tell" BY <1>1
<1>4. CASE job[w].about # d /\ placed[d] # job[w].order
  <2>1. \A v \in About(d) : pc'[v] = pc[v] BY <1>1, <1>4 DEF About
  <2>2. orderStatus'[placed[d]] = orderStatus[placed[d]]
    BY <1>1, <1>2, <1>4
  <2>3. About(d)' \subseteq About(d) BY <1>1, <1>4 DEF About
  <2>4. About(d) # {} \/ \A v \in About(d)' : pc'[v] # "done" BY <2>3
  <2>5. QED BY <1>1, <1>3, <2>1, <2>2, <2>4, RecordsFrame
<1>5. CASE job[w].about # d /\ placed[d] = job[w].order
  <2>1. Known(placed[d])' # {d}
    BY <1>1, <1>2, <1>5 DEF Known
  <2>2. Agreed(d)' BY <1>1, <2>1 DEF Agreed
  <2>3. Apart(d)' => Apart(d)
    BY GrownApart
       DEF PlacedInv, ShapeInv, CreatorShape, WebhookShape, Handlers
  <2>4. Apart(d)' => Told(d)'
    BY <1>1, <1>3, <2>3 DEF RecordsInv, Told, About
  <2>5. QED BY <2>2, <2>4
<1>6. CASE job[w].about = d
  <2> SUFFICES ASSUME Apart(d)' PROVE Told(d)' /\ Agreed(d)' OBVIOUS
  <2>1. Apart(d)
    BY GrownApart
       DEF PlacedInv, ShapeInv, CreatorShape, WebhookShape, Handlers
  <2>2. Told(d) /\ w \in About(d) BY <1>1, <1>6, <2>1 DEF RecordsInv, About
  <2>3. job[w].status = deliveryOrder[d] BY <1>1, <2>2 DEF Told
  <2>4. Told(d)' BY <1>1, <1>3, <2>2 DEF Told, About
  <2>5. orderStatus'[placed[d]] # None
          => orderStatus'[placed[d]] = OrderStatusOf(deliveryOrder[d])
    BY <1>1, <1>2, <1>6, <2>3
  <2>6. Agreed(d)' BY <1>1, <2>5 DEF Agreed
  <2>7. QED BY <2>4, <2>6
<1>7. QED BY <1>4, <1>5, <1>6

LEMMA RecordsStep ==
  ASSUME PlacedInv, RecordsInv, Next, NoneAssumption, NEW d \in Creators
  PROVE  Apart(d)' => Told(d)' /\ Agreed(d)'
<1>1. /\ Grown /\ pc \in [Handlers -> Places]
      /\ deliveryOrder \in [Creators -> DeliveryStatus \cup {None}]
      /\ orderStatus \in [Orders -> Status \cup {None}]
      /\ Creators \subseteq Handlers /\ Webhooks \subseteq Handlers
      /\ Dispatches \subseteq Creators /\ Posts \subseteq Creators
      /\ Creators \cap Webhooks = {}
  BY Grows, HandlersAssumption
     DEF PlacedInv, ShapeInv, TypeOK, Handlers, Creators
<1>2. ASSUME NEW h \in Handlers, NEW j, NEW place, Start(h, j, place),
             place # "tell", h \in Creators \/ place # "done" \/ j.about = None,
             UNCHANGED <<orderStatus, placed, deliveryOrder, failed>>
      PROVE  Apart(d)' => Told(d)' /\ Agreed(d)'
  <2>1. /\ pc[h] = "idle" /\ job \in [Handlers -> Job \cup {None}]
        /\ pc' = [pc EXCEPT ![h] = place] /\ job' = [job EXCEPT ![h] = j]
    BY <1>2 DEF Start, PlacedInv, ShapeInv, TypeOK
  <2>2. \A w \in Webhooks : pc'[w] = "tell" <=> pc[w] = "tell"
    BY <1>1, <1>2, <2>1
  <2>3. \A w \in About(d) : pc'[w] = pc[w]
    BY <1>1, <2>1 DEF About
  <2>4. \A w \in About(d)' : w \in About(d) \/ pc'[w] # "done"
    BY <1>1, <1>2, <2>1, NoneAssumption DEF About
  <2>5. About(d) # {} \/ \A w \in About(d)' : pc'[w] # "done" BY <2>4
  <2>6. QED BY <1>1, <1>2, <2>2, <2>3, <2>5, RecordsFrame
<1>3. ASSUME NEW o \in Orders, NEW e \in Creators, Dispatch(e, o) \/ Post(e, o)
      PROVE  Apart(d)' => Told(d)' /\ Agreed(d)'
  BY <1>1, <1>2, <1>3 DEF Dispatch, Post
<1>4. ASSUME NEW w \in Webhooks, NEW e \in Creators, NEW r,
             WebhookFind(w, e, r)
      PROVE  Apart(d)' => Told(d)' /\ Agreed(d)'
  BY <1>1, <1>2, <1>4 DEF WebhookFind
<1>5. ASSUME NEW o \in Orders, DeleteOrder(o)
      PROVE  Apart(d)' => Told(d)' /\ Agreed(d)'
  <2>1. /\ UNCHANGED <<placed, deliveryOrder, pc, job, failed>>
        /\ \A q \in Orders : orderStatus'[q] \in {orderStatus[q], None}
    BY <1>1, <1>5 DEF DeleteOrder
  <2>2. placed[d] # None => placed[d] \in Orders
    BY DEF PlacedInv, ShapeInv, TypeOK
  <2>3. About(d)' = About(d) BY <2>1 DEF About
  <2>4. About(d) # {} \/ \A w \in About(d)' : pc'[w] # "done" BY <2>3
  <2>5. QED BY <1>1, <2>1, <2>2, <2>4, RecordsFrame
<1>6. ASSUME NEW h \in Handlers, Abort(h)
      PROVE  Apart(d)' => Told(d)' /\ Agreed(d)'
  <2>1. /\ UNCHANGED <<orderStatus, placed, deliveryOrder, job>>
        /\ pc' = [pc EXCEPT ![h] = "done"] /\ failed' = failed \cup {h}
    BY <1>6 DEF Abort
  <2>2. \A w \in Webhooks : /\ pc'[w] = "tell" => pc[w] = "tell"
                            /\ pc[w] # "done" => pc'[w] # "done" \/ w \in failed'
    BY <1>1, <2>1
  <2>3. About(d)' \subseteq About(d)
    BY <1>1, <1>6, <2>1 DEF About, Abort, Running
  <2>4. About(d) # {} \/ \A w \in About(d)' : pc'[w] # "done" BY <2>3
  <2>5. \A w \in About(d) : w \in Webhooks BY DEF About
  <2>6. QED BY <1>1, <2>1, <2>2, <2>4, <2>5, RecordsFrame
<1>7. ASSUME NEW e \in Creators, CreatorStep(e)
      PROVE  Apart(d)' => Told(d)' /\ Agreed(d)'
  <2>1. /\ job' = job /\ failed' = failed /\ orderStatus' = orderStatus
        /\ \E place : pc' = [pc EXCEPT ![e] = place]
    BY <1>7 DEF CreatorStep, DispatchCheck, FindOrder, PlaceWithProvider,
                SaveDelivery, Goto
  <2>2. \A w \in Webhooks : pc'[w] = pc[w] BY <1>1, <2>1
  <2>3. CASE deliveryOrder'[d] = deliveryOrder[d]
    <3>1. About(d)' = About(d) BY <2>1, <2>2 DEF About
    <3>2. About(d) # {} \/ \A w \in About(d)' : pc'[w] # "done" BY <3>1
    <3>3. \A w \in About(d) : w \in Webhooks BY DEF About
    <3>4. QED BY <1>1, <2>1, <2>2, <2>3, <3>2, <3>3, RecordsFrame
  <2>4. CASE deliveryOrder'[d] # deliveryOrder[d]
    <3>1. SaveDelivery(e) /\ d = e
      BY <1>1, <1>7, <2>4
         DEF CreatorStep, DispatchCheck, FindOrder, PlaceWithProvider,
             SaveDelivery
    <3>2. deliveryOrder[d] = None
      BY <3>1 DEF SaveDelivery, Goto, RecordsInv
    <3>3. About(d)' = {}
      <4>1. SUFFICES ASSUME NEW w \in About(d)' PROVE FALSE OBVIOUS
      <4>2. w \in Webhooks /\ pc[w] # "idle" /\ job[w].about = d
        BY <2>1, <2>2 DEF About
      <4>3. QED BY <3>2, <4>2, NoneAssumption DEF RecordsInv, ReportOK
    <3>4. Told(d)' /\ Agreed(d)' BY <3>3 DEF Told, Agreed
    <3>5. QED BY <3>4
  <2>5. QED BY <2>3, <2>4
<1>8. ASSUME NEW w \in Webhooks, WebhookStep(w)
      PROVE  Apart(d)' => Told(d)' /\ Agreed(d)'
  BY <1>1, <1>8, StatusRecords, TellRecords DEF WebhookStep
<1>9. QED BY <1>1, <1>3, <1>4, <1>5, <1>6, <1>7, <1>8 DEF Next

\* For any number of orders, deliveries and webhooks: as long as the webhooks
\* about a delivery come one after the other and none fails, from the first of
\* them on the order of which it is the only delivery shows what it says,
\* whatever the provider's answer was, whatever overlaps otherwise and in
\* whatever order and however often the provider reports.
THEOREM RecordsStayTogether == Spec => []RecordsAgree
<1>1. PlacedInv /\ [Next]_vars => PlacedInv'
  BY NextPlaced, HandlersAssumption, NoneAssumption
<1>2. Init => RecordsInv
  BY NoneAssumption DEF Init, RecordsInv, ReportOK, Told, Agreed, About,
                        Handlers, Creators
<1>3. PlacedInv /\ RecordsInv /\ [Next]_vars => RecordsInv'
  <2> SUFFICES ASSUME PlacedInv, RecordsInv, [Next]_vars PROVE RecordsInv'
    OBVIOUS
  <2>1. CASE Next
    BY <2>1, ReportsStep, SavesOnce, RecordsStep, NoneAssumption
       DEF RecordsInv
  <2>2. CASE UNCHANGED vars
    BY <2>2 DEF vars, RecordsInv, ReportOK, Apart, Told, Agreed, About, Known
  <2>3. QED BY <2>1, <2>2
<1>4. PlacedInv /\ RecordsInv => RecordsAgree
  <2> SUFFICES ASSUME PlacedInv, RecordsInv,
                      NEW o \in Orders, NEW d \in Creators,
                      OneByOne(d), About(d) # {}, orderStatus[o] # None,
                      Known(o) = {d}, OrderStatusOf(deliveryOrder[d]) # Same
               PROVE  orderStatus[o] = OrderStatusOf(deliveryOrder[d])
    BY DEF RecordsAgree
  <2>1. placed[d] = o BY DEF Known
  <2>2. Apart(d) /\ Agreed(d) BY DEF OneByOne, RecordsInv
  <2>3. ~\E w \in About(d) : pc[w] # "done"
    BY DEF OneByOne, Running, About, Handlers
  <2>4. QED BY <2>1, <2>2, <2>3 DEF Agreed
<1>5. QED BY InitPlaced, <1>1, <1>2, <1>3, <1>4, PTL DEF Spec

-----------------------------------------------------------------------------
(* The printing app: pages and types                                         *)

\* The least and the greatest of some numbers.
LEMMA LeastOf ==
  ASSUME NEW S \in SUBSET Nat, S # {}
  PROVE  \E x \in S : \A y \in S : x <= y
<1> DEFINE R == OpToRel(<, Nat)
<1>1. IsWellFoundedOn(R, Nat) BY NatLessThanWellFounded
<1>2. PICK x \in S : \A y \in S : <<y, x>> \notin R BY <1>1, WFMin, Zenon
<1>3. \A y \in S : ~(y < x) BY <1>2 DEF OpToRel
<1>4. QED BY <1>3

LEMMA MaxOf ==
  ASSUME NEW n \in Nat, NEW S \in SUBSET (0..n), S # {}
  PROVE  Printing!Max(S) \in S /\ \A y \in S : y <= Printing!Max(S)
<1> DEFINE T == {n - x : x \in S}
<1>1. \A x \in S : x \in Int /\ n - x \in Nat OBVIOUS
<1>2. T \in SUBSET Nat /\ T # {} BY <1>1
<1>3. PICK t \in T : \A u \in T : t <= u BY <1>2, LeastOf
<1>4. PICK x \in S : t = n - x OBVIOUS
<1>5. \A y \in S : n - x <= n - y BY <1>3, <1>4
<1>6. \A y \in S : x >= y BY <1>1, <1>5
<1>7. Printing!Max(S) \in S /\ \A y \in S : Printing!Max(S) >= y
  BY <1>6 DEF Printing!Max
<1>8. QED BY <1>1, <1>7

LEMMA MinOfTwo ==
  ASSUME NEW a \in Int, NEW b \in Int, a <= b
  PROVE  Printing!Min({b, a}) = a
<1>1. \A y \in {b, a} : a <= y OBVIOUS
<1>2. \A x \in {b, a} : (\A y \in {b, a} : x <= y) => x = a OBVIOUS
<1>3. QED BY <1>1, <1>2 DEF Printing!Min

\* What the instance counts is what is counted here.
LEMMA SameCount == ASSUME NEW T PROVE Printing!Cardinality(T) = Cardinality(T)
BY Zenon DEF Printing!Cardinality, Cardinality

\* A page that leaves something out is of more than a page.
LEMMA PageWhole ==
  ASSUME PrintingAssumption, NEW all \in SUBSET Orders,
         NEW S, Printing!IsPage(S, all)
  PROVE  /\ S \subseteq all
         /\ S = all \/ Printing!Cardinality(all) > Printing!PageSize
<1>1. /\ IsFiniteSet(all) /\ Cardinality(all) \in Nat
      /\ S \subseteq all
      /\ Cardinality(S) = Printing!Min({Printing!PageSize, Cardinality(all)})
  <2>1. IsFiniteSet(all) BY FS_Subset DEF PrintingAssumption
  <2>2. QED BY <2>1, FS_CardinalityType, SameCount DEF Printing!IsPage
<1>2. Printing!PageSize \in Int BY DEF Printing!PageSize, PrintingAssumption
<1>3. ASSUME Cardinality(all) <= Printing!PageSize PROVE S = all
  <2>1. Cardinality(S) = Cardinality(all) BY <1>1, <1>2, <1>3, MinOfTwo
  <2>2. QED BY <1>1, <2>1, FS_Subset
<1>4. QED BY <1>1, <1>2, <1>3, SameCount

Polls ==
  [step : {"none", "orders", "answer"}, orders : SUBSET Orders,
   late : SUBSET Orders, crowd : SUBSET Orders, jobs : SUBSET Jobs,
   nowIso : 0..LastMinute, repeats : SUBSET Jobs]
PrintsTyped == Printing!TypeOK /\ poll \in Polls
PrintsHold == PrintsTyped /\ Printing!PrintInv

LEMMA PrintsBegin == ASSUME PrintingAssumption PROVE Printing!Init => PrintsHold
<1> SUFFICES ASSUME Printing!Init PROVE PrintsHold OBVIOUS
<1> USE DEF Printing!Init
<1>1. Printing!NoPoll \in Polls
  BY DEF Printing!NoPoll, Polls, PrintingAssumption
<1>2. poll.step = "none" /\ poll.orders = {} /\ poll.jobs = {} /\ poll.repeats = {}
  BY DEF Printing!NoPoll
<1>3. PrintsTyped
  BY <1>1, <1>2 DEF PrintsTyped, Printing!TypeOK, PrintingAssumption
<1>4. Printing!PrintInv
  BY <1>2 DEF Printing!PrintInv, Printing!OrderOK, Printing!PollOK
<1>5. QED BY <1>3, <1>4 DEF PrintsHold

-----------------------------------------------------------------------------
(* The printing app: the steps                                               *)

\* What an order undergoes.
LEMMA OrdersTurn ==
  ASSUME PrintingAssumption, PrintsHold, NEW o \in Orders,
         \/ Printing!Stamp(o) \/ Printing!Insert(o)
         \/ Printing!Settle(o) \/ Printing!Delete(o)
  PROVE  PrintsHold'
<1> USE DEF PrintsHold, PrintsTyped, PrintingAssumption, Printing!TypeOK
<1>1. UNCHANGED <<now, printJob, poll, acking, acked, cursor, received,
                  printed, late, crowded>>
  BY DEF Printing!Stamp, Printing!Insert, Printing!Settle, Printing!Delete,
         Printing!Turns, Printing!app
<1>2. /\ \/ state[o] = "absent" /\ createdAt' = [createdAt EXCEPT ![o] = now]
            /\ state' = [state EXCEPT ![o] = "stamped"]
         \/ /\ state[o] # "absent" /\ createdAt' = createdAt
            /\ state[o] # "deleted"
            /\ \E to \in {"pending", "settled", "deleted"} :
                 state' = [state EXCEPT ![o] = to]
  BY DEF Printing!Stamp, Printing!Insert, Printing!Settle, Printing!Delete,
         Printing!Turns
<1>3. /\ state' \in [Orders -> {"absent", "stamped", "pending", "settled", "deleted"}]
      /\ createdAt' \in [Orders -> 0..LastMinute]
  BY <1>2
<1>4. PrintsTyped' BY <1>1, <1>3
<1>5. ASSUME NEW q \in Orders PROVE (Printing!OrderOK(q) /\ Printing!PollOK(q))'
  <2>1. Printing!OrderOK(q) /\ Printing!PollOK(q) BY DEF Printing!PrintInv
  <2>2. CASE q # o
    <3>1. state'[q] = state[q] /\ createdAt'[q] = createdAt[q] BY <1>2, <2>2
    <3>2. QED BY <1>1, <2>1, <3>1 DEF Printing!OrderOK, Printing!PollOK
  <2>3. CASE q = o /\ state[o] = "absent"
    <3>1. state'[o] = "stamped" /\ createdAt'[o] = now BY <1>2, <2>3
    <3>2. printed[o] = 0 /\ (cursor # -1 => o \in late)
      BY <2>1, <2>3 DEF Printing!OrderOK
    <3>3. cursor <= now BY DEF Printing!PrintInv
    <3>4. Printing!OrderOK(o)'
      BY <1>1, <3>1, <3>2, <3>3 DEF Printing!OrderOK
    <3>5. poll.step # "none" => o \in poll.late /\ o \notin poll.orders
      BY <2>1, <2>3 DEF Printing!PollOK
    <3>6. Printing!PollOK(o)' BY <1>1, <3>5 DEF Printing!PollOK
    <3>7. QED BY <2>3, <3>4, <3>6
  <2>4. CASE q = o /\ state[o] # "absent"
    <3>1. /\ createdAt' = createdAt /\ state'[o] # "absent"
          /\ state[o] # "deleted"
      BY <1>2, <2>4
    <3>2. QED BY <1>1, <2>1, <2>4, <3>1 DEF Printing!OrderOK, Printing!PollOK
  <2>5. QED BY <2>2, <2>3, <2>4
<1>6. Printing!PrintInv' BY <1>1, <1>5 DEF Printing!PrintInv
<1>7. QED BY <1>4, <1>6

\* What a job undergoes, and the clock.
LEMMA JobsTurn ==
  ASSUME PrintingAssumption, PrintsHold,
         \/ \E j \in Jobs :
              \/ Printing!Reprint(j) \/ Printing!ExpireJob(j)
              \/ \E status \in {"printed", "failed"} : Printing!AckFind(j, status)
         \/ \E a \in acking : Printing!AckUpdate(a) \/ Printing!AckFails(a)
         \/ Printing!Tick
  PROVE  PrintsHold'
<1> USE DEF PrintsHold, PrintsTyped, PrintingAssumption, Printing!TypeOK
<1> DEFINE Kept == UNCHANGED <<state, createdAt, poll, cursor, printed, late,
                               crowded>>
           Answered == \A j \in acked : printJob[j] \notin {"absent", "queued"}
<1>1. ASSUME Kept, PrintsTyped', now' >= now, Answered' PROVE PrintsHold'
  <2>1. ASSUME NEW q \in Orders PROVE (Printing!OrderOK(q) /\ Printing!PollOK(q))'
    <3>1. Printing!OrderOK(q) /\ Printing!PollOK(q) BY DEF Printing!PrintInv
    <3>2. QED BY <1>1, <3>1 DEF Printing!OrderOK, Printing!PollOK
  <2>2. (poll.step = "answer" => cursor <= poll.nowIso /\ poll.nowIso <= now)'
    BY <1>1 DEF Printing!PrintInv, Polls
  <2>3. (cursor <= now)' BY <1>1 DEF Printing!PrintInv
  <2>4. QED BY <1>1, <2>1, <2>2, <2>3 DEF Printing!PrintInv
<1>2. Answered BY DEF Printing!PrintInv
<1>3. ASSUME NEW j \in Jobs, Printing!Reprint(j) PROVE PrintsHold'
  <2>1. /\ Kept /\ UNCHANGED <<now, received, acking, acked>>
        /\ printJob[j] = "absent"
        /\ printJob' = [printJob EXCEPT ![j] = "queued"]
    BY <1>3 DEF Printing!Reprint, Printing!ordersKept, Printing!app
  <2>2. Answered' BY <1>2, <2>1
  <2>3. PrintsTyped' BY <2>1
  <2>4. QED BY <1>1, <2>1, <2>2, <2>3
<1>4. ASSUME NEW j \in Jobs, Printing!ExpireJob(j) PROVE PrintsHold'
  <2>1. /\ Kept /\ UNCHANGED <<now, received, acking, acked>>
        /\ printJob' = [printJob EXCEPT ![j] = "expired"]
    BY <1>4 DEF Printing!ExpireJob, Printing!ordersKept, Printing!app
  <2>2. Answered' BY <1>2, <2>1
  <2>3. PrintsTyped' BY <2>1
  <2>4. QED BY <1>1, <2>1, <2>2, <2>3
<1>5. ASSUME NEW j \in Jobs, NEW status \in {"printed", "failed"},
             Printing!AckFind(j, status)
      PROVE  PrintsHold'
  <2>1. /\ Kept /\ UNCHANGED <<now, received, printJob, acked>>
        /\ acking' = acking \cup {[job |-> j, status |-> status]}
    BY <1>5 DEF Printing!AckFind, Printing!ordersKept, Printing!app
  <2>2. PrintsTyped' BY <2>1
  <2>3. QED BY <1>1, <1>2, <2>1, <2>2
<1>6. ASSUME NEW a \in acking, Printing!AckUpdate(a) PROVE PrintsHold'
  <2>1. /\ Kept /\ UNCHANGED now
        /\ acking' = acking \ {a}
        /\ printJob' = [printJob EXCEPT ![a.job] =
                          IF @ = "expired" THEN @ ELSE a.status]
        /\ acked' = acked \cup {a.job}
        /\ received' = received \ {a.job}
    BY <1>6 DEF Printing!AckUpdate, Printing!ordersKept
  <2>2. a.job \in Jobs /\ a.status \in {"printed", "failed"} OBVIOUS
  <2>3. Answered' BY <1>2, <2>1, <2>2
  <2>4. PrintsTyped' BY <2>1, <2>2
  <2>5. QED BY <1>1, <2>1, <2>3, <2>4
<1>7. ASSUME NEW a \in acking, Printing!AckFails(a) PROVE PrintsHold'
  <2>1. /\ Kept /\ UNCHANGED <<now, received, printJob, acked>>
        /\ acking' = acking \ {a}
    BY <1>7 DEF Printing!AckFails, Printing!ordersKept, Printing!app
  <2>2. PrintsTyped' BY <2>1
  <2>3. QED BY <1>1, <1>2, <2>1, <2>2
<1>8. ASSUME Printing!Tick PROVE PrintsHold'
  <2>1. /\ Kept /\ UNCHANGED <<received, printJob, acking, acked>>
        /\ now < LastMinute /\ now' = now + 1
    BY <1>8 DEF Printing!Tick, Printing!ordersKept, Printing!app
  <2>2. PrintsTyped' BY <2>1
  <2>3. QED BY <1>1, <1>2, <2>1, <2>2
<1>9. QED BY <1>3, <1>4, <1>5, <1>6, <1>7, <1>8

\* No poll is under way afterwards, and nothing else changes.
LEMMA PollLost ==
  ASSUME PrintingAssumption, PrintsHold, Printing!Lose PROVE PrintsHold'
<1> USE DEF PrintsHold, PrintsTyped, PrintingAssumption, Printing!TypeOK
<1>1. /\ poll' = Printing!NoPoll
      /\ UNCHANGED <<now, state, createdAt, printJob, cursor, received, acking,
                     printed, late, crowded, acked>>
  BY DEF Printing!Lose, Printing!ordersKept, Printing!app
<1>2. /\ poll' \in Polls /\ poll'.step = "none" /\ poll'.orders = {}
      /\ poll'.jobs = {} /\ poll'.repeats = {}
  BY <1>1 DEF Printing!NoPoll, Polls
<1>3. PrintsTyped' BY <1>1, <1>2
<1>4. Printing!PrintInv'
  BY <1>1, <1>2 DEF Printing!PrintInv, Printing!OrderOK, Printing!PollOK
<1>5. QED BY <1>3, <1>4

\* The page that a poll reads: what it leaves out is late, crowded or passed.
LEMMA PollReads ==
  ASSUME PrintingAssumption, PrintsHold, Printing!PollOrders PROVE PrintsHold'
<1> USE DEF PrintsHold, PrintsTyped, PrintingAssumption, Printing!TypeOK
<1> DEFINE all == Printing!Candidates(cursor)
           unsettled == {o \in Orders : state[o] # "settled"}
           crowd == IF Printing!Cardinality(Printing!SettledSince(cursor))
                         > Printing!PageSize
                    THEN Printing!SettledSince(cursor) ELSE {}
<1>1. PICK S \in SUBSET all :
        /\ Printing!IsPage(S, all)
        /\ poll' = [Printing!NoPoll EXCEPT
             !.step = "orders", !.orders = S, !.late = unsettled, !.crowd = crowd]
  BY DEF Printing!PollOrders
<1>2. UNCHANGED <<now, state, createdAt, printJob, cursor, received, acking,
                  printed, late, crowded, acked>>
  BY DEF Printing!PollOrders, Printing!ordersKept, Printing!app
<1>3. all \in SUBSET Orders /\ all = Printing!SettledSince(cursor)
  BY DEF Printing!Candidates, Printing!SettledSince
<1>4. S = all \/ crowd = all
  <2>1. S = all \/ Printing!Cardinality(all) > Printing!PageSize
    BY <1>1, <1>3, PageWhole
  <2>2. QED BY <1>3, <2>1
<1>5. /\ S \in SUBSET Orders /\ unsettled \in SUBSET Orders
      /\ crowd \in SUBSET Orders
  BY <1>3
<1>6. /\ poll' \in Polls /\ poll'.step = "orders" /\ poll'.orders = S
      /\ poll'.late = unsettled /\ poll'.crowd = crowd
      /\ poll'.jobs = {} /\ poll'.repeats = {}
  <2> HIDE DEF all, unsettled, crowd
  <2>1. poll' = [step |-> "orders", orders |-> S, late |-> unsettled,
                 crowd |-> crowd, jobs |-> {}, nowIso |-> 0, repeats |-> {}]
    BY <1>1 DEF Printing!NoPoll
  <2>2. QED BY <1>5, <2>1 DEF Polls
<1>7. PrintsTyped' BY <1>1, <1>2, <1>3, <1>6
<1>8. ASSUME NEW o \in Orders PROVE (Printing!OrderOK(o) /\ Printing!PollOK(o))'
  <2>1. Printing!OrderOK(o)' BY <1>2 DEF Printing!PrintInv, Printing!OrderOK
  <2>2. o \in all <=> state[o] = "settled" /\ createdAt[o] > cursor
    BY DEF Printing!Candidates
  <2>3. o \in S => state[o] # "absent" /\ createdAt[o] > cursor
    BY <1>1, <2>2
  <2>4. o \in unsettled \cup S \cup crowd \/ createdAt[o] <= cursor
    BY <1>4, <2>2
  <2>5. state[o] = "absent" => o \in unsettled OBVIOUS
  <2>6. Printing!PollOK(o)'
    BY <1>2, <1>6, <2>3, <2>4, <2>5 DEF Printing!PollOK
  <2>7. QED BY <2>1, <2>6
<1>9. Printing!PrintInv' BY <1>2, <1>6, <1>8 DEF Printing!PrintInv
<1>10. QED BY <1>7, <1>9

\* The jobs that a poll reads, none of them acknowledged.
LEMMA PollJoins ==
  ASSUME PrintingAssumption, PrintsHold, Printing!PollJobs PROVE PrintsHold'
<1> USE DEF PrintsHold, PrintsTyped, PrintingAssumption, Printing!TypeOK
<1> DEFINE queued == {j \in Jobs : printJob[j] = "queued"}
<1>1. /\ poll.step = "orders"
      /\ poll' = [poll EXCEPT !.step = "answer", !.jobs = queued,
                              !.nowIso = now, !.repeats = queued \cap acked]
      /\ UNCHANGED <<now, state, createdAt, printJob, cursor, received, acking,
                     printed, late, crowded, acked>>
  BY DEF Printing!PollJobs, Printing!ordersKept, Printing!app
<1>2. queued \cap acked = {} BY DEF Printing!PrintInv
<1>3. /\ poll' \in Polls /\ poll'.step = "answer" /\ poll'.nowIso = now
      /\ poll'.repeats = {}
      /\ poll'.orders = poll.orders /\ poll'.late = poll.late
      /\ poll'.crowd = poll.crowd
  BY <1>1, <1>2 DEF Polls
<1>4. PrintsTyped' BY <1>1, <1>3 DEF Polls
<1>5. ASSUME NEW o \in Orders PROVE (Printing!OrderOK(o) /\ Printing!PollOK(o))'
  <2>1. Printing!OrderOK(o) /\ Printing!PollOK(o) BY DEF Printing!PrintInv
  <2>2. QED BY <1>1, <1>3, <2>1 DEF Printing!OrderOK, Printing!PollOK
<1>6. Printing!PrintInv' BY <1>1, <1>3, <1>5 DEF Printing!PrintInv
<1>7. QED BY <1>4, <1>6

\* Wherever the cursor moves: past what is printed, and not past the clock.
LEMMA CursorMoves ==
  ASSUME PrintingAssumption, PrintsHold, Printing!Receive
  PROVE  /\ cursor' \in 0..LastMinute \/ cursor' = cursor
         /\ cursor <= cursor' /\ cursor' <= now
         /\ \A o \in poll.orders : createdAt[o] <= cursor'
<1> USE DEF PrintsHold, PrintsTyped, PrintingAssumption, Printing!TypeOK
<1> DEFINE times == {createdAt[o] : o \in poll.orders}
<1>1. /\ cursor' \in {Printing!Newest, poll.nowIso} /\ poll.step = "answer"
      /\ poll.nowIso \in 0..LastMinute
  BY DEF Printing!Receive, Polls
<1>2. cursor <= poll.nowIso /\ poll.nowIso <= now BY <1>1 DEF Printing!PrintInv
<1>3. \A o \in poll.orders : createdAt[o] > cursor /\ createdAt[o] <= poll.nowIso
  BY <1>1 DEF Printing!PrintInv, Printing!PollOK
<1>4. CASE cursor' = poll.nowIso BY <1>1, <1>2, <1>3, <1>4
<1>5. CASE cursor' = Printing!Newest /\ poll.orders = {}
  BY <1>1, <1>2, <1>5 DEF Printing!Newest
<1>6. CASE cursor' = Printing!Newest /\ poll.orders # {}
  <2>1. times \in SUBSET (0..LastMinute) /\ times # {} BY <1>6
  <2>2. cursor' = Printing!Max(times) BY <1>6 DEF Printing!Newest
  <2>3. cursor' \in times /\ \A t \in times : t <= cursor'
    BY <2>1, <2>2, MaxOf
  <2>4. PICK o \in poll.orders : cursor' = createdAt[o] BY <2>3
  <2>5. QED BY <1>1, <1>2, <1>3, <2>1, <2>3, <2>4
<1>7. QED BY <1>1, <1>4, <1>5, <1>6

\* What was handed over is printed, and is what the cursor passes.
LEMMA PollReceived ==
  ASSUME PrintingAssumption, PrintsHold, Printing!Receive PROVE PrintsHold'
<1> USE DEF PrintsHold, PrintsTyped, PrintingAssumption, Printing!TypeOK
<1>1. /\ poll.step = "answer"
      /\ printed' = [o \in Orders |->
                       printed[o] + IF o \in poll.orders THEN 1 ELSE 0]
      /\ received' = received \cup poll.jobs
      /\ late' = late \cup poll.late
      /\ crowded' = crowded \cup poll.crowd
      /\ poll' = Printing!NoPoll
      /\ UNCHANGED <<now, state, createdAt, printJob, acking, acked>>
  BY DEF Printing!Receive, Printing!ordersKept
<1>2. /\ poll' \in Polls /\ poll'.step = "none" /\ poll'.orders = {}
      /\ poll'.jobs = {} /\ poll'.repeats = {}
  BY <1>1 DEF Printing!NoPoll, Polls
<1>3. /\ cursor' \in -1..LastMinute /\ cursor <= cursor' /\ cursor' <= now
      /\ \A o \in poll.orders : createdAt[o] <= cursor'
  BY CursorMoves
<1>4. PrintsTyped' BY <1>1, <1>2, <1>3
<1>5. ASSUME NEW o \in Orders PROVE (Printing!OrderOK(o) /\ Printing!PollOK(o))'
  <2>1. Printing!OrderOK(o) /\ Printing!PollOK(o) BY DEF Printing!PrintInv
  <2>2. Printing!PollOK(o)' BY <1>2 DEF Printing!PollOK
  <2>3. CASE o \in poll.orders
    <3>1. state[o] # "absent" /\ createdAt[o] > cursor
      BY <1>1, <2>1, <2>3 DEF Printing!PollOK
    <3>2. printed[o] = 0 BY <2>1, <3>1 DEF Printing!OrderOK
    <3>3. printed'[o] = 1 /\ createdAt[o] <= cursor'
      BY <1>1, <1>3, <2>3, <3>2
    <3>4. QED BY <1>1, <2>1, <2>2, <3>1, <3>3 DEF Printing!OrderOK
  <2>4. CASE o \notin poll.orders
    <3>1. printed'[o] = printed[o] BY <1>1, <2>4
    <3>2. /\ state[o] = "absent" => o \in late'
          /\ o \in late' \cup crowded' \/ createdAt[o] <= cursor
      BY <1>1, <2>1, <2>4 DEF Printing!PollOK
    <3>3. late \subseteq late' /\ crowded \subseteq crowded' BY <1>1
    <3>4. Printing!OrderOK(o)'
      BY <1>1, <1>3, <2>1, <3>1, <3>2, <3>3 DEF Printing!OrderOK
    <3>5. QED BY <2>2, <3>4
  <2>5. QED BY <2>3, <2>4
<1>6. Printing!PrintInv' BY <1>1, <1>2, <1>3, <1>5 DEF Printing!PrintInv
<1>7. QED BY <1>4, <1>6

LEMMA PrintsStep ==
  ASSUME PrintingAssumption, PrintsHold, [Printing!Next]_prints PROVE PrintsHold'
<1>1. CASE Printing!Next
  BY <1>1, OrdersTurn, JobsTurn, PollLost, PollReads, PollJoins, PollReceived
  DEF Printing!Next
<1>2. CASE UNCHANGED prints
  BY <1>2 DEF prints, PrintsHold, PrintsTyped, Printing!TypeOK,
              Printing!PrintInv, Printing!OrderOK, Printing!PollOK
<1>3. QED BY <1>1, <1>2

\* For any number of orders and reprints, whatever page the app asks for, and
\* however its polls and acknowledgements fail or get lost: no order is printed
\* twice; one the cursor has passed and that was never printed was not settled
\* when a poll looked, or was one of more than a page; and no job acknowledged
\* is handed out again.
THEOREM PrintsAreExplained == MCSpec => []PrintsExplained
<1>1. MCInit => PrintsHold BY PrintsBegin, PrintingAssumption DEF MCInit
<1>2. [MCNext]_<<vars, part, clients, prints>> => [Printing!Next]_prints
  BY DEF MCNext
<1>3. PrintsHold /\ [MCNext]_<<vars, part, clients, prints>> => PrintsHold'
  BY <1>2, PrintsStep, PrintingAssumption
<1>4. PrintsHold => PrintsExplained
  <2> SUFFICES ASSUME PrintsHold PROVE PrintsExplained OBVIOUS
  <2>1. (\A o \in Orders : Printing!OrderOK(o)) /\ poll.repeats = {}
    BY DEF PrintsHold, Printing!PrintInv
  <2>2. QED BY <2>1 DEF PrintsExplained, Printing!PrintsExplained,
                        Printing!OrderOK
<1>5. QED BY <1>1, <1>3, <1>4, PTL DEF MCSpec

-----------------------------------------------------------------------------
(* The couriers' clients                                                     *)

\* The record a request holds, whatever it is to place.
Shape(doc) ==
  [kind : Couriers!Kinds, branch : Kitchens \cup {None}, left : SUBSET Kitchens,
   site : [Kitchens -> Couriers!Sites], free : BOOLEAN, found : SUBSET Kitchens,
   doc : {doc}, failed : SUBSET Kitchens, off : SUBSET Kitchens,
   reply : Couriers!Replies \cup {None}]
Shaped(j) == j \in Shape(j.doc)
Fits(place, j) ==
  /\ place \in Couriers!Places \ {"idle"}
  /\ Shaped(j)
  /\ place \in Couriers!Asking => Couriers!Underway(j)
  /\ place = "done" => Couriers!Explained(j)
ClientsHold ==
  /\ Asked /\ enabled \subseteq Kitchens
  /\ DOMAIN clientPc = Clients /\ DOMAIN clientJob = Clients
  /\ \A r \in Clients : clientPc[r] = "idle" \/ Fits(clientPc[r], clientJob[r])

\* A request that holds a fitting record at its next place.
LEMMA ClientMoves ==
  ASSUME ClientsHold, NEW r \in Clients, NEW place, NEW j,
         Couriers!To(r, place, j), Fits(place, j)
  PROVE  ClientsHold'
<1>1. /\ clientPc' = [clientPc EXCEPT ![r] = place]
      /\ clientJob' = [clientJob EXCEPT ![r] = j]
      /\ part' = part /\ enabled' = enabled
  BY DEF Couriers!To
<1>2. ASSUME NEW p, NEW k PROVE Fits(p, k)' <=> Fits(p, k)
  BY <1>1 DEF Fits, Shaped, Shape, Couriers!Underway, Couriers!Listed,
              Couriers!Explained, Couriers!Sold, Couriers!Unlucky
<1>3. ASSUME NEW q \in Clients
      PROVE  clientPc'[q] = "idle" \/ Fits(clientPc'[q], clientJob'[q])
  <2>1. CASE q = r
    <3>1. clientPc'[q] = place /\ clientJob'[q] = j
      BY <1>1, <2>1 DEF ClientsHold
    <3>2. QED BY <3>1
  <2>2. CASE q # r
    <3>1. clientPc'[q] = clientPc[q] /\ clientJob'[q] = clientJob[q]
      BY <1>1, <2>2 DEF ClientsHold
    <3>2. QED BY <3>1 DEF ClientsHold
  <2>3. QED BY <2>1, <2>2
<1>4. QED BY <1>1, <1>2, <1>3 DEF ClientsHold, Asked

\* An answer.
LEMMA ClientEnds ==
  ASSUME ClientsHold, NEW r \in Clients, NEW j, Shaped(j),
         NEW answer \in Couriers!Replies,
         Couriers!Ends(r, j, answer),
         Couriers!Explained([j EXCEPT !.reply = answer])
  PROVE  ClientsHold'
<1>1. Shaped([j EXCEPT !.reply = answer]) BY DEF Shaped, Shape
<1>2. Fits("done", [j EXCEPT !.reply = answer])
  BY <1>1 DEF Fits, Couriers!Places, Couriers!Asking
<1>3. QED BY <1>2, ClientMoves DEF Couriers!Ends

\* A list that has settled every branch that is not to come.
Progress(j) ==
  /\ ~j.free /\ Kitchens \ enabled \subseteq j.off
  /\ \A b \in Kitchens : IF b \in j.left THEN Couriers!Ahead(j, b)
                         ELSE Couriers!Listed(j, b)
\* A branch that is asked about and does not deliver.
Turned(j) ==
  /\ j.kind = "fee" =>
       ~Couriers!Sold(j, j.branch) \/ Couriers!Unlucky(j, j.branch)
  /\ j.kind = "list" => Progress(j)

LEMMA NextOne ==
  ASSUME ClientsHold, NEW r \in Clients, NEW j, Shaped(j), Progress(j),
         Couriers!NextBranch(r, j)
  PROVE  ClientsHold'
<1>1. CASE j.left = {}
  <2>1. Couriers!Ends(r, j, "listed") BY <1>1 DEF Couriers!NextBranch
  <2>2. Couriers!Explained([j EXCEPT !.reply = "listed"])
    <3> DEFINE k == [j EXCEPT !.reply = "listed"]
    <3>1. /\ k.reply = "listed" /\ k.found = j.found /\ k.site = j.site
          /\ k.failed = j.failed /\ k.off = j.off
      BY DEF Shaped, Shape
    <3>2. \A b \in Kitchens : Couriers!Listed(j, b) BY <1>1 DEF Progress
    <3>3. \A b \in Kitchens : Couriers!Listed(k, b)
      BY <3>1, <3>2 DEF Couriers!Listed, Couriers!Sold, Couriers!Unlucky
    <3>4. QED BY <3>1, <3>3 DEF Couriers!Explained
  <2>3. QED BY <2>1, <2>2, ClientEnds DEF Couriers!Replies
<1>2. CASE j.left # {}
  <2>1. PICK b \in j.left :
          Couriers!To(r, "info", [j EXCEPT !.branch = b, !.left = @ \ {b}])
    BY <1>2 DEF Couriers!NextBranch
  <2> DEFINE k == [j EXCEPT !.branch = b, !.left = @ \ {b}]
  <2>2. /\ k.branch = b /\ k.left = j.left \ {b} /\ k.found = j.found
        /\ k.site = j.site /\ k.failed = j.failed /\ k.off = j.off
        /\ k.free = j.free /\ b \in Kitchens
    BY DEF Shaped, Shape
  <2>3. Shaped(k) BY <2>2 DEF Shaped, Shape
  <2>4. Couriers!Underway(k)
    BY <2>2 DEF Progress, Couriers!Underway, Couriers!Ahead, Couriers!Listed,
                Couriers!Sold, Couriers!Unlucky
  <2>5. Fits("info", k)
    BY <2>3, <2>4 DEF Fits, Couriers!Places
  <2>6. QED BY <2>1, <2>5, ClientMoves
<1>3. QED BY <1>1, <1>2

\* What is about to be asked, and was not refused, can be turned down.
LEMMA CanBeTurned ==
  ASSUME NEW j, Couriers!Underway(j),
         ~Couriers!Sold(j, j.branch) \/ Couriers!Unlucky(j, j.branch)
  PROVE  Turned(j)
BY DEF Couriers!Underway, Turned, Progress, Couriers!Ahead, Couriers!Listed

LEMMA ZeroIsExplained ==
  ASSUME NEW j, Shaped(j),
         j.free \/ ~Couriers!Sold(j, j.branch) \/ Couriers!Unlucky(j, j.branch)
  PROVE  Couriers!Explained([j EXCEPT !.reply = "zero"])
<1> DEFINE k == [j EXCEPT !.reply = "zero"]
<1>1. /\ k.reply = "zero" /\ k.site = j.site /\ k.failed = j.failed
      /\ k.off = j.off /\ k.free = j.free /\ k.branch = j.branch
  BY DEF Shaped, Shape
<1>2. QED
  BY <1>1 DEF Couriers!Explained, Couriers!Sold, Couriers!Unlucky

LEMMA ClientThrown ==
  ASSUME ClientsHold, NEW r \in Clients, NEW j, Shaped(j), Turned(j),
         NEW status, Couriers!Thrown(r, j, status)
  PROVE  ClientsHold'
<1>1. j.kind \in {"fee", "list", "create"} BY DEF Shaped, Shape, Couriers!Kinds
<1>2. CASE j.kind = "fee"
  <2>1. Couriers!Ends(r, j, "zero")
    BY <1>2 DEF Couriers!Thrown, Couriers!RethrownAs
  <2>2. Couriers!Explained([j EXCEPT !.reply = "zero"])
    BY <1>2, ZeroIsExplained DEF Turned
  <2>3. QED BY <2>1, <2>2, ClientEnds DEF Couriers!Replies
<1>3. CASE j.kind = "list"
  BY <1>3, NextOne DEF Couriers!Thrown, Turned
<1>4. CASE j.kind = "create"
  <2>1. Couriers!Ends(r, j, "error") BY <1>4 DEF Couriers!Thrown
  <2>2. [j EXCEPT !.reply = "error"].reply = "error" BY DEF Shaped, Shape
  <2>3. Couriers!Explained([j EXCEPT !.reply = "error"])
    BY <2>2 DEF Couriers!Explained
  <2>4. QED BY <2>1, <2>3, ClientEnds DEF Couriers!Replies
<1>5. QED BY <1>1, <1>2, <1>3, <1>4

\* Requests that begin.
LEMMA ClientBegins ==
  ASSUME ClientsHold, NEW r \in Clients, NEW site \in [Kitchens -> Couriers!Sites],
         \/ Couriers!ListBranches(r, site)
         \/ \E b \in Kitchens : Couriers!GetFee(r, b, site)
                                \/ Couriers!Create(r, b, site)
  PROVE  ClientsHold'
<1>1. ASSUME NEW b \in Kitchens, Couriers!GetFee(r, b, site) PROVE ClientsHold'
  <2> DEFINE j == Couriers!NewJob("fee", b, site)
  <2>1. Couriers!To(r, "local", j) BY <1>1 DEF Couriers!GetFee
  <2>2. Shaped(j) /\ Couriers!Underway(j)
    BY DEF Shaped, Shape, Couriers!NewJob, Couriers!Underway, Couriers!Kinds
  <2>3. Fits("local", j) BY <2>2 DEF Fits, Couriers!Places
  <2>4. QED BY <2>1, <2>3, ClientMoves
<1>2. ASSUME NEW b \in Kitchens, Couriers!Create(r, b, site) PROVE ClientsHold'
  <2> DEFINE j == [Couriers!NewJob("create", b, site) EXCEPT
                     !.doc = Couriers!Payload]
  <2>1. Couriers!To(r, "info", j) BY <1>2 DEF Couriers!Create
  <2>2. Shaped(j) /\ Couriers!Underway(j)
    BY DEF Shaped, Shape, Couriers!NewJob, Couriers!Underway, Couriers!Kinds
  <2>3. Fits("info", j) BY <2>2 DEF Fits, Couriers!Places
  <2>4. QED BY <2>1, <2>3, ClientMoves
<1>3. CASE Couriers!ListBranches(r, site)
  <2> DEFINE j == Couriers!NewJob("list", None, site)
             k == [j EXCEPT !.left = Kitchens]
  <2>1. Couriers!NextBranch(r, k) \/ Couriers!Ends(r, j, "error")
    BY <1>3 DEF Couriers!ListBranches
  <2>2. Shaped(j) /\ Shaped(k) /\ Progress(k)
    BY DEF Shaped, Shape, Couriers!NewJob, Couriers!Ahead, Couriers!Kinds,
           Progress
  <2>3. Couriers!Explained([j EXCEPT !.reply = "error"])
    BY DEF Couriers!Explained, Couriers!NewJob
  <2>4. QED BY <2>1, <2>2, <2>3, NextOne, ClientEnds DEF Couriers!Replies
<1>4. QED BY <1>1, <1>2, <1>3

\* The calls of a request under way, and their failures.
LEMMA ClientCalls ==
  ASSUME ClientsHold, NEW r \in Clients,
         \/ Couriers!ReadBranch(r) \/ Couriers!GetInfo(r)
         \/ Couriers!GetDetails(r) \/ Couriers!GetToken(r)
         \/ Couriers!AnswerPrice(r) \/ Couriers!AnswerPlaced(r)
         \/ Couriers!CallFails(r)
  PROVE  ClientsHold'
<1> DEFINE j == clientJob[r]
<1>1. clientPc[r] \in Couriers!Asking
  BY DEF Couriers!ReadBranch, Couriers!GetInfo, Couriers!GetDetails,
         Couriers!GetToken, Couriers!AnswerPrice, Couriers!AnswerPlaced,
         Couriers!CallFails, Couriers!Asking
<1>2. Shaped(j) /\ Couriers!Underway(j)
  BY <1>1 DEF ClientsHold, Fits, Couriers!Asking
<1>3. j.kind \in {"fee", "list", "create"} /\ j.branch \in Kitchens
  BY <1>2 DEF Shaped, Shape, Couriers!Kinds, Couriers!Underway
<1>4. ASSUME NEW place \in Couriers!Asking, Couriers!To(r, place, j)
      PROVE  ClientsHold'
  BY <1>2, <1>4, ClientMoves DEF Fits, Couriers!Places, Couriers!Asking
<1>5. ASSUME Couriers!ReadBranch(r) PROVE ClientsHold'
  <2>1. CASE Couriers!Ends(r, [j EXCEPT !.free = TRUE], "zero")
    <3> DEFINE k == [j EXCEPT !.free = TRUE]
    <3>1. Shaped(k) /\ k.free BY <1>2 DEF Shaped, Shape
    <3>2. Couriers!Explained([k EXCEPT !.reply = "zero"])
      BY <3>1, ZeroIsExplained
    <3> HIDE DEF k
    <3>3. QED BY <2>1, <3>1, <3>2, ClientEnds DEF Couriers!Replies, k
  <2>2. CASE Couriers!To(r, "info", j) BY <2>2, <1>4 DEF Couriers!Asking
  <2>3. QED BY <1>5, <2>1, <2>2 DEF Couriers!ReadBranch
<1>6. ASSUME Couriers!GetInfo(r) PROVE ClientsHold'
  <2>1. CASE j.branch \in enabled
    BY <1>4, <1>6, <2>1 DEF Couriers!GetInfo, Couriers!Asking
  <2>2. CASE j.branch \notin enabled
    <3>1. Couriers!Unlucky(j, j.branch)
      BY <1>2, <1>3, <2>2 DEF Couriers!Underway, Couriers!Unlucky
    <3>2. Turned(j) BY <1>2, <3>1, CanBeTurned
    <3>3. Couriers!Thrown(r, j, 400) BY <1>6, <2>2 DEF Couriers!GetInfo
    <3>4. QED BY <1>2, <3>2, <3>3, ClientThrown
  <2>3. QED BY <2>1, <2>2
<1>7. ASSUME Couriers!GetDetails(r) \/ Couriers!GetToken(r) PROVE ClientsHold'
  BY <1>4, <1>7 DEF Couriers!GetDetails, Couriers!GetToken, Couriers!Asking
<1>8. ASSUME Couriers!AnswerPrice(r) PROVE ClientsHold'
  <2> DEFINE here == j.site[j.branch]
  <2>1. here \in {"unserved", "gratis", "near", "far"}
    BY <1>2, <1>3 DEF Shaped, Shape, Couriers!Sites
  <2>2. CASE Couriers!TooFar(j)
    <3>1. ~Couriers!Sold(j, j.branch)
      BY <2>2 DEF Couriers!TooFar, Couriers!Sold
    <3>2. Turned(j) BY <1>2, <3>1, CanBeTurned
    <3>3. Couriers!Thrown(r, j, 400)
      BY <1>8, <2>2 DEF Couriers!AnswerPrice, Couriers!TooFar
    <3>4. QED BY <1>2, <3>2, <3>3, ClientThrown
  <2>3. CASE ~Couriers!TooFar(j) /\ here \in {"unserved", "gratis"}
    <3>1. Couriers!Unpriced(r, j) BY <1>8, <2>3 DEF Couriers!AnswerPrice
    <3>2. ~Couriers!Sold(j, j.branch) BY <2>3 DEF Couriers!Sold
    <3>3. Turned(j) BY <1>2, <3>2, CanBeTurned
    <3>4. CASE j.kind = "fee"
      <4>1. Couriers!Explained([j EXCEPT !.reply = "zero"])
        BY <1>2, <3>2, ZeroIsExplained
      <4>2. Couriers!Ends(r, j, "zero") BY <3>1, <3>4 DEF Couriers!Unpriced
      <4>3. QED BY <1>2, <4>1, <4>2, ClientEnds DEF Couriers!Replies
    <3>5. CASE j.kind = "list"
      BY <1>2, <3>1, <3>3, <3>5, NextOne DEF Couriers!Unpriced, Turned
    <3>6. QED BY <1>3, <1>8, <3>4, <3>5 DEF Couriers!AnswerPrice
  <2>4. CASE ~Couriers!TooFar(j) /\ here \notin {"unserved", "gratis"}
    <3>1. Couriers!Priced(r, j) BY <1>8, <2>4 DEF Couriers!AnswerPrice
    <3>2. Couriers!Sold(j, j.branch)
      BY <2>1, <2>4 DEF Couriers!TooFar, Couriers!Sold, ClientsHold, Asked
    <3>3. CASE j.kind = "fee"
      <4> DEFINE k == [j EXCEPT !.reply = "priced"]
      <4>1. /\ k.reply = "priced" /\ k.site = j.site /\ k.free = j.free
            /\ k.branch = j.branch
        BY <1>2 DEF Shaped, Shape
      <4>2. Couriers!Explained(k)
        BY <1>2, <3>2, <4>1
        DEF Couriers!Explained, Couriers!Sold, Couriers!Underway
      <4>3. Couriers!Ends(r, j, "priced") BY <3>1, <3>3 DEF Couriers!Priced
      <4>4. QED BY <1>2, <4>2, <4>3, ClientEnds DEF Couriers!Replies
    <3>4. CASE j.kind = "list"
      <4> DEFINE k == [j EXCEPT !.found = @ \cup {j.branch}]
      <4>1. /\ k.found = j.found \cup {j.branch} /\ k.site = j.site
            /\ k.failed = j.failed /\ k.off = j.off /\ k.free = j.free
            /\ k.left = j.left /\ k.branch = j.branch
        BY <1>2 DEF Shaped, Shape
      <4>2. Shaped(k) BY <1>2, <1>3 DEF Shaped, Shape
      <4>3. Progress(k)
        <5>1. ~k.free /\ Kitchens \ enabled \subseteq k.off
          BY <1>2, <4>1 DEF Couriers!Underway
        <5>2. ASSUME NEW b \in Kitchens
              PROVE  IF b \in k.left THEN Couriers!Ahead(k, b)
                     ELSE Couriers!Listed(k, b)
          <6>1. IF b = j.branch \/ b \in j.left THEN Couriers!Ahead(j, b)
                ELSE Couriers!Listed(j, b)
            BY <1>2, <3>4 DEF Couriers!Underway
          <6>2. j.branch \notin j.left BY <1>2 DEF Couriers!Underway
          <6>3. CASE b = j.branch
            BY <3>2, <4>1, <6>1, <6>2, <6>3
            DEF Couriers!Ahead, Couriers!Listed, Couriers!Sold
          <6>4. CASE b # j.branch
            BY <4>1, <6>1, <6>4 DEF Couriers!Ahead, Couriers!Listed,
                                    Couriers!Sold, Couriers!Unlucky
          <6>5. QED BY <6>3, <6>4
        <5>3. QED BY <5>1, <5>2 DEF Progress
      <4>4. Couriers!NextBranch(r, k) BY <3>1, <3>4 DEF Couriers!Priced
      <4> HIDE DEF k
      <4>5. QED BY <4>2, <4>3, <4>4, NextOne
    <3>5. QED BY <1>3, <1>8, <3>3, <3>4 DEF Couriers!AnswerPrice
  <2>5. QED BY <2>2, <2>3, <2>4
<1>9. ASSUME Couriers!AnswerPlaced(r) PROVE ClientsHold'
  <2>1. CASE j.site[j.branch] = "unserved"
    <3>1. Turned(j)
      BY <1>2, <2>1, CanBeTurned DEF Couriers!Sold
    <3>2. Couriers!Thrown(r, j, 400) BY <1>9, <2>1 DEF Couriers!AnswerPlaced
    <3>3. QED BY <1>2, <3>1, <3>2, ClientThrown
  <2>2. CASE j.site[j.branch] # "unserved"
    <3>1. PICK fee \in Fees :
            Couriers!Ends(r, [j EXCEPT !.doc = Couriers!Saved(fee)], "placed")
      BY <1>9, <2>2 DEF Couriers!AnswerPlaced
    <3> DEFINE k == [j EXCEPT !.doc = Couriers!Saved(fee)]
    <3>2. Shaped(k) /\ [k EXCEPT !.reply = "placed"].reply = "placed"
      BY <1>2 DEF Shaped, Shape
    <3>3. Couriers!Explained([k EXCEPT !.reply = "placed"])
      BY <3>2 DEF Couriers!Explained
    <3>4. Couriers!Ends(r, k, "placed") BY <3>1
    <3> HIDE DEF k
    <3>5. QED BY <3>2, <3>3, <3>4, ClientEnds DEF Couriers!Replies
  <2>3. QED BY <2>1, <2>2
<1>10. ASSUME Couriers!CallFails(r) PROVE ClientsHold'
  <2> DEFINE k == [j EXCEPT !.failed = @ \cup {j.branch}]
  <2>1. /\ k.failed = j.failed \cup {j.branch} /\ k.site = j.site
        /\ k.found = j.found /\ k.off = j.off /\ k.free = j.free
        /\ k.left = j.left /\ k.branch = j.branch /\ k.kind = j.kind
    BY <1>2 DEF Shaped, Shape
  <2>2. Shaped(k) BY <1>2, <1>3 DEF Shaped, Shape
  <2>3. Couriers!Unlucky(k, j.branch) BY <2>1 DEF Couriers!Unlucky
  <2>4. ASSUME j.kind = "list" PROVE Progress(k)
    <3>1. ~k.free /\ Kitchens \ enabled \subseteq k.off
      BY <1>2, <2>1 DEF Couriers!Underway
    <3>2. ASSUME NEW b \in Kitchens
          PROVE  IF b \in k.left THEN Couriers!Ahead(k, b)
                 ELSE Couriers!Listed(k, b)
      <4>1. IF b = j.branch \/ b \in j.left THEN Couriers!Ahead(j, b)
            ELSE Couriers!Listed(j, b)
        BY <1>2, <2>4 DEF Couriers!Underway
      <4>2. j.branch \notin j.left BY <1>2 DEF Couriers!Underway
      <4>3. CASE b = j.branch
        BY <2>1, <2>3, <4>1, <4>2, <4>3 DEF Couriers!Ahead, Couriers!Listed
      <4>4. CASE b # j.branch
        BY <2>1, <4>1, <4>4 DEF Couriers!Ahead, Couriers!Listed,
                                Couriers!Sold, Couriers!Unlucky
      <4>5. QED BY <4>3, <4>4
    <3>3. QED BY <3>1, <3>2 DEF Progress
  <2>5. Turned(k) BY <2>1, <2>3, <2>4 DEF Turned
  <2>6. Couriers!Thrown(r, k, 500) BY <1>10 DEF Couriers!CallFails
  <2> HIDE DEF k
  <2>7. QED BY <2>2, <2>5, <2>6, ClientThrown
<1>11. QED BY <1>5, <1>6, <1>7, <1>8, <1>9, <1>10

\* The menu service changes its mind: whoever is asking learns of it.
LEMMA ClientSwitch ==
  ASSUME ClientsHold, NEW b \in Kitchens, Couriers!Switch(b) PROVE ClientsHold'
<1>1. /\ enabled' = IF b \in enabled THEN enabled \ {b} ELSE enabled \cup {b}
      /\ clientJob' = [r \in Clients |->
           IF clientPc[r] \in {"idle", "done"} THEN clientJob[r]
           ELSE [clientJob[r] EXCEPT !.off = @ \cup (Kitchens \ enabled')]]
      /\ part' = part /\ clientPc' = clientPc
  BY DEF Couriers!Switch
<1>2. enabled' \subseteq Kitchens BY <1>1 DEF ClientsHold
<1>3. ASSUME NEW r \in Clients, clientPc[r] # "idle"
      PROVE  Fits(clientPc[r], clientJob[r])'
  <2> DEFINE j == clientJob[r]
             k == [j EXCEPT !.off = @ \cup (Kitchens \ enabled')]
  <2>1. Fits(clientPc[r], j) BY <1>3 DEF ClientsHold
  <2>2. CASE clientPc[r] = "done"
    <3>1. clientJob'[r] = j BY <1>1, <2>2
    <3>2. QED BY <1>1, <2>1, <2>2, <3>1
          DEF Fits, Shaped, Shape, Couriers!Asking, Couriers!Explained,
              Couriers!Sold, Couriers!Unlucky, Couriers!Listed
  <2>3. CASE clientPc[r] # "done"
    <3>1. clientJob'[r] = k BY <1>1, <1>3, <2>3
    <3>2. /\ k.off = j.off \cup (Kitchens \ enabled') /\ k.site = j.site
          /\ k.found = j.found /\ k.failed = j.failed /\ k.free = j.free
          /\ k.left = j.left /\ k.branch = j.branch /\ k.kind = j.kind
          /\ Shaped(k)
      BY <2>1 DEF Fits, Shaped, Shape
    <3>3. Couriers!Underway(j)
      BY <1>3, <2>1, <2>3 DEF Fits, Couriers!Places, Couriers!Asking
    <3>4. Couriers!Underway(clientJob[r])'
      BY <1>1, <3>1, <3>2, <3>3, ZenonT(40)
      DEF Couriers!Underway, Couriers!Ahead, Couriers!Listed, Couriers!Sold,
          Couriers!Unlucky
    <3>5. Shaped(clientJob[r])' BY <3>1, <3>2 DEF Shaped, Shape
    <3>6. QED BY <1>1, <2>1, <2>3, <3>4, <3>5 DEF Fits
  <2>4. QED BY <2>2, <2>3
<1>4. QED BY <1>1, <1>2, <1>3 DEF ClientsHold, Asked

LEMMA ClientsBegin == Asked /\ Couriers!Init => ClientsHold
BY DEF Couriers!Init, ClientsHold

LEMMA ClientsStep == ClientsHold /\ Couriers!Next => ClientsHold'
BY ClientBegins, ClientCalls, ClientSwitch DEF Couriers!Next

\* For any number of requests and branches, whichever courier service delivers
\* and whatever is to be delivered: however calls fail and branches are enabled
\* and disabled meanwhile, a fee is named only where there is delivery for
\* money, 0 has a reason, and the list has a branch exactly when asked about
\* alone it would have had a fee.
THEOREM AnswersAreExplained == MCSpec => []AnswersExplained
<1> DEFINE Inv == Asked => ClientsHold
<1>1. MCInit => Inv BY ClientsBegin DEF MCInit
<1>2. ASSUME Inv, [MCNext]_<<vars, part, clients, prints>> PROVE Inv'
  <2>1. part' = part BY <1>2 DEF MCNext
  <2>2. CASE Asked /\ Couriers!Next BY <1>2, <2>2, ClientsStep
  <2>3. CASE UNCHANGED clients
    BY <1>2, <2>1, <2>3
    DEF clients, Asked, ClientsHold, Fits, Shaped, Shape, Couriers!Underway,
        Couriers!Listed, Couriers!Ahead, Couriers!Explained, Couriers!Sold,
        Couriers!Unlucky
  <2>4. QED BY <1>2, <2>2, <2>3 DEF MCNext, Asked
<1>3. Inv => AnswersExplained
  BY DEF AnswersExplained, Couriers!AnswersExplained, ClientsHold, Fits
<1>4. QED BY <1>1, <1>2, <1>3, PTL DEF MCSpec

=============================================================================
