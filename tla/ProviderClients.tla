--------------------------- MODULE ProviderClients ---------------------------
(***************************************************************************)
(* The clients of the two courier services (uber-delivery.service.ts,      *)
(* adloggs-delivery.service.ts) and the three uses the program makes of    *)
(* them (delivery.service.ts): the fee of a cart, the list of branches     *)
(* that deliver to an address, and placing a delivery.                     *)
(*                                                                         *)
(* The clients keep what the menu service said of a branch, and Uber's     *)
(* access tokens, in fields.  Both are built per request, as everything is *)
(* that has the HttpClientservice, which has the REQUEST: what they keep   *)
(* lasts as long as the request, and the second look at a branch in the    *)
(* same request finds it.  A request waits for the menu service, the token *)
(* and the provider; each may fail, and the menu service may change its    *)
(* mind meanwhile.                                                         *)
(***************************************************************************)
EXTENDS Integers, FiniteSets

CONSTANTS
  Requests,     \* calls of the delivery service
  Branches,     \* branches, in the menu service
  Order,        \* what is delivered: amounts in tenths of a cent, address
  Fees,         \* fees a provider may name for a delivery placed, or 0 for none
  Environment,  \* NODE_ENV: "dev", "prod" or another
  None          \* nothing kept

VARIABLES
  service,  \* DEFAULT_DELIVERY_PROVIDER, "uber" or "adloggs": never changes
  enabled,  \* at the menu service: branches that have the provider enabled
  pc,       \* where each request is
  job       \* what it holds

vars == <<service, enabled, pc, job>>

\* transformToUberFormat, transformToAdloggsFormat: to Uber amounts go in cents,
\* each item at its unit price, with a tip of at most 20 or 50 dollars, and the
\* flat follows the street; to Adloggs as they are, each item at its quantity's
\* price, without a tip.
Cents(amount) == (amount + 5) \div 10
AtMost(n, limit) == IF n <= limit THEN n ELSE limit
UberTip ==
  CASE Environment = "dev" -> AtMost(Cents(Order.tip), 2000)
    [] Environment = "prod" -> AtMost(Cents(Order.tip), 5000)
    [] OTHER -> 0
Flat == IF Order.apartment # None THEN Order.apartment ELSE Order.embedded
UberPayload ==
  [order |-> Order.id, value |-> Cents(Order.amount), tip |-> UberTip,
   items |-> {[quantity |-> i.quantity, price |-> Cents(i.price)]
                : i \in Order.items},
   to |-> <<Order.street, Flat>>]
AdloggsPayload ==
  [order |-> Order.id, value |-> Order.amount, tip |-> 0,
   items |-> {[quantity |-> i.quantity, price |-> i.price * i.quantity]
                : i \in Order.items},
   to |-> <<Order.street, Order.apartment>>]
Payload == IF service = "uber" THEN UberPayload ELSE AdloggsPayload

\* transformFromUberResponse, transformFromAdloggsResponse: the fee is the one
\* the provider names, or else the order's own.
Saved(fee) ==
  [order |-> Order.id, provider |-> service,
   fee |-> IF fee # 0 THEN fee ELSE Order.fee]

-----------------------------------------------------------------------------

\* What the provider says of an address as seen from a branch: it does not go
\* there, it does for nothing or for money, or farther than deliveryRadiusKm.
Sites == {"unserved", "gratis", "near", "far"}

\* kind: getDeliveryFee, checkDeliveryAvailability or createDeliveryOrder;
\* branch: the one being asked about, left: those still to come; site: the
\* address, seen from each branch; free: the branch delivers free of charge;
\* found: branches that deliver; doc: the delivery as it is placed, then as it
\* is saved; failed: branches some call failed for; off: history, branches that
\* were not enabled at some time since the request began; reply: the answer.
Kinds == {"fee", "list", "create"}
Replies == {"priced", "zero", "refused", "listed", "error", "placed"}
Job == [kind : Kinds, branch : Branches \cup {None}, left : SUBSET Branches,
        site : [Branches -> Sites], free : BOOLEAN, found : SUBSET Branches,
        doc : {None, Payload} \cup {Saved(f) : f \in Fees},
        failed : SUBSET Branches, off : SUBSET Branches,
        reply : Replies \cup {None}]
Places == {"idle", "local", "info", "details", "token", "asked", "done"}

TypeOK ==
  /\ service \in {"uber", "adloggs"}
  /\ enabled \subseteq Branches
  /\ pc \in [Requests -> Places]
  /\ job \in [Requests -> Job \cup {None}]

Init ==
  /\ service \in {"uber", "adloggs"}
  /\ enabled \in SUBSET Branches
  /\ pc = [r \in Requests |-> "idle"]
  /\ job = [r \in Requests |-> None]

-----------------------------------------------------------------------------
(* What a request does with an answer and with an exception *)

\* The request goes on at that place with that job.
To(r, place, j) ==
  /\ pc' = [pc EXCEPT ![r] = place]
  /\ job' = [job EXCEPT ![r] = j]
  /\ UNCHANGED <<service, enabled>>
Ends(r, j, answer) == To(r, "done", [j EXCEPT !.reply = answer])

\* The loop over the branches: the next one, or the list is complete.
NextBranch(r, j) ==
  IF j.left = {} THEN Ends(r, j, "listed")
  ELSE \E b \in j.left :
         To(r, "info", [j EXCEPT !.branch = b, !.left = @ \ {b}])

\* The provider's price: to a fee and to the list, 0 is as good as no delivery.
Priced(r, j) ==
  IF j.kind = "fee" THEN Ends(r, j, "priced")
  ELSE NextBranch(r, [j EXCEPT !.found = @ \cup {j.branch}])
Unpriced(r, j) ==
  IF j.kind = "fee" THEN Ends(r, j, "zero") ELSE NextBranch(r, j)

\* The status with which a client's own catch throws an exception on.
RethrownAs(status) == 500

\* An exception: a fee passes on what is a BAD_REQUEST and is 0 otherwise, the
\* list goes on without the branch, a delivery is not placed.
ThrownOut(r, j, status) ==
  CASE j.kind = "fee" ->
         Ends(r, j, IF RethrownAs(status) = 400 THEN "refused" ELSE "zero")
    [] j.kind = "list" -> Ends(r, j, "listed")
    [] j.kind = "create" -> Ends(r, j, "error")
Thrown(r, j, status) ==
  CASE j.kind = "fee" ->
         Ends(r, j, IF RethrownAs(status) = 400 THEN "refused" ELSE "zero")
    [] j.kind = "list" -> NextBranch(r, j)
    [] j.kind = "create" -> Ends(r, j, "error")

-----------------------------------------------------------------------------
(* Requests *)

NewJob(kind, b, site) ==
  [kind |-> kind, branch |-> b, left |-> {}, site |-> site, free |-> FALSE,
   found |-> {}, doc |-> None, failed |-> {}, off |-> Branches \ enabled,
   reply |-> None]

\* getDeliveryFee: of the cart's branch and its address.
GetFee(r, b, site) ==
  /\ pc[r] = "idle"
  /\ To(r, "local", NewJob("fee", b, site))

\* ... reads whether the branch delivers free of charge.
ReadBranch(r) ==
  /\ pc[r] = "local"
  /\ \/ Ends(r, [job[r] EXCEPT !.free = TRUE], "zero")
     \/ To(r, "info", job[r])

\* checkDeliveryAvailability: asks the menu service for all branches; the
\* address of the customer or of a branch may not parse, which fails it.
ListBranches(r, site) ==
  LET j == NewJob("list", None, site) IN
  /\ pc[r] = "idle"
  /\ NextBranch(r, [j EXCEPT !.left = Branches]) \/ Ends(r, j, "error")

\* createDeliveryOrder, of the provider.
Create(r, b, site) ==
  /\ pc[r] = "idle"
  /\ To(r, "info", [NewJob("create", b, site) EXCEPT !.doc = Payload])

\* getBranchUberInfo, getBranchAdloggsInfo: the menu service is asked once.
GetInfo(r) ==
  LET j == job[r] IN
  /\ pc[r] = "info"
  /\ IF j.branch \in enabled
     THEN To(r, IF service = "uber" THEN "token" ELSE "details", j)
     ELSE Thrown(r, j, 400)

\* Adloggs: the branch is asked for again, for its time zone and its radius.
GetDetails(r) ==
  /\ pc[r] = "details"
  /\ To(r, "asked", job[r])

\* getAccessToken: no token is kept when a request begins.
GetToken(r) ==
  /\ pc[r] = "token"
  /\ To(r, "asked", job[r])

\* The provider's answer to a question for its price: not serving an address
\* is no error, but Adloggs' distance is compared with the branch's radius.
TooFar(j) == service = "adloggs" /\ j.site[j.branch] = "far"
AnswerPrice(r) ==
  LET j == job[r] IN
  /\ pc[r] = "asked" /\ j.kind # "create"
  /\ CASE TooFar(j) -> Thrown(r, j, 400)
       [] j.site[j.branch] \in {"unserved", "gratis"} -> Unpriced(r, j)
       [] OTHER -> Priced(r, j)

\* ... and to a delivery placed.
AnswerPlaced(r) ==
  LET j == job[r] IN
  /\ pc[r] = "asked" /\ j.kind = "create"
  /\ IF j.site[j.branch] = "unserved" THEN Thrown(r, j, 400)
     ELSE \E fee \in Fees : Ends(r, [j EXCEPT !.doc = Saved(fee)], "placed")

\* A call fails: to the menu service, for the token, to the provider, or the
\* reading of a fee's branch.
CallFails(r) ==
  LET j == job[r] IN
  /\ pc[r] \in {"local", "info", "details", "token", "asked"}
  /\ Thrown(r, [j EXCEPT !.failed = @ \cup {j.branch}], 500)

\* The menu service enables the provider for a branch, or disables it.
Switch(b) ==
  /\ enabled' = IF b \in enabled THEN enabled \ {b} ELSE enabled \cup {b}
  /\ job' = [r \in Requests |->
       IF pc[r] \in {"idle", "done"} THEN job[r]
       ELSE [job[r] EXCEPT !.off = @ \cup (Branches \ enabled')]]
  /\ UNCHANGED <<service, pc>>

Next ==
  \/ \E r \in Requests :
       \/ \E site \in [Branches -> Sites] :
            \/ ListBranches(r, site)
            \/ \E b \in Branches : GetFee(r, b, site) \/ Create(r, b, site)
       \/ ReadBranch(r) \/ GetInfo(r) \/ GetDetails(r) \/ GetToken(r)
       \/ AnswerPrice(r) \/ AnswerPlaced(r) \/ CallFails(r)
  \/ \E b \in Branches : Switch(b)

Spec == Init /\ [][Next]_vars

-----------------------------------------------------------------------------
(* Properties *)

Sold(j, b) == j.site[b] = "near" \/ (service = "uber" /\ j.site[b] = "far")
Unlucky(j, b) == b \in j.failed \cup j.off

\* The branch is rightly on the list, or rightly not.
Listed(j, b) ==
  /\ b \in j.found => Sold(j, b) /\ b \notin j.failed
  /\ b \notin j.found => ~Sold(j, b) \/ Unlucky(j, b)
Explained(j) ==
  /\ j.reply = "priced" => Sold(j, j.branch) /\ ~j.free
  /\ j.reply = "zero" =>
       j.free \/ ~Sold(j, j.branch) \/ Unlucky(j, j.branch)
  /\ j.reply = "listed" => \A b \in Branches : Listed(j, b)

\* Whatever fails and changes meanwhile: a fee is the provider's only where it
\* delivers for money, and 0 only if the branch delivers free, the provider
\* does so or not at all, the address is too far, a call about that branch
\* failed or its provider was off; the list has a branch exactly when asked
\* about alone it would have had a fee, whatever befell the other branches.
AnswersExplained ==
  \A r \in Requests : pc[r] = "done" => Explained(job[r])

\* "Re-throw HttpExceptions (like distance validation errors) so users see
\* friendly messages" (delivery.service.ts:303): nobody gets the delivery to
\* an address beyond the branch's radius at a fee of 0, if nothing failed.
FarIsRefused ==
  \A r \in Requests :
    (pc[r] = "done" /\ job[r].reply = "zero" /\ TooFar(job[r])) =>
      job[r].free \/ Unlucky(job[r], job[r].branch)

-----------------------------------------------------------------------------
(* What makes it inductive.                                                  *)

\* A request under way knows of every branch that is off now; the branches it
\* has left are not on the list, and those behind it rightly are or are not.
Asking == {"local", "info", "details", "token", "asked"}
Ahead(j, b) == b \notin j.found \cup j.failed
Underway(j) ==
  /\ Branches \ enabled \subseteq j.off
  /\ j.branch \in Branches \ j.left
  /\ ~j.free
  /\ j.kind = "list" =>
       \A b \in Branches : IF b = j.branch \/ b \in j.left THEN Ahead(j, b)
                           ELSE Listed(j, b)
ClientInv ==
  /\ \A r \in Requests : pc[r] \in Asking => Underway(job[r])
  /\ AnswersExplained
=============================================================================
