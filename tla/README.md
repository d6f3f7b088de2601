# Verification of zerv-user-service

TLA+ models, TLC instances and TLAPS proofs for the user/order service of a
restaurant platform (`src/`, NestJS on MongoDB). The code is the reference:
every definition is translated from it, and `PROJECT.json` ("map") names the
lines each definition stands for.

The service takes orders from a cart, charges them through a payment service,
sends couriers through Uber or Adloggs, keeps reward points, coupons and
their use, and the accounts and one-time codes of customers and restaurant
owners ("leads"). Three facts shape everything below:

* every handler is an `async` function; each `await` lets any other handler
  run, and several replicas may run at once;
* every database call is atomic on one document, and nothing spans two calls:
  no transaction, no lock, hardly a unique index;
* every call may fail, and a process may die, at any `await`; what was written
  before stays.

So the models cut each handler at its awaits, let handlers interleave, and let
each of them fail where it stands.

## 1. Inventory

| component | state it keeps | operations | what is hard | what makes it correct |
|---|---|---|---|---|
| Orders (`orders.service.ts`) | order documents; through others: cart, points, coupon logs, deliveries | create, update, updateOrderFromDelivery, updatePaymentStatus, acceptBranchOrders, delete | five writers of one status, each deciding by a copy read several awaits before; repeated events | an order completes only when its points were given; one in preparation has a courier on the way; unpaid orders wait; a deleted order stays deleted; edits survive |
| Reward points (same file, `reward.service.ts`) | balance per customer (and restaurant), transaction log | redeem at creation or payment, earn and deduct at completion, refund, partial refund, admin update | balance and log are two writes | no unlogged movement, no lost movement, redeemed once |
| Delivery (`delivery.service.ts`, providers) | delivery documents; the provider's own record | background dispatch, `POST /delivery`, webhooks | the provider is called between check and save; webhooks repeat and overtake | one courier per order; a placed delivery is known; order and delivery agree |
| Cart (`cart.service.ts`) | cart documents of a customer | appendCart, deleteCart | no unique index; fee carried from the cart that was read; arithmetic of points, coupon, tax, rounding | one cart per customer; fee of its own address; no unit charged twice; the bill adds up |
| Coupons (`coupons.service.ts`, cart, orders) | coupons, usage logs | create, update, delete; check in the cart; count at order; mark at payment | check and use are in different requests; logs found by different keys | limit respected; uses counted; marked iff paid |
| Lead accounts (`auth.service.ts`, `leads.service.ts`) | lead document, Cognito password, code session, mail | sign up, onboard, Google, regenerate, verify, forgot, confirm, update | four records in step without a transaction; one session for two purposes | verified only by the owner; a code serves once; the last mailed code works; passwords agree |
| Customer codes and accounts (`auth.service.ts`, `user.service.ts`) | user document with a code, Cognito user, mail and text messages | create, update, delete a user; ask for a code, verify it | the code never expires and is not removed; two contacts share it; the account is made in two systems | the last code sent verifies; whoever was told of an account has one |
| Administrators (`admin-auth`, `admin-users`) | administrator and lead documents with a refresh-token hash | create, update, password, delete; login, refresh, logout | handlers read a document and write it back awaits later; a hash that takes part of the token | a logout is not undone; nothing given is taken back |
| Single sign-on and trials (`auth.controller.ts`, `oauth.service.ts`, `cognito-sso.service.ts`, `leads.service.ts`) | users, administrators and leads by address | callback of the hosted page; onboarding, trial, restaurant of a lead | three collections looked at one after the other; check and write of a trial are apart | a lead keeps the restaurant, the role and the trial it has |
| Courier clients (`providers/*`, `delivery.service.ts`) | per request: branch information, token | fee of a cart, branches that deliver, placing | every call may fail; a failure must not look like an answer | every answer follows from what the services said |
| Printing (`printing.service.ts`) | print jobs; poll position at the printer | poll, reprint, acknowledge | order of creation against order of payment; answers get lost | printed once; an order left out has a reason one can name |
| Opening hours and order pages (`orders.service.ts`) | day and time of an order | validateOrderTime, getTodayOrders | three pages with three queries and comparisons, two clocks, midnight | an order the kitchen must know of is on exactly one page |
| Sales statistics (same file) | none; computed | getOrderStats, getDailySalesStats | calendars of branch and server, ends of days | comparison of equal length, never overlapping; days add up to the period |
| Analytics (`user.service.ts`) | an answer kept two minutes | getAnalytics | eight aggregations side by side, overlapping requests that save over each other | an answer is not older than it may be, its figures belong together |
| Trending products (`mongo-view.service.ts`) | two tables | stream of orders, a timer every five minutes, start; queries | three refreshers of one table, a stream that breaks, midnight | what is served is today's and recent |
| Reviews (`reviews.service.ts`) | reviews of orders | createReview, getReviewAverages | sent twice; two queries side by side | one review each; a rating between the lowest and the highest, in tenths |
| Addresses, contact requests | single documents | create, update, delete | no two steps share state | not modelled |
| Exports, iDine, mail, SMS, maps, cache, HTTP plumbing | none, or derived | queries and calls to other systems | - | not modelled |

One fact of the framework matters to several of them. `HttpClientService` asks
for the request (`http-client.service.ts:17`), so it and every service that has
it are built once per request: the `Map`s that look like caches
(`user.service.ts:20`, the branch information and tokens of the courier clients)
live as long as one request, and the `@Cron` of `OrdersService`
(`orders.service.ts:2211`) is never registered. Only the five-minute timer of
`mongo-view.service.ts` runs.

How they interact: the cart fixes points, discount and fee when it is saved;
`create` copies them into an order several requests later; the payment event
redeems points, marks the coupon, dispatches a delivery and deletes the cart;
the delivery's webhooks move the order on; completing it credits points, which
the next cart reads. No step is atomic with the next.

`PROJECT.json` lists all components with their files and, under "hazards",
each place where this goes wrong in ways a unit test would hardly reach (the
repository has no tests).

## 2. Modules

| module | models | state and actions |
|---|---|---|
| `Orders` | orders and reward points | a *checkout* is one `POST /orders` and names its order; a *call* is any other request. `pc` says at which await a handler stands, `job` what it has read. Actions: `CreateRead/Pay/Write`, `UpdateRead/Branch/Write`, `PaymentRead/Branch/Write`, `DeliveryRead/Write`, `AcceptAll`, `Delete`, `ApplyReward` and `LogReward` (the two writes of every movement of points), `DeleteCart`, `FillCart` (the cart service seen from here), `Abort`, `RedeemFails` (the swallowed error of a redemption). `applied` and `dispatched` are history. |
| `Delivery` | dispatch, provider, webhooks | `Dispatch`/`DispatchCheck` (the existence check), `Post`, `FindOrder`, `PlaceWithProvider`, `SaveDelivery` (as created, or with the status in Uber's answer, of which the order is not told); `WebhookFind/Status`, `TellOrder`; `DeleteOrder`; `Abort`. Both providers' status maps are translated. |
| `PointsAccount` | what rewards and their log promise together | abstract: `Make` a movement once, `Log` one that was made. `Orders` implements it with `balance <- reward`, `made <- applied`, `logged <- rewardTransactionLog`. |
| `LeadAccounts` | leads, Cognito, code sessions, mail | one action per await of the nine operations, the PUT of a lead's document among them (`EditRead`/`EditLead`, which change the password there and not in Cognito), `Expire` for the passing of time; `issued`/`lapsed` order codes by age. |
| `CartPricing` | the arithmetic of appendCart | a calculation, one line per step, then the coupon, then totals in cents with the rounding of `toFixed(2)` (either way at half a cent, as binary fractions go). |
| `Carts` | cart documents and delivery fee | `AppendRead`, `ClearCart`, `Price`/`Refuse`, `SaveCart`, `DeleteCart`, `Abort`. A fee is the quote it stems from and how often GST was added. |
| `Coupons` | coupons across administration, cart, order and payment | `CreateFind/Write`, `UpdateFind/Write`, `DeleteCoupon`, `CartRead/Coupon/Save`, `CouponFails`, `OrderRead/Payment`, `LogFind/Write`, `OrderInsert`, `PayRedeem/Save/Clear`, `DeleteOrder`, `Abort`. `used` and `charged` are history: the carts that were logged, the orders whose payment was reported. |
| `OrderBoards` | opening hours and order pages | `Submit`/`Store` are the two ends of `create` as far as day and time go (`ValidTime` is the check); `SetStatus` stands for every writer in `Orders`; `TimePasses`; `OnScheduled`, `OnPlaced`, `OnCooking` are the pages. |
| `SalesStats` | sales statistics | a request: `Refuse` or `ChoosePeriods` (in hours of two calendars), `CountPeriods`; the request for days is `CountDays`. |
| `Rewards` | where points are kept and shown | the documents of one user in the order they were inserted, and which orders are in their collection; `Begin`/`Insert`/`Log` are the steps of a movement by an order (found by user, or by user and restaurant, inserted when missing), `InsertOrder`/`DeleteOrder` what becomes of the order, `Create`, `Update`, `DeleteReward` the administration; `CartPoints`, `PointsRemaining`, `TotalRewardPoints`, ... are the pages that show them, `PointsUsedAt` with its join of the log and the orders that are there. |
| `CustomerCodes` | customers' users and codes | `Create`/`Insert`/`SignUpUser`, `AskCode`/`Store`/`Send`, `Verifies`, `Update`, `DeleteUser`, `Minute` (the minute a mail speaks of passes), `Fail` |
| `Administrators` | administrators, sessions | `Create`/`CreateSave`, `Change`/`ChangeWrite` (update, password, delete), `Login`/`Refresh`/`Hash`/`Store`/`Reread`/`Fill`, `Logout`, `Fail`; a session is the request that made its hash, which an update or a creation may send back |
| `SignOn` | sign-in with a provider; onboarding, trial and restaurant of a lead | `Callback`, `Exchange`, `TokenVerified`, `Look` in one collection after the other, `UpdateSignedIn` or `CreateSignedIn`; `Onboard`, `Activate` (which chooses the days of the trial) and `Update` (the PUT of a lead, with any of its fields) with their writes; `Midnight` |
| `ProviderClients` | the clients of Uber and Adloggs | `GetFee`, `ListBranches`, `Create` begin one of the three uses; `ReadBranch`, `GetInfo`, `GetDetails`, `GetToken`, `AnswerPrice`, `AnswerPlaced` are its calls, `CallFails` the failure of any; `Thrown` is what becomes of it, `Payload` what is sent |
| `Printing` | the printing app's view of a branch | `Stamp`/`Insert`/`Settle`/`Delete` of an order, `PollOrders`/`PollJobs`, `Receive` or `Lose`, `Reprint`, `AckFind`/`AckUpdate`, `ExpireJob`, `Tick` |
| `Analytics` | the answer about all restaurants | `Begin`, `Lookup`, `Menu`, one `Count` per aggregation, `Onboarded`, `Save`; `List`, `SetStatus` (completed, reopened or refunded), `DeleteOrder`, `DeleteBranch` change what is counted; `been` is the history of each order's status |
| `Trending` | the tables of the day | `StartDelayed`, `StartTimed`, the `Read` and `Write` of a refresh, `BreakStream`/`RestartStream`, `Insert`, `Tick`; `Served` is what a query answers |
| `Reviews` | reviews and the rating shown | `CreateReview`/`Insert`, `Averages` with `OwnAnswer`, `AllAnswer` and `Show` (the weighted mean in tenths, as `toFixed(1)` shows it); `SetStatus` stands for the writers in `Orders`, deletion among them |
| `MCCarts` | `Carts`, `CartPricing`, `Rewards`, `OrderBoards`, `SalesStats`, `Trending` | a behaviour is about one of them, its `part`; the others stand still |
| `MCAccounts` | `LeadAccounts`, `CustomerCodes`, `Administrators`, `SignOn` | the same |
| `MCCoupons` | `Coupons`, `Analytics`, `Reviews` | the same |
| `MCDelivery` | `Delivery`, `ProviderClients` (its courier service is the part), `Printing` | the same |
| `MCLive` | `Orders`, `Delivery` under their fairness | the same |
| `MCOrders` | `Orders` | values for the constants and bounds |
| `Sums` | sums over finite sets | lemmas only: what the sums of the community modules are, for the proofs about figures |
| `*Proofs` | theorems | see section 5 |

The `MC` modules put several systems side by side because each run answers for
them all; the parts share no variable, so a state of a run is a state of one
part.

What is simplified, by module:

* `Orders`: one branch and restaurant; the documents of one customer's points
  are summed into a balance; `updateMany` is one step; requests about unknown
  orders do nothing and are left out; coupon logs are in `Coupons`, opening hours in
  `OrderBoards`, the documents behind the balance in `Rewards`; guest users,
  addresses and mails are not modelled.
* `Delivery`: of an order only the status; a delivery is named by the request
  that creates it; the status of Uber's answer is any it may report; formats and
  signatures of provider messages are left out.
* `LeadAccounts`: requests refused at their first check are left out; a code
  is named by the request that generates it, a collision of two codes is the
  failure of the write; wrong guesses are codes mailed to someone else. A PUT of
  the lead's document may change its password (and `SignOn` has its other
  fields); that it may change the e-mail address too, and that leads are deleted,
  is left out.
* `Carts`, `Coupons`: one customer; a branch stands for branch and restaurant;
  a document is named by the request that created it; a query with several
  answers takes any of them.
* `OrderBoards`: whole minutes (an order for the current minute still passes,
  in the code only at its first second), no daylight saving, no search.
* `SalesStats`: whole hours, the orders do not change while they are counted.
* `Rewards`: one user, so that "by user" finds every document; fixed amounts of
  points (earned 2, redeemed 1).
* `CustomerCodes`, `SignOn`, `LeadAccounts`: a code is named by the request
  that made it; that two codes of four digits are equal is left out. An update in
  `SignOn` has the fields that another request reads (restaurant, role,
  abilities, provider); names, addresses, the password and tokens are left
  out.
* `Administrators`: abilities are none, some or all; the hash of a refresh token
  takes its first 72 bytes, so any token of the person matches. Only requests of
  `Copied` make a hash that somebody has read and sends back in the
  `refreshToken` field of an update or a creation.
* `ProviderClients`: one order is delivered, in amounts of a tenth of a cent;
  wording, time stamps and phone numbers are left out.
* `Printing`: the app is not in the repository; it is taken to keep the time of
  the newest order it got, or that of the answer.
* `Analytics`: two of the eight aggregations over orders, their totals, and the
  branches; other figures are made alike. `Trending`: the orders' totals only.
* `Reviews`: who the customer is, comments and visibility are left out; a rating
  is a whole number of parts of a star (hundredths in the run), from 1 to 5 stars.
* `CartPricing`: prices are whole cents and discounts multiples of 1/10000
  dollar, as percentages of cents are.

The database is taken at its word: one-document operations are atomic, and the
repository layer (`common/repository`) adds nothing to them.

## 3. Runs

Twelve runs, six of them to pass; a passing run lists its parts below. `Failures = TRUE` lets every handler die or fail at every await.
`CHECK_DEADLOCK FALSE` is used everywhere: an instance has finitely many
requests (or one calculation) and stops when they are served.

Two kinds of behaviour matter: requests that overlap, and long sequences served
one at a time. Both are in one run: a variable (`overlapped`, or `calm`, chosen
at the start) tells them apart. Overlapping behaviours get fewer requests;
properties the code keeps only one request at a time are stated with that
variable in the MC module.

| run | instance | what it shows |
|---|---|---|
| `orders` | 2 checkouts, 3 calls, 2 in flight, at most 5 requests (a checkout counts twice), failures, all payment events (one at most about a free order), one charged delivery order and one paid with points | the log is complete and the handlers implement the account; no order is completed uncredited, in preparation undispatched, or out of pending without cause; deletion is final; overlapping PUTs merge |
| `orders_double_redeem` | one at a time | **violated**: points redeemed at payment are deducted again at completion |
| `live` | orders: 1 checkout, 3 calls, completed payments only; delivery: any 4 of 2 dispatches, 1 post and 1 webhook (Adloggs, three reports), 2 orders, deletions; 3 in flight, no failures | a paid order leaves pending for good; a dispatched order that is not deleted gets a known delivery |
| `delivery`: dispatch | 2 orders, 2 dispatches, 1 post, 2 webhooks, any 4 of them, 3 in flight, failures, deletions, Uber: two reports (picked up, delivered) and an answer to the creation that may say either already | a known delivery was placed, an unknown one belongs to a creation in progress or dead; a dispatch after a finished creation skips; from the first one on, webhooks one at a time keep order and delivery in agreement, in any order with repeats, although the delivery may begin ahead of its order |
| `delivery`: clients | 1 request about 2 branches, each unserved, free, near or far, either service, every call failing, branches switched off meanwhile | each fee, each branch of a list and each placing is what the services answered, or its failure is told (`AnswersExplained`) |
| `delivery`: printing | 2 orders, 1 reprint, 3 minutes, pages of one order | no order is printed twice; one the app has passed and no paper shows was settled late or crowded out of a page; a job whose acknowledgement was answered is not handed out again (`PrintsExplained`) |
| `delivery_overlap` | 2 dispatches | **violated**: two overlapping dispatches place two couriers |
| `far_free` | 1 request to Adloggs, 2 branches, no failures | **violated**: an address too far away is not refused, its fee is 0 |
| `accounts`: leads | 2 addresses, 2 passwords; calm: 5 requests of all nine kinds about one address, one of them at most a PUT of the document; else 4, two in flight, with failures, without PUTs | verified only by the owner; a code serves once; calm: the last mailed code works, passwords agree unless the PUT changed one, sign-up spares verified leads |
| `accounts`: customers | 1 address, 2 phones, 3 requests, failures, deletions | calm: the last code sent verifies for its minute; whoever was told of an account has a user in Cognito |
| `accounts`: administrators | an administrator and a lead of one address; 4 requests calm, else 3, 2 in flight; one of them may carry the token hash of the first one back (a creation only among the first 2) | a logout is not undone unless the hash is sent back; calm: no update takes back what another gave |
| `accounts`: sign-in | 1 address, 1 restaurant, 2 days; 3 requests calm, else 2 | restaurant, provider and verification of a lead stay unless an update names them; role, abilities and trial are replaced besides only by a request that had read the lead before |
| `carts`: carts | 2 branches, one free, 2 places; 5 requests one at a time; or 3 with two in flight and a fourth after them; failures | at most as many carts as requests in flight; a fee belongs to the cart's address; what was put in last is there |
| `carts`: bill | every cart of up to 3 lines over 4 kinds, 4 balances, 7 coupons, 2 tax rates, 2 tips | points and units are accounted for; the rounded bill is within a cent; the total is not negative |
| `carts`: points | 3 movements of every kind at 3 branches of 2 restaurants (2 once disturbed or once an order was deleted), one order at each branch, 2 at most inserted, deletions of orders, 1 request of the administration, failures | nothing moved is lost; undisturbed, balance, log and the pages agree; the list of the branches falls short of the log by the uses of orders that are not there, and by nothing else (`RewardsAgree`) |
| `carts`: boards | an order for any of 3 days and 3 times, stored with any of them, in steps of 10 minutes over two midnights | it is on one page at every minute |
| `carts`: stats | periods of 1 to 4, 43 to 47 and 88 to 93 days, servers 10 hours behind, level with and 5 hours ahead of the branch, up to 2 orders around the ends of the period | the comparison ends the day before the period and the two fit in 90 days; the days add up to the period |
| `carts`: trends | 2 orders, days of 6 minutes, a timer every 2, refreshes of up to a minute, one failure, a stream that breaks | unless a refresh failed lately, what is served lacks no order older than a round of refreshes and shows yesterday no longer than one (`ServedIsRecent`) |
| `carts_gst` | 2 requests | **violated**: a second change of the cart adds GST to a fee that has it |
| `stats_days` | the statistics of `carts` | **violated**: on a server in another zone than the branch a period is compared with a day more than it has |
| `coupons`: coupons | 5 requests at 1 branch, 2 in flight, active coupons and carts that are large enough; or 5 one at a time, 2 branches, limits none and 1, all administration, the last request the customer's; failures, deletions of orders | of a code used at one branch, the log there is marked iff an order with it was paid; one at a time every order is counted and the limit is respected when a discount is granted |
| `coupons`: reports | 2 requests within 4 units of time, one of them counting at a time, an answer kept for 2; one change of what is counted: an order completed, reopened or deleted, a branch deleted, a restaurant listed | an answer is no older than kept and computed; its figures agree unless an order was completed, reopened or deleted while they were counted |
| `coupons`: reviews | 2 orders, 2 targets, ratings 1 and 4.97, 3 requests, 2 in flight, one of them for a rating | one review of a target by an order that had been completed; a rating shown is between the lowest and the highest, each in tenths |
| `coupons_limit` | one at a time | **violated**: a cart with a discount can be ordered again and again |

Why these bounds are enough. Each property relates at most two handlers about
one order, address, cart or coupon, plus the request that set it up; the
instances have room for the set-up, two overlapping handlers and a third one
that observes or repeats. A second order, address or branch is there wherever
the code chooses documents by a key. Every property of a passing run has a
seeded fault ("mutants" in `PROJECT.json`; the definitions under "Seeded fault"
comments) that the same bounds expose.

**Fairness.** The event loop resumes a handler whose awaited call has answered,
and calls that answer or fail are the only ones in the code: weak fairness for
the next step of each *started* handler. Nothing obliges anyone to send a
request, a webhook or a payment event, so arrivals are not fair. Liveness is
checked with `Failures = FALSE`: nothing in the code retries.

## 4. What the runs found

The six violated runs are entries of "findings". The latest: the refusal of an
address out of range is thrown at `adloggs-delivery.service.ts:476` inside a
`try` whose `catch` throws it on as a server error (`:506`), so
`delivery.service.ts:303` never sees the client error its comment speaks of,
answers a fee of 0 (`:308`), and the cart is saved with a free delivery.

While modelling, further
disagreements between code and comments or messages showed; they have no run of
their own:

* `delivery.service.ts:194`: two overlapping webhooks may leave the order with
  another final status than its delivery (hence "one at a time" in `RecordsAgree`).
* `orders.service.ts:275`: an order with nothing to pay, accepted at once, is
  stored as preparing and no delivery is dispatched (hence "had to be paid for"
  in `PreparingIsDispatched`).
* `cart.service.ts:168`: a negative balance (a refund leaves one,
  `orders.service.ts:1065`) divides into a negative number of redeemed units, so
  that the remaining quantity exceeds what was ordered: a debt of points is
  charged for as units, in one line at most (`PointsAccounted`).
* `cart.service.ts:259`: buy one get one counts units paid with points.
* `cart.service.ts:32`: two overlapping first requests create two carts
  (`CartsWithinOverlap` is the bound that does hold).
* `cart.service.ts:295`: a cart of another branch at the same address keeps
  the fee of the branch before.
* `orders.service.ts:996`: a payment marks the usage log by code only, possibly
  the one of another branch; `:2204`: two overlapping orders count one use;
  `coupons.service.ts:124`: changing a coupon's branch alone may leave two
  coupons of one code. With two logs of a code, the paid one may stay unmarked
  and the other be marked (hence "at one branch" in `RedeemedIffPaid`).
* `cart.service.ts:365`: a refused coupon stays in the cart and is counted as
  used when the cart is ordered (`orders.service.ts:326`), also when that order
  then fails, so that a customer may be refused a coupon he never had the
  discount of. Nothing is claimed about counts from above.
* `orders.service.ts:228`: the opening hours are checked for the time in the
  request (`:147`), the order is stored with the cart's; `:272` decides by the
  former whether an order is for as soon as possible, `:973` by the latter.
* `auth.service.ts:576`: a verification deletes whatever session the address
  has by then, a newer code included; `:752`: a sign-up that read the lead
  before it was verified overwrites its password; `:872`: asking for a reset
  replaces a password the user chose by a random one.
* `auth.service.ts:141`: the mail says that a customer's code is valid for the
  next minute; the document keeps the code until the next one replaces it, and
  the comparison (`:167`) knows no time. `LastCodeVerifies` states what holds:
  it verifies for that minute at least.
* `leads.service.ts:148`: a PUT of a lead with a password changes the database
  and not Cognito, which the lead signs in with (hence the exemption in
  `MirrorsAgree`); `:101`: the days of a trial are chosen when the lead is read,
  so that a late activation moves a trial that has begun, to an earlier day too.
* `create-review.dto.ts:17`: a rating may be any number from 1 to 5, and the mean
  is shown in tenths: of ratings of 4.97 it is 5.0, more than any customer gave
  (hence "in tenths" in `ReviewsStand`).
* `customers.service.ts:124`: the points used at a branch are joined with the
  orders there are; a deleted order (`orders.service.ts:944`), or one that was
  redeemed for and not inserted (`:317`, `:336`), takes its entry out of the list,
  while the summary keeps it.
* `orders.service.ts:730`: crediting by user alone takes the points of whatever
  restaurant comes first and renames the document to the order's
  (`RewardsAgree` says what is left: nothing is lost, and the pages agree as
  long as no two restaurants and no administration disturb them).
* `admin-auth.service.ts:183`: a refresh that overlaps a logout stores a new
  session after it (`LogoutHolds` is about logouts nothing overlaps).
* `printing.service.ts:70`: an order paid after a later one was polled is not
  printed; `:145`: a job once printed may be marked failed.
* `auth.service.ts:501`: codes have four digits and are unique among sessions
  that only their use removes, so they may run out. No property is about it:
  `LeadAccounts` names a code by its request.

## 5. Proofs

TLAPS checks these for every value of the constants: any number of users,
requests, documents, any bound of overlap, failures or not. Where a property is
about a part of an `MC` module, or about requests that come one at a time, the
theorem is about `MCSpec`: the sets and bounds of the instance are constants of
the `MC` module, so the theorem covers all of them.

| module | theorem | argument |
|---|---|---|
| `OrdersProofs` | `TypeCorrect`, `LedgerIsComplete`, `AccountIsImplemented` | `HandlerOK`: what a running handler holds fits its operation and its place. A handler at "log" has made its movement (`LogOK`); one that leaves "log" other than by logging has failed. For the refinement every movement must be new when it is made (`OnceOK`): a handler stands before at most its own two entries, an entry carries its handler, and what was applied belongs to handlers past that point; then `ApplyReward` is `Make`, `LogReward` is `Log`, and every other step stutters. |
| | `InductiveInvariant` (`IInv`), `CompletionIsCredited`, `DeletionIsFinal` | `CompletedIsCredited` is not inductive: payment events write a *copy* of the order back, so copies that are completed must be of credited orders (`CreditOK`), copies must have the order's quote (`QuoteOK`), and nobody may speak of an order before it is stored (`FreshOK`). Deletion is final because only the checkout, at its end, creates, and every other write is by `findOneAndUpdate` without upsert. |
| | `StatusInvariant`, `PreparationIsDispatched`, `PendingNeedsCause`, `EditsOfPutsMerge` | `StatusInv`: a status is at three places, the database, the copy a payment event holds, and the status a handler is about to write; at each of them, preparing must come with a dispatch and another status than pending with someone who spoke of the order. A copy read earlier stays accounted for, since what was said and dispatched is remembered by the requests (`MemoryOK`) and only grows. |
| `DeliveryProofs` | `TypeCorrect`, `PlacedDeliveriesAreKnown`, `SequentialDispatchIsSafe` | `PlacedInv`: a creation has placed iff it stands past the provider's call, and has saved iff it ended there without failing; a dispatch that began after one ended finds its document, and documents never disappear. |
| | `RecordsStayTogether` | `RecordsInv`: when no webhook of a delivery failed and none overlapped another, one that is about to tell the order brings what the delivery says now (`Told`), and, from the first webhook on, only while it does the two may differ (`Agreed`); before it they may, as the delivery may be saved with a later status. |
| | `PrintsAreExplained` | `PrintInv`: what was printed was created before the cursor, so a poll, which asks for later orders only, has never an order twice; a poll under way has an explanation (`late`, `crowd`) for every order it does not carry and the cursor has not passed (`PollOK`), which is kept when the cursor moves (`CursorMoves`: past what is printed, never past the clock). A page that leaves something out is of more than a page (`PageWhole`). |
| | `AnswersAreExplained` | `ClientInv`: a request under way knows of every branch that was ever off (`Underway`), a call that fails leaves its reason behind before the next one is made, and of the branches a list asks about, those dealt with are on it or not for a reason of their own, those to come are not yet. |
| `LeadAccountsProofs` | `TypeCorrect`, `OwnersVerify`, `CodesServeOnce` | `CodeInv`: a session's code was generated for its address; a code that was accepted leaves the session before its request ends, and is never written again, since a request issues its code once. |
| | `MailedCodeWorks`, `StoresAgree`, `SignUpsSpare` | `CalmInv`: with at most one handler running, what it has read is what is there: the code it has generated is the newest (`CodesCalm`), and only the handler that is changing a password makes the database and Cognito differ (`MirrorsCalm`). |
| `AccountsProofs` | `CodesVerifyAndAccountsExist`, `ToldHaveAccounts` | `CodesInv`: ids of users are distinct and never used again, a handler that was told of success is past the creation of the Cognito user, which no step removes. `CodesCalm`: for the newest message to a contact, the code of the document is the one sent, or that of a handler that has yet to send (or failed to), or one sent elsewhere. |
| | `LogoutsHold`, `LogoutsAlwaysHold` | `SessionsInv`: who is about to store a session stores it for one who is not quiet; a login takes its own out of `quiet`, a refresh needs a session, which the quiet have not, and every other write leaves the session as it is. |
| | `GiftsStay`, `LeadsKeepGifts` | `AbilitiesCalm`: one request at a time, the abilities a handler read are still there when it writes. `SignInsInv`, for overlapping sign-ins: a document that was found stays; a trial is only written for a lead that was read without one and abilities only for one read without any, so that whoever replaces them was told to (`Named`) or had read the lead before (`Stale`). |
| | `PartsAreTyped` | the type invariants of the four parts, each with what running handlers hold. |
| `OrderBoardsProofs` | `TypeCorrect`, `OrdersAreOnOnePage` | the pages partition orders by one comparison with the cutoff; an order of an earlier day is before it, so the day in the query for scheduled orders drops nothing. The hypotheses on days, times and the clock are `Calendar`. |
| `CartsProofs` | `TypeCorrect`, `InductiveInvariant`, `CartsAreBounded` | `IInv` counts documents together with handlers that are going to create one; clearing a cart exchanges one for the other. |
| | `FeesFitAddresses`, `WhatIsPutIsThere` | `FeeInv`: also the fee a handler carries, and that of the cart it has read, were quoted for the address they come with. `Alone`: as long as nothing has overlapped, the cart that is going to be updated is there and is not the one that is cleared. |
| | `BillTypeCorrect`, `PointsAreAccounted`, `BillAddsUp`, `TotalsAreNotNegative` | line by line: whole-number division of the points left; rounding within half a cent three times and once more. A line that a negative balance is divided by leaves a remainder that is not negative, so that a debt is charged for once. `BillCovered`: for a balance that is not negative no line is negative, and the discount of a coupon that takes off at most its minimum stays within the lines. |
| | `OrdersAreOnOnePage` | the theorem of `OrderBoardsProofs`, for the branch of the shop in `MCCarts`. |
| | `ListsStayRecent`, `TrendsStayRecent` | `RecentInv`: of every timed refresh that was started, a list is still to come, or a refresh failed since, or the list kept is of a refresh that began at most `MaxRun` before it, whoever overwrote whose; one was started at most `CronEvery` ago or its successor's list is still to come, and none runs longer than `MaxRun`, so that the list kept is at most a round old (`KeptLately`). A list is `Fresh` for the day its refresh asked for, and stays so when orders are inserted, as these are of the present. |
| `CouponsProofs` | `TypeCorrect`, `InductiveInvariant`, `PaymentsRedeem` | `IInv`: a log once found stays (logs are never deleted, orders are); a log and an order are each of the cart that was logged (`LogsAreUses`); an order with a code has a log of the code before it is inserted (`OrdersAreLogged`); a payment past its mark has marked one (`PaymentsAreMarked`), and a marked log has a reported payment with its code in `charged`. When all uses of a code are of one branch (`UsedAtOneBranch`), all its logs and its paid orders are of that branch. |
| | `CountsAreComplete`, `GrantsWithinLimit` | `CountsCalm`: one request at a time, a coupon has one log at a branch, the count that was read is still the log's when it is written plus one (`FoundOK`), and a written log is ahead of the orders until the order is inserted (`WrittenOK`). |
| | `AnswersStayRecent`, `ReportsStayRecent` | `AnswersInv`: each figure of an answer was true at some moment `Within` a span: for one that is being computed, since the list of restaurants was read; for the document kept, at most `MaxCompute` before it was saved, whoever saved it. What is given out is that document, `ViewTTL - 1 + MaxCompute` later at most. Spans only widen, and what was so at a moment stays so: `been` only grows, by what is so at the present moment, however orders are completed, reopened or deleted (`WithinStays`). |
| | `FiguresAlwaysAgree`, `FiguresAgreeBeside` | `FiguresInv`: of the document kept and of every answer being computed, if no order was completed, reopened or deleted from the first of its counts to the last, each figure counts the orders that were completed all that time (`Consistent`), however late it was counted. Then figures agree because the orders of a restaurant are those of its branches, part by part. |
| | `ReviewsAlwaysStand`, `RatingsStand` | `ReviewsInv`: reviews are only added, so what either query answered is the number and the sum of some set of the reviews there are, at least those there were when the request began (`AveragesOK`). A sum of ratings is between the lowest and the highest times their number, and so is the weighted mean; rounding to tenths keeps order, so that what is shown is between the two, rounded the same way. |
| `CartsProofs` | `PeriodsFit`, `DaysMakeThePeriod`, `SalesAlwaysAddUp` | `Chosen`, `CountedRight`: what was computed once stays what it is computed from. The rest is arithmetic of two calendars: the hours by which the server is off shift the start of a day by a whole day at most (`q` days and `z` hours), and the number of days of the period is bounded before the shift is added. The days of a period part its orders. |
| | `RewardsAlwaysAgree`, `RewardsAgreeBeside` | `PointsInv`: the documents have together what was moved, created and put (`NothingLost`), whichever of them a movement found; only movements that are done are logged (`LogsDone`), so a log is always a new one; undisturbed, the one document has what is logged and what the one movement under way is about to log (`OneDocument`). Logs are parted by branch, and those of a branch by whether their order is in the collection; what the join drops is `Unseen`. |
| `Sums` | lemmas | the sum over a set in which an element is added, removed or changed, of two sets, of the parts of a set; its bounds. The folds of the library choose an element and go on with the rest; a set of subsets that has a smallest member which fails is found with the least number of elements, in place of an induction theorem. |

Assumptions: only the named ASSUMEs of the modules: kinds of handlers are
disjoint, `None` is none of the values, sets of handlers are finite where they
are counted and sets of restaurants and branches, a calendar has days, trends are
refreshed and answers kept for at least one unit of time, a rating is from 1
to 5 stars in whole parts of a star of any size, a period does not end before it
begins and its orders are finitely many, every branch is of a restaurant and every
order of a branch, who sends a token's hash back is one of the requests. TLC
evaluates the ASSUMEs in every run. Each strengthened invariant was checked by TLC on the instance of its run before it
was proved.

Only model-checked: liveness (`PaidLeavesPending`, `DispatchedIsDelivered`), as
fairness and ENABLED are out of the prover's reach. Every invariant and every
action property of the passing runs is a theorem. Of the reward points, two
amounts are fixed (earned 2, redeemed 1), in the theorems too.

No module uses a RECURSIVE operator.

## 6. Not modelled, and what could follow

Not modelled, with the reason:

* Amounts of `create` (`orders.service.ts:155-232`), guest users and their
  addresses: `Orders` and `Coupons` take what is due as given, so that an order
  that is free although a delivery fee is due (`:260` against `:199`) is a
  hazard no property covers.
* Addresses, contact requests: one document per operation, no state that steps
  share. Lists and visibility of reviews, the page of customers: queries.
* Exports: read-only aggregations. iDine, mail, SMS, map services: formats and
  calls without state. The cache: a wrapper whose compound operations are called
  by nothing.
* Persistence layer and HTTP plumbing: one-document operations are the atomic
  steps of every module; a failing call is their `Abort` or `Fail`.
* Code that is called by nothing: `confirmOrder`, the couriers'
  `getDeliveryStatus`, `cancelDelivery` and `updateDeliveryStatus`,
  `handleCognitoCallback` and `upsertLeadAndIssueTokens`
  (`cognito-sso.service.ts:202-374`), `updateCouponLogStatus`,
  `deleteCouponLog`.
* Signatures of webhooks, tokens, redirects to the hosted sign-in page,
  forgotten passwords of administrators and customers (the code of a lead's
  is shared and modelled).

What could follow, in the order of importance: the amounts of `create` as
operators beside `CartPricing`; `Orders` and `Delivery` composed, the webhook of
one as the caller of the other's `updateOrderFromDelivery`; an abstract account
per user that the documents of `Rewards` implement as long as nothing disturbs
them.
