----------------------------- MODULE CartPricing -----------------------------
(***************************************************************************)
(* The bill of a cart, as appendCart (cart.service.ts) draws it up: the     *)
(* lines one after the other, paid with reward points as far as these go;  *)
(* then the coupon; then taxes and total, each rounded to the cent.        *)
(*                                                                         *)
(* Prices are whole cents.  Percentages of percentages of cents are exact  *)
(* in units of a ten-thousandth of a cent (Fine), in which the code's      *)
(* unrounded numbers are kept here.  The platform fee is 0 in the code.    *)
(* The cart's delivery fee is not part of this bill: see Carts.            *)
(***************************************************************************)
EXTENDS Integers, Sequences

CONSTANTS
  Products,   \* the branch's products
  Menu,       \* their price, the points to redeem one and the points it earns
  Lines,      \* the lines a cart may have
  MaxLines,   \* bound: lines of a cart
  Balances,   \* reward points a customer may have (no document counts as 0)
  Coupons,    \* the coupons a cart may name
  TaxRates,   \* tax rates of a branch, in per cent
  Tips        \* tips, in cents

Kinds == {"none", "percentage", "fixed", "bogo"}

ASSUME MenuAssumption ==
  Menu \in [Products -> [price : Nat, pointsToRedeem : Nat, pointsToAdd : Nat]]

\* fromRewards: the line was added from the rewards section; options: the
\* price of the line's modifier options, per unit.
ASSUME LinesAssumption ==
  Lines \subseteq [product : Products, quantity : Nat \ {0},
                   fromRewards : BOOLEAN, options : Nat]

\* usable: the coupon exists, is active, not expired and not used up; capped:
\* it has a largest discount.
ASSUME CouponsAssumption ==
  Coupons \subseteq [kind : Kinds, usable : BOOLEAN, value : Nat,
                     capped : BOOLEAN, cap : Nat, minimum : Nat,
                     target : Products]

ASSUME NumbersAssumption ==
  /\ MaxLines \in Nat
  /\ Balances \subseteq Int
  /\ TaxRates \subseteq Nat
  /\ Tips \subseteq Nat

VARIABLES
  bill,        \* what is to be priced: lines, balance, coupon, taxRate, tip
  phase,       \* "lines", "coupon", "total", "done"
  next,        \* the next line to price
  subtotal,    \* in cents
  remaining,   \* remainingRewardPoints
  redeemed,    \* pointsToBeRedeemed
  earned,      \* totalPointsToBeAdded
  eligible,    \* totalQuantity of the coupon's target, summed along the lines
  units,       \* history: units of each line paid with points
  discount,    \* couponDiscountAmount, unrounded, in fine units
  receipt      \* taxes, total, discount and roundOff, rounded to cents

billVars == <<bill, phase, next, subtotal, remaining, redeemed, earned,
          eligible, units, discount, receipt>>

Fine == 10000
Blank == [taxes |-> 0, total |-> 0, discount |-> 0, roundOff |-> 0]

LineLists == UNION {[1..n -> Lines] : n \in 1..MaxLines}

BillTypeOK ==
  /\ bill \in [lines : Seq(Lines), balance : Balances, coupon : Coupons,
               taxRate : TaxRates, tip : Tips]
  /\ phase \in {"lines", "coupon", "total", "done"}
  /\ next \in 1..(Len(bill.lines) + 1)
  /\ subtotal \in Int /\ remaining \in Int /\ redeemed \in Int
  /\ earned \in Nat /\ eligible \in Nat
  /\ units \in Seq(Int) /\ Len(units) = next - 1
  /\ discount \in Int
  /\ receipt \in [taxes : Int, total : Int, discount : Int, roundOff : Int]

BillInit ==
  /\ bill \in [lines : LineLists, balance : Balances, coupon : Coupons,
               taxRate : TaxRates, tip : Tips]
  /\ phase = "lines"
  /\ next = 1
  /\ subtotal = 0
  /\ remaining = bill.balance
  /\ redeemed = 0
  /\ earned = 0
  /\ eligible = 0
  /\ units = <<>>
  /\ discount = 0
  /\ receipt = Blank

-----------------------------------------------------------------------------
(* The lines *)

PriceOf(line) == Menu[line.product].price
Points(line) == Menu[line.product].pointsToRedeem

\* Seeded fault: the line's quantity does not limit what points redeem.
UnitsRedeemedAny(line, left) ==
  IF ~line.fromRewards \/ Points(line) = 0 THEN 0
  ELSE left \div Points(line)
\* A line of the rewards section is redeemed in full if the points suffice,
\* otherwise as many units as they do (Math.floor, as \div, rounds down).
UnitsRedeemed(line, left) ==
  IF ~line.fromRewards \/ Points(line) = 0 THEN 0
  ELSE IF left >= Points(line) * line.quantity THEN line.quantity
  ELSE left \div Points(line)

\* The modifier options are paid in any case, and every unit earns points.
PriceLine ==
  LET line == bill.lines[next]
      u == UnitsRedeemed(line, remaining)
  IN /\ phase = "lines"
     /\ next <= Len(bill.lines)
     /\ subtotal' = subtotal + (line.quantity - u) * PriceOf(line)
                             + line.quantity * line.options
     /\ redeemed' = redeemed + u * Points(line)
     /\ remaining' = remaining - u * Points(line)
     /\ earned' = earned + Menu[line.product].pointsToAdd * line.quantity
     /\ eligible' = eligible + IF line.product = bill.coupon.target
                               THEN line.quantity ELSE 0
     /\ units' = Append(units, u)
     /\ next' = next + 1
     /\ UNCHANGED <<bill, phase, discount, receipt>>

LinesDone ==
  /\ phase = "lines"
  /\ next = Len(bill.lines) + 1
  /\ phase' = "coupon"
  /\ UNCHANGED <<bill, next, subtotal, remaining, redeemed, earned,
                 eligible, units, discount, receipt>>

-----------------------------------------------------------------------------
(* The coupon.  A coupon that is not accepted leaves the discount at 0.      *)

\* Seeded fault: the order's minimum is not looked at.
AcceptedAlways == bill.coupon.usable
Accepted == bill.coupon.usable /\ subtotal >= bill.coupon.minimum

NoCoupon ==
  /\ bill.coupon.kind = "none" \/ ~Accepted
  /\ discount' = 0

Percentage ==
  LET c == bill.coupon
      d == subtotal * c.value * 100
  IN /\ c.kind = "percentage" /\ Accepted
     /\ discount' = IF c.capped /\ d > c.cap * Fine THEN c.cap * Fine ELSE d

Fixed ==
  LET c == bill.coupon
  IN /\ c.kind = "fixed" /\ Accepted
     /\ discount' = IF subtotal = c.value THEN 0 ELSE c.value * Fine

\* Every second unit of the target is free, at its price without options.
Bogo ==
  LET c == bill.coupon
  IN /\ c.kind = "bogo" /\ Accepted
     /\ discount' = IF eligible < 2 THEN 0
                    ELSE (eligible \div 2) * Menu[c.target].price * Fine

ApplyCoupon ==
  /\ phase = "coupon"
  /\ NoCoupon \/ Percentage \/ Fixed \/ Bogo
  /\ phase' = "total"
  /\ UNCHANGED <<bill, next, subtotal, remaining, redeemed, earned,
                 eligible, units, receipt>>

-----------------------------------------------------------------------------
(* Taxes and total *)

\* The cents a number of fine units is rounded to (toFixed(2)): half a cent
\* may go either way, the number being a binary fraction in the code.
Rounded(x) ==
  {n \in {x \div Fine, (x \div Fine) + 1} :
     /\ 2 * (n * Fine - x) <= Fine
     /\ 2 * (x - n * Fine) <= Fine}

\* Taxes on the discounted amount, which is a multiple of 100 fine units.
Taxes == ((subtotal * Fine - discount) * bill.taxRate) \div 100

\* Seeded fault: the total forgets the discount.
ExactTotalGross == subtotal * Fine + Taxes + bill.tip * Fine
ExactTotal == subtotal * Fine + Taxes + bill.tip * Fine - discount

ComputeTotal ==
  /\ phase = "total"
  /\ \E taxes \in Rounded(Taxes), total \in Rounded(ExactTotal),
        off \in Rounded(discount) :
       \E r \in Rounded(total * Fine - ExactTotal) :
         receipt' = [taxes |-> taxes, total |-> total, discount |-> off,
                     roundOff |-> r]
  /\ phase' = "done"
  /\ UNCHANGED <<bill, next, subtotal, remaining, redeemed, earned,
                 eligible, units, discount>>

BillNext == PriceLine \/ LinesDone \/ ApplyCoupon \/ ComputeTotal

BillSpec == BillInit /\ [][BillNext]_billVars

-----------------------------------------------------------------------------
(* Properties *)

\* No line redeems more units than were ordered.  One may redeem fewer than none,
\* and charge for units that are not there: the first that redeems with a balance
\* below zero, which a refund may leave (Math.floor of a negative quotient).
UnitsPaidOnce ==
  \A j \in 1..(next - 1) :
    /\ units[j] <= bill.lines[j].quantity
    /\ units[j] < 0 => bill.balance < 0 /\ \A k \in 1..(j - 1) : units[k] = 0

\* What the cart will redeem and what the customer keeps make up the balance
\* that was read, and the cart never redeems more than there is: what is left is
\* below zero only if the balance was, and no line could redeem any of it.
Redeemable(line) == line.fromRewards /\ Points(line) > 0
PointsCovered ==
  /\ redeemed + remaining = bill.balance
  /\ remaining < 0 =>
       /\ remaining = bill.balance
       /\ \A k \in 1..(next - 1) : units[k] = 0 /\ ~Redeemable(bill.lines[k])

\* The comment 'Redeem as many items as possible with available points': no
\* unit added from the rewards section is charged for while the points that
\* are left would have redeemed it.
RedeemsAllItCan ==
  \A j \in 1..(next - 1) :
    LET line == bill.lines[j]
    IN (Redeemable(line) /\ units[j] < line.quantity)
         => remaining < Points(line)

\* Points pay for units, whatever the balance: for none twice, never with more
\* than there are, for as many as they can, and a debt of points is charged for
\* as units once at most (appendCart, line by line).
PointsAccounted == UnitsPaidOnce /\ PointsCovered /\ RedeemsAllItCan

\* The total of the bill is the sum of the rounded amounts it lists, to the
\* cent: rounding each on its own never puts it off by more.
BillWithinACent ==
  phase = "done" =>
    receipt.total - (subtotal + receipt.taxes + bill.tip - receipt.discount)
      \in -1..1

\* A coupon of at most 100 per cent, or of a fixed value that the order's
\* minimum covers.
Modest(c) ==
  \/ c.kind = "none"
  \/ c.kind = "percentage" /\ c.value <= 100
  \/ c.kind = "fixed" /\ c.value <= c.minimum

\* Such a coupon never makes the total negative (the order would be stored as
\* paid without a payment).
TotalNotNegative ==
  (phase = "done" /\ bill.balance >= 0 /\ Modest(bill.coupon))
    => receipt.total >= 0

\* What TotalNotNegative rests on: points pay for units that are there, so that
\* no line is negative, and the discount stays within the lines.
BillCovered ==
  bill.balance >= 0 =>
    /\ subtotal >= 0 /\ remaining >= 0
    /\ (phase = "total" /\ Modest(bill.coupon))
         => discount <= subtotal * Fine

=============================================================================
