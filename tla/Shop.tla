------------------------------------ MODULE Shop -------------------------------
(* The shop (stylist_api/routers/shop.py, stylist_shop): what the wardrobe lacks
   for a day and which products are offered for it; then, for one user, "I bought
   this", and the orders a merchant's network reports, late, twice or out of order.
   A product of the catalogue is a piece nobody owns yet. *)
EXTENDS Pool

CONSTANTS
  Catalogue,     \* products in stock
  Gender,        \* department of a product, or Unset
  Price,
  MaxSuggestions,
  Sold,          \* products of the stateful part
  Orders, Buys,  \* orders (network, conversion_id), and the product of each
  MaxReports, MaxTaps, MaxChanges   \* bounds

ASSUME OrdersAssumption == Buys \in [Orders -> Sold]
ASSUME CatalogueAssumption == Catalogue \subseteq Pieces

--------------------------------------------------------------------------------
Gap(slot, severity) == [slot |-> slot, severity |-> severity]

\* find_gaps, one line for each slot, the blocking ones first.
FindGapsOfEveryBase(pool) ==
  {Gap(slot, "blocking") : slot \in {s \in BaseSlots : In(pool, s) = {}}}
  \cup {Gap(slot, "incomplete") : slot \in {s \in PreferredSlots : In(pool, s) = {}}}

FindGaps(pool) ==
  LET blocking == IF CompleteBases(pool) = {} THEN {s \in BaseSlots : In(pool, s) = {}} ELSE {}
      lacking == {s \in PreferredSlots : In(pool, s) = {}}
  IN  {Gap(slot, "blocking") : slot \in blocking}
      \cup {Gap(slot, "incomplete") : slot \in lacking \ blocking}

Departments(dressesAs) ==
  IF dressesAs \in {"women", "men"} THEN {dressesAs, "unisex", Unset}
  ELSE {"women", "men", "unisex", Unset}

\* The products for a gap, the cheapest first.
Suits(p, slot, day, dressesAs) ==
  /\ Slot[p] = slot
  /\ Wears[p] \in Accepts[day.code] \cup {Untagged}
  /\ Warmth[p] = Unset \/ Apart(Warmth[p], day.warmth) <= 1
  /\ Gender[p] \in Departments(dressesAs)

Offers(slot, day, dressesAs) ==
  Best({p \in Catalogue : Suits(p, slot, day, dressesAs)}, MaxSuggestions,
       LAMBDA p, q : Price[p] < Price[q])

(* An offer mends what it is offered for: the shop's gaps are those of the very *)
(* pool the outfits come from, a product that is bought for one fills it, short *)
(* of a kind the user never wears, and one product for each slot of a base      *)
(* makes the user dressable; and a wardrobe that dresses them is told of no     *)
(* blocking gap (gaps.py, shop.py).                                             *)
OffersFillTheGap(wardrobe, day, dressesAs) ==
  LET before == LoadWardrobe(wardrobe, day)
      gaps == FindGaps(before.pool)
      slots == {g.slot : g \in gaps}
      welcome(slot) == {p \in Offers(slot, day, dressesAs) : Kind[p] \notin day.never}
  IN  /\ (\E g \in gaps : g.severity = "blocking") <=> before.blocking # {}
      /\ Cardinality(slots) = Cardinality(gaps)
      /\ \A slot \in slots : In(before.pool, slot) = {}
      /\ \A slot \in slots : \A p \in welcome(slot) :
           p \in LoadWardrobe(wardrobe \cup {p}, day).pool
      /\ \A base \in BaseStructures :
           before.blocking # {} /\ (\A slot \in base \cap slots : welcome(slot) # {}) =>
             LET bought == {CHOOSE p \in welcome(slot) : TRUE : slot \in base \cap slots}
             IN  LoadWardrobe(wardrobe \cup bought, day).blocking = {}

--------------------------------------------------------------------------------
VARIABLES
  sold,      \* product -> its garment: [at, by, verified, worn]
  events,    \* product -> whether it was shown, and how many `bought` events it has
  orders,    \* shop_conversion: order -> [status, linked], once reported
  hearing,   \* order -> the report whose picture is being fetched, or "none"
  tapping,   \* product -> taps whose picture is being fetched
  listed,    \* products still in the catalogue
  user,      \* what the user has said: [tapped, removed]
  budget     \* [reports, taps, changes] that may still happen

shopVars == <<sold, events, orders, hearing, tapping, listed, user, budget>>

Unowned == [at |-> "none", by |-> "nobody", verified |-> FALSE, worn |-> FALSE]
Unreported == [status |-> "none", linked |-> FALSE]

ShopInit ==
  /\ sold = [p \in Sold |-> Unowned]
  /\ events = [p \in Sold |-> [shown |-> FALSE, bought |-> 0]]
  /\ orders = [o \in Orders |-> Unreported]
  /\ hearing = [o \in Orders |-> "none"]
  /\ tapping = [p \in Sold |-> 0]
  /\ listed = Sold
  /\ user = [tapped |-> {}, removed |-> {}]
  /\ budget = [reports |-> MaxReports, taps |-> MaxTaps, changes |-> MaxChanges]

Spend(what) == budget[what] > 0 /\ budget' = [budget EXCEPT ![what] = @ - 1]

\* normalise_status; any other spelling is refused.
NormaliseStatus(word) ==
  CASE word \in {"open", "placed"} -> "pending"
    [] word \in {"confirmed", "paid"} -> "approved"
    [] word \in {"cancelled", "returned"} -> "rejected"
    [] OTHER -> "unknown"

\* GET /shop/gaps: the event of the impression is the reference on the link.
ShowProduct(p) ==
  /\ p \in listed /\ ~events[p].shown
  /\ events' = [events EXCEPT ![p].shown = TRUE]
  /\ UNCHANGED <<sold, orders, hearing, tapping, listed, user, budget>>

\* INSERT ... ON CONFLICT DO NOTHING, and the event only with a new row.
Added(garment, by) ==
  IF garment.at = "none" THEN [Unowned EXCEPT !.at = "active", !.by = by] ELSE garment

EventFor(p) == [events EXCEPT ![p].bought = IF sold[p].at = "none" THEN @ + 1 ELSE @]

\* POST /shop/own: the product is read, its picture fetched, the row inserted.
Tap(p) ==
  /\ p \in listed /\ Spend("taps")
  /\ tapping' = [tapping EXCEPT ![p] = @ + 1]
  /\ UNCHANGED <<sold, events, orders, hearing, listed, user>>

EndTap(p) ==
  /\ tapping[p] > 0
  /\ tapping' = [tapping EXCEPT ![p] = @ - 1]
  /\ UNCHANGED <<orders, hearing, listed, budget>>

\* `confirmed_by` of a row that exists stays what it is.
OwnProduct(p) ==
  /\ EndTap(p) /\ p \in listed
  /\ sold' = [sold EXCEPT ![p] = Added(@, "user")] /\ events' = EventFor(p)
  /\ user' = [user EXCEPT !.tapped = @ \cup {p}]

\* An unsafe picture, a product that is gone, a crash: rolled back.
TapFails(p) ==
  /\ EndTap(p)
  /\ UNCHANGED <<sold, events, user>>

\* A report of an order is a transaction that holds the order's row.
Recorded(o, status) == [orders EXCEPT ![o].status = status]

\* Retired only if the merchant put it there and the user did not claim it.
Retired(garment) ==
  IF garment.at = "active" /\ garment.by = "feed" /\ ~garment.verified /\ ~garment.worn
  THEN [garment EXCEPT !.at = "retired"] ELSE garment

RevivedNever(garment) == garment

Revived(garment) ==
  IF garment.at = "retired" /\ garment.by = "feed" THEN [garment EXCEPT !.at = "active"]
  ELSE garment

Hears(o, word, status) ==
  /\ hearing[o] = "none" /\ events[Buys[o]].shown /\ Spend("reports")
  /\ NormaliseStatus(word) = status

RejectOrder(o, word) ==
  /\ Hears(o, word, "rejected")
  /\ orders' = Recorded(o, "rejected")
  /\ sold' = [sold EXCEPT ![Buys[o]] = IF orders[o].linked THEN Retired(@) ELSE @]
  /\ UNCHANGED <<events, hearing, tapping, listed, user>>

\* A secret that is wrong, a status, id or reference that is unknown: no change.
RefuseReport(o, word) ==
  /\ Hears(o, word, "unknown")
  /\ UNCHANGED <<sold, events, orders, hearing, tapping, listed, user>>

\* The garment is known, or the product is no longer there to copy from.
RepeatOrder(o, word) ==
  /\ \E status \in {"pending", "approved"} :
       /\ Hears(o, word, status) /\ orders' = Recorded(o, status)
  /\ orders[o].linked \/ Buys[o] \notin listed
  /\ sold' = [sold EXCEPT ![Buys[o]] = IF Buys[o] \in listed THEN Revived(@) ELSE @]
  /\ UNCHANGED <<events, hearing, tapping, listed, user>>

HearOrder(o, word) ==
  /\ \E status \in {"pending", "approved"} :
       Hears(o, word, status) /\ hearing' = [hearing EXCEPT ![o] = status]
  /\ ~orders[o].linked /\ Buys[o] \in listed
  /\ UNCHANGED <<sold, events, orders, tapping, listed, user>>

AddOrdered(o) ==
  /\ hearing[o] # "none"
  /\ hearing' = [hearing EXCEPT ![o] = "none"]
  /\ orders' = [orders EXCEPT ![o] = [status |-> hearing[o], linked |-> TRUE]]
  /\ sold' = [sold EXCEPT ![Buys[o]] = Revived(Added(@, "feed"))] /\ events' = EventFor(Buys[o])
  /\ UNCHANGED <<tapping, listed, user, budget>>

\* The picture is unsafe, or the process dies: nothing of the report is kept.
HearingFails(o) ==
  /\ hearing[o] # "none"
  /\ hearing' = [hearing EXCEPT ![o] = "none"]
  /\ UNCHANGED <<sold, events, orders, tapping, listed, user, budget>>

\* DELETE /garments/{id}, PATCH .../fields and POST .../wear, in other routers.
RemoveSold(p) ==
  /\ sold[p].at = "active" /\ Spend("changes")
  /\ sold' = [sold EXCEPT ![p].at = "retired"]
  /\ user' = [user EXCEPT !.removed = @ \cup {p}]
  /\ UNCHANGED <<events, orders, hearing, tapping, listed>>

ClaimSold(p) ==
  /\ sold[p].at = "active" /\ Spend("changes")
  /\ \E how \in {"verified", "worn"} : sold' = [sold EXCEPT ![p][how] = TRUE]
  /\ UNCHANGED <<events, orders, hearing, tapping, listed, user>>

\* An order's report in progress holds the product it names.
ProductLeaves(p) ==
  /\ p \in listed /\ Spend("changes")
  /\ \A o \in Orders : Buys[o] = p => hearing[o] = "none"
  /\ listed' = listed \ {p}
  /\ UNCHANGED <<sold, events, orders, hearing, tapping, user>>

Words == {"placed", "paid", "returned", "sent"}

ShopNext ==
  \/ \E p \in Sold :
       \/ ShowProduct(p) \/ Tap(p) \/ OwnProduct(p) \/ TapFails(p)
       \/ RemoveSold(p) \/ ClaimSold(p) \/ ProductLeaves(p)
  \/ \E o \in Orders, word \in Words :
       RejectOrder(o, word) \/ RefuseReport(o, word) \/ RepeatOrder(o, word) \/ HearOrder(o, word)
  \/ \E o \in Orders : AddOrdered(o) \/ HearingFails(o)

ShopSpec == ShopInit /\ [][ShopNext]_shopVars

--------------------------------------------------------------------------------
OrdersOf(p) == {o \in Orders : Buys[o] = p}

(* A wardrobe holds what somebody said was bought, once: a garment is there     *)
(* because the user tapped or an order of theirs stands or stood, and one       *)
(* `bought` event tells of it whatever the taps, the reports and their retries  *)
(* do together.  It is out of the wardrobe only if the user removed it or an    *)
(* order of it was returned and not taken up again; and an order that stands    *)
(* has its garment, while the product is there to copy (shop.py).               *)
PurchasesAgree ==
  /\ \A p \in Sold :
       /\ events[p].bought = IF sold[p].at = "none" THEN 0 ELSE 1
       /\ sold[p].by = "user" => p \in user.tapped
       /\ sold[p].by = "feed" => \E o \in OrdersOf(p) : orders[o].linked
       /\ sold[p].at = "retired" /\ p \in listed \ user.removed =>
            sold[p].by = "feed" /\ \E o \in OrdersOf(p) : orders[o].status = "rejected"
  /\ \A o \in Orders :
       /\ orders[o].status \in {"pending", "approved"} /\ Buys[o] \in listed => orders[o].linked
       /\ orders[o].linked => sold[Buys[o]].at # "none"

(* "A garment they tapped I bought this on, corrected the tags of, or wore, is  *)
(* theirs to remove, not ours" (shop.py:524-526).                               *)
TheirsToRemove ==
  \A p \in user.tapped \ user.removed : sold[p].at = "active"
================================================================================
