------------------------------- MODULE Market -------------------------------
(***************************************************************************)
(* The internal market GBC:GBD and the conversion of GBD at the median     *)
(* price feed (gamebank_evaluator.cpp:1711-1812, database.cpp:2342,        *)
(* 3887-4080).                                                             *)
(*                                                                         *)
(* A price <<base, quote>> of an order that sells s is base of s for quote *)
(* of the other asset; products round down, as asset * price does.         *)
(***************************************************************************)
EXTENDS Accounts, Sequences

CONSTANTS OrderId,        \* the order ids accounts use
          Price,          \* bound: the exchange rates of limit_order_create2
          MaxOrders,      \* bound: orders ever placed
          OrderLife,      \* bound: expirations, in blocks from now
          RequestNo,      \* the ids of conversion requests
          ConversionDelay,\* GAMEBANK_CONVERSION_DELAY, in blocks
          Feed,           \* bound: median price feeds, <<GBD, GBC>>
          NoFeed          \* price(): no median yet

ASSUME PriceAssumption == Price \cup Feed \subseteq (Nat \ {0}) \X (Nat \ {0})
ASSUME MarketAssumption == OrderLife \subseteq Nat /\ ConversionDelay \in Nat

VARIABLES orders,         \* limit_order_index
          next_order,     \* the id of the next limit_order_object
          trades,         \* the fill_order_operations of the last operation
          converts,       \* convert_request_index
          median          \* current_median_history

marketVars == <<orders, next_order, trades, converts, median>>

Other(s) == IF s = "GBC" THEN "GBD" ELSE "GBC"

limit_order_object ==
  [id : Nat, seller : Account, orderid : OrderId, sells : Asset, for_sale : Nat \ {0},
   price : (Nat \ {0}) \X (Nat \ {0}), expiration : Nat]

MarketTypeOK ==
  /\ orders \subseteq limit_order_object
  /\ next_order \in Nat
  /\ converts \subseteq [owner : Account, requestid : RequestNo, amount : Holding, date : Nat]
  /\ median \in Feed \cup {NoFeed}

MarketInit ==
  /\ orders = {}
  /\ next_order = 0
  /\ trades = <<>>
  /\ converts = {}
  /\ median = NoFeed

-----------------------------------------------------------------------------
(* operator * ( asset, price ), with the base or with the quote of the price. *)
AtPrice(n, p) == (n * p[2]) \div p[1]
AgainstPrice(n, p) == (n * p[1]) \div p[2]

ForSale(o) == Amount(o.for_sale, o.sells)

(* by_price: the greater price first, then the older order. *)
Precedes(o, p) ==
  \/ o.price[1] * p.price[2] > p.price[1] * o.price[2]
  \/ o.price[1] * p.price[2] = p.price[1] * o.price[2] /\ o.id < p.id

(* Would the order new trade at old's price?  The range of apply_order().    *)
Crosses(new, old) ==
  /\ old.sells = Other(new.sells)
  /\ old.price[1] * new.price[1] >= old.price[2] * new.price[2]

(* match(): what the new order pays and receives, at the old order's price.  *)
Match(new, old) ==
  IF new.for_sale <= AtPrice(old.for_sale, old.price)
    THEN [pays |-> new.for_sale, receives |-> AgainstPrice(new.for_sale, old.price)]
    ELSE [pays |-> AtPrice(old.for_sale, old.price), receives |-> old.for_sale]

(* Mutant: an order goes only when nothing is left of it. *)
IsEmpty(o) == o.for_sale = 0

(* fill_order(): what is left of the order, and what is refunded because it  *)
(* would sell for nothing.                                                   *)
Filled(o, pays) == [o EXCEPT !.for_sale = @ - pays]
IsDust(o) == AtPrice(o.for_sale, o.price) = 0

(* Mutant: what is too small to be sold is lost. *)
RefundNothing(o) == Nothing

Refund(o) == IF IsDust(o) THEN ForSale(o) ELSE Nothing

(* The first order of the range of apply_order()'s iterators. *)
Best(S) == CHOOSE o \in S : \A p \in S \ {o} : Precedes(o, p)

(* One round of apply_order()'s loop: book is [new, left, others, held,      *)
(* trades], left the orders of the range the loop has not come to.           *)
Round(book) ==
  IF IsDust(book.new) \/ book.left = {}
    THEN book
    ELSE LET old == Best(book.left)
             m == Match(book.new, old)
             new == Filled(book.new, m.pays)
             rest == Filled(old, m.receives)
             paid == Both(Amount(m.receives, old.sells), Refund(new))
             got == Both(Amount(m.pays, new.sells), Refund(rest))
         IN  [new |-> new,
              left |-> book.left \ {old},
              others |-> (book.others \ {old}) \cup (IF IsDust(rest) THEN {} ELSE {rest}),
              held |-> Credit(Credit(book.held, new.seller, paid), old.seller, got),
              trades |-> Append(book.trades, [new |-> book.new, old |-> old,
                                              pays |-> m.pays, receives |-> m.receives])]

(* Mutant: one trade and no more. *)
apply_order_once(new, held) ==
  Round([new |-> new, left |-> {o \in orders : Crosses(new, o)}, others |-> orders,
         held |-> held, trades |-> <<>>])

(* apply_order(): the new order against the crossing ones, best price first. *)
apply_order(new, held) ==
  LET crossing == {o \in orders : Crosses(new, o)}
      book[n \in 0..Cardinality(crossing)] ==
        IF n = 0 THEN [new |-> new, left |-> crossing, others |-> orders, held |-> held,
                       trades |-> <<>>]
        ELSE Round(book[n - 1])
  IN  book[Cardinality(crossing)]

(* The common part of limit_order_create and limit_order_create2. *)
PlaceOrder(owner, oid, s, n, price, life, fill_or_kill) ==
  LET new == [id |-> next_order, seller |-> owner, orderid |-> oid, sells |-> s,
              for_sale |-> n, price |-> price, expiration |-> now + life]
      book == apply_order(new, Debit(balance, owner, Amount(n, s)))
  IN  /\ next_order < MaxOrders
      /\ balance[owner][s] >= n
      /\ ~\E o \in orders : o.seller = owner /\ o.orderid = oid
      /\ fill_or_kill => IsDust(book.new)
      /\ balance' = book.held
      /\ orders' = book.others \cup (IF IsDust(book.new) THEN {} ELSE {book.new})
      /\ trades' = book.trades
      /\ next_order' = next_order + 1
      /\ UNCHANGED <<savings, supply, now, converts, median>>

limit_order_create(owner, oid, s, n, min_to_receive, life, fill_or_kill) ==
  PlaceOrder(owner, oid, s, n, <<n, min_to_receive>>, life, fill_or_kill)

(* The amount must not round to 0 at the exchange rate. *)
limit_order_create2(owner, oid, s, n, price, life, fill_or_kill) ==
  /\ AtPrice(n, price) > 0
  /\ PlaceOrder(owner, oid, s, n, price, life, fill_or_kill)

limit_order_cancel(o) ==
  /\ balance' = Credit(balance, o.seller, ForSale(o))
  /\ orders' = orders \ {o}
  /\ trades' = <<>>
  /\ UNCHANGED <<savings, supply, now, next_order, converts, median>>

(* clear_expired_orders() *)
ExpiredOrders(t) == {o \in orders : o.expiration < t}

-----------------------------------------------------------------------------
(* convert_evaluator: GBD only, and only once there is a median feed. *)
convert(owner, x, rid) ==
  /\ Covers(balance[owner], Amount(x, "GBD"))
  /\ median # NoFeed
  /\ ~\E c \in converts : c.owner = owner /\ c.requestid = rid
  /\ balance' = Debit(balance, owner, Amount(x, "GBD"))
  /\ converts' = converts \cup
       {[owner |-> owner, requestid |-> rid, amount |-> Amount(x, "GBD"), date |-> now + ConversionDelay]}
  /\ trades' = <<>>
  /\ UNCHANGED <<savings, supply, now, orders, next_order, median>>

(* process_conversions(): the requests due at time t, paid at the median m.  *)
DueConverts(t, m) == IF m = NoFeed THEN {} ELSE {c \in converts : c.date <= t}
Issued(c, m) == Amount(AtPrice(c.amount["GBD"], m), "GBC")
Converted(sup, S, m) ==
  [s \in Asset |-> sup[s] + TotalOf(S, LAMBDA c : Issued(c, m), s) - TotalOf(S, LAMBDA c : c.amount, s)]
=============================================================================
