----------------------------- MODULE ShopOrders -----------------------------
(***************************************************************************)
(* Signing in, the cart, checkout and the order pages of the demo shop,    *)
(* with the orders table behind them.  Every call is a fetch that is       *)
(* served or fails, and answers in any order; the person moves on          *)
(* meanwhile.                                                              *)
(* A page that was left ignores the answer, but what the answer does       *)
(* outside the page (the session, the cart, a navigation) still happens.   *)
(***************************************************************************)
EXTENDS ShopSession, Sequences

CONSTANTS
  Product,     \* what can be put in the cart
  Stock,       \* a product's stock
  Slot,        \* bound: calls in flight at a time
  SeedOwner,   \* the seeded orders' owners, in the order they are inserted
  FirstNumber, \* the number of the first seeded order
  MaxSeq,      \* bound: ids the sequence of the orders table gives out
  MaxCalls     \* bound: calls made in all

ASSUME OrdersConstants ==
  /\ Stock \in Nat /\ FirstNumber \in Nat /\ MaxSeq \in Nat /\ MaxCalls \in Nat
  /\ SeedOwner \in Seq(Person) /\ Len(SeedOwner) <= MaxSeq

VARIABLES
  orders,   \* the orders table
  seq,      \* its sequence: the last id given out
  mode,     \* api_mode: where calls are sent
  route,    \* the page shown
  back,     \* where the sign-in page returns to (location.state.from)
  cart,     \* quantities
  placing,  \* Checkout's placing
  shown,    \* what the order pages show, and by which mode it was fetched
  calls,    \* calls in flight
  sent      \* how many were made

orderVars == <<orders, seq, mode, route, back, cart, placing, shown, calls, sent>>

Seeds   == DOMAIN SeedOwner
Empty   == [p \in Product |-> 0]
Mode    == {"backend", "gateway"}
PageName == {"shop", "auth", "checkout", "orders", "order"}  \* shop: the others
Page(name) == [name |-> name, id |-> 0]
Order   == [id : 1..MaxSeq, number : Nat, owner : Person, items : [Product -> 0..Stock]]

NotShown == [via |-> "none", rows |-> {}]
Failed   == [via |-> "error", rows |-> {}]

\* A call: what it asks, with which token, through which mode; whether the page
\* that made it is still there; where its page goes next; and its answer.
Call(kind, who, id, via) ==
  [kind |-> kind, who |-> who, tok |-> token, via |-> via, id |-> id,
   items |-> cart, live |-> TRUE, next |-> back, answer |-> "none", rows |-> {}]
Idle ==
  [kind |-> "idle", who |-> Nobody, tok |-> NoToken, via |-> "none", id |-> 0,
   items |-> Empty, live |-> FALSE, next |-> Page("shop"), answer |-> "none", rows |-> {}]

OrdersTypeOK ==
  /\ orders \subseteq Order
  /\ seq \in 0..MaxSeq
  /\ mode \in Mode
  /\ route \in [name : PageName, id : 0..MaxSeq]
  /\ back \in [name : PageName, id : 0..MaxSeq]
  /\ cart \in [Product -> 0..Stock]
  /\ placing \in BOOLEAN
  /\ sent \in 0..MaxCalls
  /\ shown.via \in Mode \cup {"none", "error"} /\ shown.rows \subseteq orders

\* initDb on an empty database.
Seeded == {[id |-> n, number |-> FirstNumber + n - 1, owner |-> SeedOwner[n],
            items |-> Empty] : n \in Seeds}

OrdersInit ==
  /\ orders = Seeded
  /\ seq = Cardinality(Seeds)
  /\ mode \in Mode
  /\ route = Page("shop")
  /\ back = Page("shop")
  /\ cart = Empty
  /\ placing = FALSE
  /\ shown = NotShown
  /\ calls = [s \in Slot |-> Idle]
  /\ sent = 0

-----------------------------------------------------------------------------
(* The backend. *)

\* Mutant: the seeds are inserted without ON CONFLICT into a table without UNIQUE.
RestartDoubling ==
  /\ seq + Cardinality(Seeds) <= MaxSeq
  /\ seq' = seq + Cardinality(Seeds)
  /\ orders' = orders \cup {[o EXCEPT !.id = seq + @] : o \in Seeded}
  /\ UNCHANGED <<sessionVars, mode, route, back, cart, placing, shown, calls, sent>>

\* The backend starts again: initDb inserts its seeds, all of them there already;
\* each insert that finds its number taken has used up an id.
Restart ==
  /\ seq + Cardinality(Seeds) <= MaxSeq
  /\ seq' = seq + Cardinality(Seeds)
  /\ UNCHANGED <<sessionVars, orders, mode, route, back, cart, placing, shown, calls, sent>>

Answered(s, how, rows) ==
  calls' = [calls EXCEPT ![s].answer = how, ![s].rows = rows]

Waiting(s, kind) == calls[s].kind = kind /\ calls[s].answer = "none"

\* POST /api/login with the right password; with a wrong one the call fails.
ServeLogin(s) ==
  /\ Waiting(s, "login")
  /\ calls' = [calls EXCEPT ![s].answer = "ok", ![s].tok = IssueToken(calls[s].who)]
  /\ UNCHANGED <<sessionVars, orders, seq, mode, route, back, cart, placing, shown, sent>>

\* requireCaller
Refused(s) == CallerFrom(calls[s].tok) = Nobody

\* POST /api/orders: the id comes first, the number is made of it; an insert that
\* meets a number already taken fails, and the id is gone.
ServeCreate(s) ==
  /\ Waiting(s, "create")
  /\ LET id == seq + 1
         o  == [id |-> id, number |-> id, owner |-> CallerFrom(calls[s].tok),
                items |-> calls[s].items]
     IN IF Refused(s) THEN Answered(s, "expired", {}) /\ UNCHANGED <<orders, seq>>
        ELSE IF calls[s].items = Empty
        THEN Answered(s, "refused", {}) /\ UNCHANGED <<orders, seq>>
        ELSE /\ id <= MaxSeq
             /\ seq' = id
             /\ IF \E x \in orders : x.number = o.number
                THEN Answered(s, "refused", {}) /\ UNCHANGED orders
                ELSE Answered(s, "ok", {o}) /\ orders' = orders \cup {o}
  /\ UNCHANGED <<sessionVars, mode, route, back, cart, placing, shown, sent>>

\* GET /api/orders
ServeList(s) ==
  /\ Waiting(s, "list")
  /\ IF Refused(s) THEN Answered(s, "expired", {})
     ELSE Answered(s, "ok", {o \in orders : o.owner = CallerFrom(calls[s].tok)})
  /\ UNCHANGED <<sessionVars, orders, seq, mode, route, back, cart, placing, shown, sent>>

\* GET /api/orders/:id, whoever owns it; the gateway's ownership check turns
\* someone else's into a 404.
ServeOrder(s) ==
  /\ Waiting(s, "order")
  /\ LET found == {o \in orders : o.id = calls[s].id}
         mine  == {o \in found : o.owner = CallerFrom(calls[s].tok)}
         rows  == IF calls[s].via = "gateway" THEN mine ELSE found
     IN IF Refused(s) THEN Answered(s, "expired", {})
        ELSE rows # {} /\ Answered(s, "ok", rows)
  /\ UNCHANGED <<sessionVars, orders, seq, mode, route, back, cart, placing, shown, sent>>

\* A call may fail at any moment: the network loses it or its answer, or the
\* gateway refuses it on its way.
MayFail(s) == calls[s].answer # "expired"

-----------------------------------------------------------------------------
(* Pages. *)

Protected == {"checkout", "orders", "order"}

\* A call goes out.
Place(cs, c) ==
  /\ sent < MaxCalls
  /\ sent' = sent + 1
  /\ \E s \in Slot : cs[s] = Idle /\ calls' = [cs EXCEPT ![s] = c]

\* The page of route r for p, with call table cs: a page that needs an account
\* sends nobody to sign in; the order pages fetch when they are mounted or their
\* id changes.  fresh: mount it anew even if it is the page shown already.
Show(r, p, cs, fresh) ==
  LET away   == r.name \in Protected /\ p = Nobody
      target == IF away THEN Page("auth") ELSE r
      stays  == ~fresh /\ target.name = route.name
      kept   == IF stays THEN cs ELSE [s \in Slot |-> [cs[s] EXCEPT !.live = FALSE]]
      fetch  == [Call(IF target.name = "orders" THEN "list" ELSE "order", Nobody,
                      target.id, mode') EXCEPT !.tok = token', !.items = Empty,
                                               !.next = Page("shop")]
  IN /\ route' = target
     /\ back' = IF away THEN r ELSE IF fresh THEN back ELSE Page("shop")
     /\ shown' = IF stays THEN shown ELSE NotShown
     /\ placing' = (stays /\ placing)
     /\ IF target.name \in {"orders", "order"} /\ (~stays \/ target # route)
        THEN Place(kept, fetch)
        ELSE calls' = kept /\ UNCHANGED sent

\* A link: the navbar, the cart's checkout button, an order in the list.
Visit(r) ==
  /\ \/ r.name \in {"shop", "auth"} /\ r # route
     \/ r.name = "checkout" /\ route.name = "shop" /\ cart # Empty
     \/ r.name = "orders" /\ user # Nobody /\ r # route
     \/ r.name = "order" /\ route.name = "orders" /\ \E o \in shown.rows : o.id = r.id
  /\ UNCHANGED <<sessionVars, orders, seq, mode, cart>>
  /\ Show(r, user, calls, FALSE)

\* Mutant: the switch changes where calls go and leaves the page as it is.
SwitchModeInPlace ==
  /\ mode' \in Mode \ {mode}
  /\ UNCHANGED <<sessionVars, orders, seq, route, back, cart, placing, shown, calls, sent>>

\* The navbar's switch: App mounts the page again.
SwitchMode ==
  /\ mode' \in Mode \ {mode}
  /\ UNCHANGED <<sessionVars, orders, seq, cart>>
  /\ Show(route, user, calls, TRUE)

\* Mutant: the quantity is not capped by the stock.
AddToCartUncapped(p) ==
  /\ route.name = "shop"
  /\ cart' = [cart EXCEPT ![p] = @ + 1]
  /\ UNCHANGED <<sessionVars, orders, seq, mode, route, back, placing, shown, calls, sent>>

\* addToCart from a card or a product page, or the cart's plus button.
AddToCart(p) ==
  /\ route.name = "shop"
  /\ cart' = [cart EXCEPT ![p] = IF @ < Stock THEN @ + 1 ELSE Stock]
  /\ UNCHANGED <<sessionVars, orders, seq, mode, route, back, placing, shown, calls, sent>>

\* The minus button of the cart, or its bin.
TakeFromCart(p) ==
  /\ route.name = "shop" /\ cart[p] > 0
  /\ cart' \in {[cart EXCEPT ![p] = @ - 1], [cart EXCEPT ![p] = 0]}
  /\ UNCHANGED <<sessionVars, orders, seq, mode, route, back, placing, shown, calls, sent>>

\* The form of the sign-in page, disabled while its own call is under way.
Submit(kind, p) ==
  /\ route.name = "auth"
  /\ \A s \in Slot : ~(calls[s].live /\ calls[s].kind \in {"login", "register"})
  /\ Place(calls, [Call(kind, p, 0, mode) EXCEPT !.tok = NoToken, !.items = Empty])
  /\ UNCHANGED <<sessionVars, orders, seq, mode, route, back, cart, placing, shown>>

\* Checkout's Place Order.
HandlePlace ==
  /\ route.name = "checkout" /\ ~placing /\ cart # Empty
  /\ placing' = TRUE
  /\ Place(calls, [Call("create", Nobody, 0, mode) EXCEPT !.next = Page("shop")])
  /\ UNCHANGED <<sessionVars, orders, seq, mode, route, back, cart, shown>>

Done(s) == [calls EXCEPT ![s] = Idle]

\* Whoever made the call, a 401 ends the session and shows the sign-in page where
\* an account is needed.
Expires(s) ==
  /\ calls[s].answer = "expired"
  /\ SessionExpired
  /\ UNCHANGED <<clock, orders, seq, mode, cart>>
  /\ IF route.name \in Protected THEN Show(route, Nobody, Done(s), FALSE)
     ELSE calls' = Done(s) /\ UNCHANGED <<route, back, shown, placing, sent>>

\* The sign-in answers, on its page or after it was left.
SignInEnds(s) ==
  /\ calls[s].kind \in {"login", "register"}
  /\ \/ /\ calls[s].kind = "login" /\ calls[s].answer = "ok"
        /\ SignedIn(calls[s].who, calls[s].tok)
        /\ UNCHANGED <<clock, orders, seq, mode, cart>>
        /\ Show(calls[s].next, calls[s].who, Done(s), FALSE)
     \/ /\ calls[s].kind = "register"
        /\ SignedIn(calls[s].who, MakeToken(calls[s].who))
        /\ UNCHANGED <<clock, orders, seq, mode, cart>>
        /\ Show(calls[s].next, calls[s].who, Done(s), FALSE)
     \/ /\ calls[s].kind = "login" /\ MayFail(s)
        /\ calls' = Done(s)
        /\ UNCHANGED <<sessionVars, orders, seq, mode, route, back, cart, placing, shown, sent>>

\* The order is placed: the cart is emptied, all of it, and the order shown; a
\* checkout still on the screen may send the person to the empty cart instead.
PlaceEnds(s) ==
  /\ calls[s].kind = "create"
  /\ \/ /\ calls[s].answer = "ok"
        /\ cart' = Empty
        /\ UNCHANGED <<sessionVars, orders, seq, mode>>
        /\ \E o \in calls[s].rows : \/ Show([name |-> "order", id |-> o.id], user, Done(s), FALSE)
                                    \/ calls[s].live /\ Show(Page("shop"), user, Done(s), FALSE)
     \/ /\ MayFail(s)
        /\ placing' = (placing /\ ~calls[s].live)
        /\ calls' = Done(s)
        /\ UNCHANGED <<sessionVars, orders, seq, mode, route, back, cart, shown, sent>>

\* Orders and OrderDetail: the answer is shown while the page is there; an error
\* stays until it is left.
FetchEnds(s) ==
  /\ calls[s].kind \in {"list", "order"}
  /\ MayFail(s)
  /\ calls' = Done(s)
  /\ \E how \in {"ok", "failed"} :
       /\ how = "ok" => calls[s].answer = "ok"
       /\ shown' = IF ~calls[s].live \/ shown = Failed THEN shown
                   ELSE IF how = "ok" THEN [via |-> calls[s].via, rows |-> calls[s].rows]
                   ELSE Failed
  /\ UNCHANGED <<sessionVars, orders, seq, mode, route, back, cart, placing, sent>>

SignOut ==
  /\ user # Nobody
  /\ SignedOut
  /\ UNCHANGED <<clock, orders, seq, mode, cart>>
  /\ Show(Page("shop"), Nobody, calls, FALSE)

\* The tab is loaded again: what was in flight, served or not, answers nobody.
Reload ==
  /\ Reloaded
  /\ UNCHANGED <<clock, orders, seq, mode, cart>>
  /\ Show(route, user', [s \in Slot |-> Idle], TRUE)

Hour == HourPasses /\ UNCHANGED orderVars

OrdersNext ==
  \/ Restart \/ Hour \/ SwitchMode \/ HandlePlace \/ SignOut \/ Reload
  \/ \E s \in Slot : \/ ServeLogin(s) \/ ServeCreate(s) \/ ServeList(s) \/ ServeOrder(s)
                     \/ Expires(s) \/ SignInEnds(s) \/ PlaceEnds(s)
                     \/ FetchEnds(s)
  \/ \E n \in PageName, id \in 0..MaxSeq :
       (id # 0) = (n = "order") /\ Visit([name |-> n, id |-> id])
  \/ \E p \in Product : AddToCart(p) \/ TakeFromCart(p)
  \/ \E k \in {"login", "register"}, p \in Person : Submit(k, p)

OrdersSpec == SessionInit /\ OrdersInit /\ [][OrdersNext]_<<sessionVars, orderVars>>

-----------------------------------------------------------------------------
(* Properties. *)

\* The orders table: ids and numbers name one order each, no id is beyond the
\* sequence, and every seeded order is still what it was seeded as, restarts and
\* placed orders notwithstanding.
TableSound ==
  /\ \A a, b \in orders : a.id = b.id \/ a.number = b.number => a = b
  /\ \A o \in orders : o.id <= seq
  /\ Seeded \subseteq orders

\* What an order page shows was fetched through the mode the switch is at, and
\* so will be what it is waiting for (App.jsx: the page is mounted again so that
\* it does not show what it already had).
ShownViaMode ==
  /\ shown.rows # {} => shown.via = mode
  /\ \A s \in Slot : calls[s].live /\ calls[s].kind \in {"list", "order"} => calls[s].via = mode

-----------------------------------------------------------------------------
(* Why they hold. *)

Location == [name : PageName, id : 0..MaxSeq]
KnownCall ==
  [kind : {"idle", "login", "register", "create", "list", "order"},
   who : Person \cup {Nobody}, tok : Token, via : Mode \cup {"none"}, id : 0..MaxSeq,
   items : [Product -> 0..Stock], live : BOOLEAN, next : Location,
   answer : {"none", "ok", "expired", "refused"}, rows : SUBSET Order]

\* What call c carries: someone to sign in, and once served a token of theirs; rows
\* of table t; and, if an order page waits for it, an answer through mode m.
CallSound(c, t, m) ==
  /\ c \in KnownCall
  /\ c.kind \in {"login", "register"} => c.who \in Person
  /\ c.kind = "login" /\ c.answer = "ok" => c.tok.who = c.who
  /\ c.rows \subseteq t
  /\ c.live /\ c.kind \in {"list", "order"} => c.via = m

\* A page shows nothing, or rows of table t that it was sent through mode m.
ShownSound(v, t, m) ==
  /\ v \in [via : Mode \cup {"none", "error"}, rows : SUBSET Order]
  /\ v.rows \subseteq t
  /\ v.rows # {} => v.via = m

\* Inductive: a call carries what its answer will need, whoever is signed in and
\* whatever page is shown when it comes.
OrdersInv ==
  /\ SessionTypeOK /\ OrdersTypeOK
  /\ SessionAgrees
  /\ TableSound
  /\ ShownSound(shown, orders, mode)
  /\ calls = [s \in Slot |-> calls[s]]
  /\ \A s \in Slot : CallSound(calls[s], orders, mode)
=============================================================================
