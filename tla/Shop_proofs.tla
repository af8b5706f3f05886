----------------------------- MODULE Shop_proofs -----------------------------
(***************************************************************************)
(* The session, the order pages, the orders table and the browsing pages   *)
(* of the demo shop, for any accounts, products, seeded orders and number  *)
(* of calls in flight or timers waiting; then all of it together, as the   *)
(* run explores it.                                                        *)
(***************************************************************************)
EXTENDS MCShop, FiniteSetTheorems, TLAPS

-----------------------------------------------------------------------------
(* Calls, pages and the seeds. *)

LEMMA EmptyIsCart == Empty \in [Product -> 0..Stock]
BY OrdersConstants DEF Empty

LEMMA NoTokenIsToken == NoToken \in Token
BY SessionConstants DEF NoToken, Token

LEMMA PageIsLocation == ASSUME NEW n \in PageName PROVE Page(n) \in Location
BY OrdersConstants DEF Page, Location

LEMMA IdleSound == ASSUME NEW t, NEW m PROVE CallSound(Idle, t, m)
<1>1. Page("shop") \in Location
  BY PageIsLocation DEF PageName
<1>2. Idle \in KnownCall
  BY <1>1, EmptyIsCart, NoTokenIsToken, OrdersConstants DEF KnownCall, Idle
<1> QED BY <1>2 DEF CallSound, Idle

\* The seeded orders are rows of the table, numbered from 1.
LEMMA SeededIsTable ==
  /\ Seeds = 1..Len(SeedOwner)
  /\ Cardinality(Seeds) = Len(SeedOwner)
  /\ Seeded \subseteq Order
  /\ \A a, b \in Seeded : a.id = b.id \/ a.number = b.number => a = b
  /\ \A o \in Seeded : o.id <= Cardinality(Seeds)
<1>1. Seeds = 1..Len(SeedOwner) /\ Len(SeedOwner) \in Nat
  BY OrdersConstants DEF Seeds
<1>2. Cardinality(Seeds) = Len(SeedOwner)
  <2>1. Cardinality(1..Len(SeedOwner))
          = IF 1 > Len(SeedOwner) THEN 0 ELSE Len(SeedOwner) - 1 + 1
    BY <1>1, FS_Interval
  <2> QED BY <1>1, <2>1
<1>3. Seeded \subseteq Order
  <2> SUFFICES ASSUME NEW n \in Seeds
               PROVE  [id |-> n, number |-> FirstNumber + n - 1, owner |-> SeedOwner[n],
                       items |-> Empty] \in Order
    BY DEF Seeded
  <2>1. n \in 1..MaxSeq /\ FirstNumber + n - 1 \in Nat
    BY <1>1, OrdersConstants
  <2>2. SeedOwner[n] \in Person
    BY <1>1, OrdersConstants
  <2> QED BY <2>1, <2>2, EmptyIsCart DEF Order
<1>4. ASSUME NEW a \in Seeded, NEW b \in Seeded, a.id = b.id \/ a.number = b.number
      PROVE  a = b
  <2>1. PICK m \in Seeds : a = [id |-> m, number |-> FirstNumber + m - 1,
                                owner |-> SeedOwner[m], items |-> Empty]
    BY DEF Seeded
  <2>2. PICK n \in Seeds : b = [id |-> n, number |-> FirstNumber + n - 1,
                                owner |-> SeedOwner[n], items |-> Empty]
    BY DEF Seeded
  <2>3. m = n
    BY <1>1, <1>4, <2>1, <2>2, OrdersConstants
  <2> QED BY <2>1, <2>2, <2>3
<1>5. \A o \in Seeded : o.id <= Cardinality(Seeds)
  BY <1>1, <1>2 DEF Seeded
<1> QED BY <1>1, <1>2, <1>3, <1>4, <1>5

\* A row that is added to the table leaves what a call carries sound.
LEMMA CallGrows ==
  ASSUME NEW c, NEW t, NEW u, NEW m, CallSound(c, t, m), t \subseteq u
  PROVE  CallSound(c, u, m)
BY DEF CallSound

\* A call that nobody waits for is sound in any mode.
LEMMA CallLeft ==
  ASSUME NEW c, NEW t, NEW m, NEW n, CallSound(c, t, m)
  PROVE  CallSound([c EXCEPT !.live = FALSE], t, n)
<1> DEFINE d == [c EXCEPT !.live = FALSE]
<1>1. c \in KnownCall
  BY DEF CallSound
<1>2. d \in KnownCall /\ d.kind = c.kind /\ d.who = c.who /\ d.tok = c.tok
      /\ d.rows = c.rows /\ d.answer = c.answer /\ ~d.live
  BY <1>1 DEF KnownCall
<1> QED BY <1>2 DEF CallSound

\* A call is put in a free slot of a table of sound calls.
LEMMA PlaceSound ==
  ASSUME NEW cs, NEW c, NEW t, NEW m, sent \in 0..MaxCalls, Place(cs, c),
         cs = [s \in Slot |-> cs[s]], \A s \in Slot : CallSound(cs[s], t, m),
         CallSound(c, t, m)
  PROVE  /\ sent' \in 0..MaxCalls
         /\ calls' = [s \in Slot |-> calls'[s]]
         /\ \A s \in Slot : CallSound(calls'[s], t, m)
<1>1. sent' \in 0..MaxCalls
  BY OrdersConstants DEF Place
<1>2. PICK s \in Slot : calls' = [cs EXCEPT ![s] = c]
  BY DEF Place
<1>3. DOMAIN cs = Slot
  OBVIOUS
<1>4. calls' = [x \in Slot |-> IF x = s THEN c ELSE cs[x]]
  BY <1>2, <1>3
<1> QED BY <1>1, <1>4

\* The page that a step shows: what is fetched for it goes through the mode it
\* shows, and what an earlier page waited for is left.
LEMMA ShowSound ==
  ASSUME NEW r \in Location, NEW p, NEW cs, NEW fresh \in BOOLEAN,
         SessionTypeOK, OrdersTypeOK, ShownSound(shown, orders, mode),
         cs = [s \in Slot |-> cs[s]], \A s \in Slot : CallSound(cs[s], orders, mode),
         mode' \in Mode, token' \in Token, mode' = mode \/ fresh,
         Show(r, p, cs, fresh)
  PROVE  /\ route' \in Location /\ back' \in Location
         /\ placing' \in BOOLEAN /\ sent' \in 0..MaxCalls
         /\ ShownSound(shown', orders, mode')
         /\ calls' = [s \in Slot |-> calls'[s]]
         /\ \A s \in Slot : CallSound(calls'[s], orders, mode')
<1> DEFINE away   == r.name \in Protected /\ p = Nobody
           target == IF away THEN Page("auth") ELSE r
           stays  == ~fresh /\ target.name = route.name
           kept   == IF stays THEN cs ELSE [s \in Slot |-> [cs[s] EXCEPT !.live = FALSE]]
           fetch  == [Call(IF target.name = "orders" THEN "list" ELSE "order", Nobody,
                           target.id, mode') EXCEPT !.tok = token', !.items = Empty,
                                                    !.next = Page("shop")]
<1>1. /\ route' = target
      /\ back' = IF away THEN r ELSE IF fresh THEN back ELSE Page("shop")
      /\ shown' = IF stays THEN shown ELSE NotShown
      /\ placing' = (stays /\ placing)
      /\ IF target.name \in {"orders", "order"} /\ (~stays \/ target # route)
         THEN Place(kept, fetch)
         ELSE calls' = kept /\ UNCHANGED sent
  BY DEF Show
<1>2. Page("auth") \in Location /\ Page("shop") \in Location
  BY PageIsLocation DEF PageName
<1>3. target \in Location
  BY <1>2
<1>4. route' \in Location /\ back' \in Location
  <2>1. back \in Location
    BY DEF OrdersTypeOK, Location
  <2> HIDE DEF target, away
  <2> QED BY <1>1, <1>2, <1>3, <2>1
<1>5. placing' \in BOOLEAN
  <2> HIDE DEF stays
  <2> QED BY <1>1
<1>6. ShownSound(shown', orders, mode')
  <2>1. ShownSound(NotShown, orders, mode')
    BY DEF ShownSound, NotShown
  <2>2. stays => mode' = mode
    OBVIOUS
  <2> HIDE DEF stays
  <2> QED BY <1>1, <2>1, <2>2
<1>7. kept = [s \in Slot |-> kept[s]] /\ \A s \in Slot : CallSound(kept[s], orders, mode')
  <2>1. CASE stays
    <3>1. kept = cs /\ mode' = mode
      BY <2>1
    <3> HIDE DEF kept
    <3> QED BY <3>1
  <2>2. CASE ~stays
    <3>1. kept = [s \in Slot |-> [cs[s] EXCEPT !.live = FALSE]]
      BY <2>2
    <3> HIDE DEF kept, stays
    <3>2. ASSUME NEW s \in Slot PROVE CallSound(kept[s], orders, mode')
      BY <3>1, CallLeft
    <3> QED BY <3>1, <3>2
  <2> QED BY <2>1, <2>2
<1>8. CallSound(fetch, orders, mode')
  <2> DEFINE kind == IF target.name = "orders" THEN "list" ELSE "order"
  <2>2. kind \in {"list", "order"} /\ target.id \in 0..MaxSeq
    BY <1>3 DEF Location
  <2> HIDE DEF kind, target
  <2>3. Call(kind, Nobody, target.id, mode') \in KnownCall
    BY <2>2 DEF Call, KnownCall, SessionTypeOK, OrdersTypeOK, Location
  <2>4. fetch = [Call(kind, Nobody, target.id, mode') EXCEPT
                   !.tok = token', !.items = Empty, !.next = Page("shop")]
    BY DEF kind
  <2> HIDE DEF fetch
  <2>5. fetch \in KnownCall /\ fetch.kind = kind /\ fetch.rows = {} /\ fetch.via = mode'
    <3> DEFINE c == Call(kind, Nobody, target.id, mode')
    <3>1. c.kind = kind /\ c.rows = {} /\ c.via = mode'
      BY DEF Call
    <3> HIDE DEF c
    <3> QED BY <2>3, <2>4, <3>1, <1>2, EmptyIsCart DEF KnownCall, c
  <2> QED BY <2>2, <2>5 DEF CallSound
<1>9. sent \in 0..MaxCalls
  BY DEF OrdersTypeOK
<1> HIDE DEF away, target, stays, kept, fetch
<1>10. CASE Place(kept, fetch)
  BY <1>4, <1>5, <1>6, <1>7, <1>8, <1>9, <1>10, PlaceSound
<1>11. CASE calls' = kept /\ UNCHANGED sent
  BY <1>4, <1>5, <1>6, <1>7, <1>9, <1>11
<1> QED BY <1>1, <1>10, <1>11

-----------------------------------------------------------------------------
(* One step. *)

\* What stays when the rows and the sequence do.
LEMMA TableKept ==
  ASSUME TableSound, UNCHANGED <<orders, seq>>
  PROVE  TableSound'
BY DEF TableSound, Seeded, Seeds, Empty

LEMMA SessionKept ==
  ASSUME SessionTypeOK, SessionAgrees, UNCHANGED sessionVars
  PROVE  SessionTypeOK' /\ SessionAgrees'
BY DEF SessionTypeOK, SessionAgrees, sessionVars, Token

\* A call that ended leaves its slot.
LEMMA DoneSound ==
  ASSUME OrdersInv, NEW s \in Slot
  PROVE  /\ Done(s) = [x \in Slot |-> Done(s)[x]]
         /\ \A x \in Slot : CallSound(Done(s)[x], orders, mode)
<1>1. calls = [x \in Slot |-> calls[x]] /\ \A x \in Slot : CallSound(calls[x], orders, mode)
  BY DEF OrdersInv
<1>2. CallSound(Idle, orders, mode)
  BY IdleSound
<1>3. Done(s) = [x \in Slot |-> IF x = s THEN Idle ELSE calls[x]]
  BY <1>1 DEF Done
<1> QED BY <1>1, <1>2, <1>3

\* A step that shows a page.
LEMMA ShowKeeps ==
  ASSUME OrdersInv, NEW r \in Location, NEW p, NEW cs, NEW fresh \in BOOLEAN,
         cs = [s \in Slot |-> cs[s]], \A s \in Slot : CallSound(cs[s], orders, mode),
         mode' \in Mode, mode' = mode \/ fresh,
         SessionTypeOK', SessionAgrees', cart' \in [Product -> 0..Stock],
         UNCHANGED <<orders, seq>>, Show(r, p, cs, fresh)
  PROVE  OrdersInv'
<1>1. SessionTypeOK /\ OrdersTypeOK /\ TableSound /\ ShownSound(shown, orders, mode)
  BY DEF OrdersInv
<1>2. token' \in Token
  BY DEF SessionTypeOK, Token
<1>3. /\ route' \in Location /\ back' \in Location
      /\ placing' \in BOOLEAN /\ sent' \in 0..MaxCalls
      /\ ShownSound(shown', orders, mode')
      /\ calls' = [s \in Slot |-> calls'[s]]
      /\ \A s \in Slot : CallSound(calls'[s], orders, mode')
  BY <1>1, <1>2, ShowSound
<1>4. OrdersTypeOK'
  <2>1. orders' \subseteq Order /\ seq' \in 0..MaxSeq
    BY <1>1 DEF OrdersTypeOK
  <2>2. shown'.via \in Mode \cup {"none", "error"} /\ shown'.rows \subseteq orders'
    BY <1>3 DEF ShownSound
  <2> QED BY <1>3, <2>1, <2>2 DEF OrdersTypeOK, Location, Order, Mode, PageName
<1>5. TableSound'
  BY <1>1, TableKept
<1>6. ShownSound(shown, orders, mode)' /\ \A s \in Slot : CallSound(calls[s], orders, mode)'
  BY <1>3 DEF ShownSound, CallSound, KnownCall, Location, Mode, PageName, Order, Token
<1> QED BY <1>3, <1>4, <1>5, <1>6 DEF OrdersInv

\* A step that changes nothing but calls, and what a page shows of them.
LEMMA CallsKeep ==
  ASSUME OrdersInv, UNCHANGED <<sessionVars, orders, seq, mode, route, back, cart>>,
         placing' \in BOOLEAN, sent' \in 0..MaxCalls, ShownSound(shown', orders, mode),
         calls' = [s \in Slot |-> calls'[s]],
         \A s \in Slot : CallSound(calls'[s], orders, mode)
  PROVE  OrdersInv'
<1>1. SessionTypeOK /\ OrdersTypeOK /\ SessionAgrees /\ TableSound
  BY DEF OrdersInv
<1>2. SessionTypeOK' /\ SessionAgrees'
  BY <1>1, SessionKept
<1>3. OrdersTypeOK'
  <2>1. shown'.via \in Mode \cup {"none", "error"} /\ shown'.rows \subseteq orders'
    BY DEF ShownSound
  <2> QED BY <1>1, <2>1 DEF OrdersTypeOK, Order, Mode, PageName
<1>4. TableSound'
  BY <1>1, TableKept
<1>5. ShownSound(shown, orders, mode)' /\ \A s \in Slot : CallSound(calls[s], orders, mode)'
  BY DEF ShownSound, CallSound, KnownCall, Location, Mode, PageName, Order, Token
<1> QED BY <1>2, <1>3, <1>4, <1>5 DEF OrdersInv

LEMMA InvParts ==
  ASSUME OrdersInv
  PROVE  /\ placing \in BOOLEAN /\ sent \in 0..MaxCalls /\ cart \in [Product -> 0..Stock]
         /\ route \in Location /\ back \in Location
         /\ mode \in Mode /\ token \in Token /\ clock \in 0..MaxClock
         /\ stored \in Person \cup {Nobody}
         /\ ShownSound(shown, orders, mode)
         /\ calls = [s \in Slot |-> calls[s]]
         /\ \A s \in Slot : CallSound(calls[s], orders, mode)
BY DEF OrdersInv, OrdersTypeOK, SessionTypeOK, Location

\* A call is answered.
LEMMA AnswerKeeps ==
  ASSUME OrdersInv, NEW s \in Slot, NEW c, CallSound(c, orders, mode),
         calls' = [calls EXCEPT ![s] = c],
         UNCHANGED <<sessionVars, orders, seq, mode, route, back, cart, placing, shown, sent>>
  PROVE  OrdersInv'
<1>1. calls' = [x \in Slot |-> IF x = s THEN c ELSE calls[x]]
  BY InvParts
<1>2. \A x \in Slot : CallSound(calls'[x], orders, mode)
  BY <1>1, InvParts
<1>3. calls' = [x \in Slot |-> calls'[x]]
  BY <1>1
<1>4. placing' \in BOOLEAN /\ sent' \in 0..MaxCalls /\ ShownSound(shown', orders, mode)
  BY InvParts
<1> QED BY <1>2, <1>3, <1>4, CallsKeep

LEMMA AnswerSound ==
  ASSUME NEW c, NEW t, NEW m, CallSound(c, t, m), t \subseteq Order,
         NEW how \in {"ok", "expired", "refused"}, NEW rows \in SUBSET t, c.kind # "login"
  PROVE  CallSound([c EXCEPT !.answer = how, !.rows = rows], t, m)
<1> DEFINE d == [c EXCEPT !.answer = how, !.rows = rows]
<1>1. c \in KnownCall
  BY DEF CallSound
<1>2. d \in KnownCall /\ d.kind = c.kind /\ d.who = c.who /\ d.rows = rows
      /\ d.live = c.live /\ d.via = c.via
  BY <1>1 DEF KnownCall
<1> HIDE DEF d
<1>3. CallSound(d, t, m)
  BY <1>2 DEF CallSound
<1> QED BY <1>3 DEF d

LEMMA AnsweredKeeps ==
  ASSUME OrdersInv, NEW s \in Slot, NEW how \in {"ok", "expired", "refused"},
         NEW rows \in SUBSET orders, calls[s].kind # "login", Answered(s, how, rows),
         UNCHANGED <<sessionVars, orders, seq, mode, route, back, cart, placing, shown, sent>>
  PROVE  OrdersInv'
<1> DEFINE c == [calls[s] EXCEPT !.answer = how, !.rows = rows]
<1>1. orders \subseteq Order
  BY DEF OrdersInv, OrdersTypeOK
<1>2. CallSound(c, orders, mode)
  BY <1>1, InvParts, AnswerSound
<1>3. calls' = [calls EXCEPT ![s] = c]
  BY DEF Answered
<1> HIDE DEF c
<1> QED BY <1>2, <1>3, AnswerKeeps

LEMMA RestartKeeps == ASSUME OrdersInv, Restart PROVE OrdersInv'
<1>1. SessionTypeOK' /\ SessionAgrees'
  BY SessionKept DEF OrdersInv, Restart
<1>2. seq' \in 0..MaxSeq /\ seq' >= seq
  BY SeededIsTable, OrdersConstants DEF Restart, OrdersInv, OrdersTypeOK
<1>3. OrdersTypeOK'
  BY <1>2 DEF Restart, OrdersInv, OrdersTypeOK, Order, Mode, PageName
<1>4. TableSound'
  <2>1. orders' = orders /\ seq \in Nat /\ orders \subseteq Order
    BY DEF Restart, OrdersInv, OrdersTypeOK
  <2>2. \A o \in orders : o.id <= seq'
    BY <1>2, <2>1, OrdersConstants DEF OrdersInv, TableSound, Order
  <2> QED BY <2>1, <2>2 DEF OrdersInv, TableSound, Seeded, Seeds, Empty
<1>5. /\ ShownSound(shown, orders, mode)'
      /\ calls' = [s \in Slot |-> calls'[s]]
      /\ \A s \in Slot : CallSound(calls[s], orders, mode)'
  BY DEF Restart, OrdersInv, ShownSound, CallSound, KnownCall, Location, Mode, PageName,
         Order, Token
<1> QED BY <1>1, <1>3, <1>4, <1>5 DEF OrdersInv

LEMMA HourKeeps == ASSUME OrdersInv, Hour PROVE OrdersInv'
<1>1. SessionTypeOK' /\ SessionAgrees'
  BY SessionConstants DEF OrdersInv, Hour, HourPasses, SessionTypeOK, SessionAgrees, Token
<1>2. OrdersTypeOK'
  BY DEF Hour, orderVars, OrdersInv, OrdersTypeOK, Order, Mode, PageName
<1>3. TableSound'
  BY TableKept DEF Hour, orderVars, OrdersInv
<1>4. /\ ShownSound(shown, orders, mode)'
      /\ calls' = [s \in Slot |-> calls'[s]]
      /\ \A s \in Slot : CallSound(calls[s], orders, mode)'
  BY DEF Hour, orderVars, OrdersInv, ShownSound, CallSound, KnownCall, Location, Mode,
         PageName, Order, Token
<1> QED BY <1>1, <1>2, <1>3, <1>4 DEF OrdersInv

LEMMA ServeLoginKeeps ==
  ASSUME OrdersInv, NEW s \in Slot, ServeLogin(s)
  PROVE  OrdersInv'
<1> DEFINE t == IssueToken(calls[s].who)
           c == [calls[s] EXCEPT !.answer = "ok", !.tok = t]
<1>1. CallSound(calls[s], orders, mode) /\ calls[s].kind = "login"
  BY InvParts DEF ServeLogin, Waiting
<1>2. t \in Token /\ t.who = calls[s].who
  BY <1>1, InvParts DEF IssueToken, Token, CallSound
<1>3. CallSound(c, orders, mode)
  <2> HIDE DEF t
  <2>1. calls[s] \in KnownCall
    BY <1>1 DEF CallSound
  <2>2. c \in KnownCall /\ c.kind = calls[s].kind /\ c.who = calls[s].who /\ c.tok = t
        /\ c.rows = calls[s].rows /\ c.live = calls[s].live /\ c.via = calls[s].via
    BY <1>2, <2>1 DEF KnownCall
  <2> HIDE DEF c
  <2> QED BY <1>1, <1>2, <2>2 DEF CallSound
<1>4. calls' = [calls EXCEPT ![s] = c]
  BY DEF ServeLogin
<1> HIDE DEF c, t
<1> QED BY <1>3, <1>4, AnswerKeeps DEF ServeLogin

\* The new order's id is beyond every id of the table, and its number is tested.
LEMMA ServeCreateKeeps ==
  ASSUME OrdersInv, NEW s \in Slot, ServeCreate(s)
  PROVE  OrdersInv'
<1> DEFINE id == seq + 1
           o  == [id |-> id, number |-> id, owner |-> CallerFrom(calls[s].tok),
                  items |-> calls[s].items]
<1>1. CallSound(calls[s], orders, mode) /\ calls[s].kind # "login" /\ calls[s].kind = "create"
  BY InvParts DEF ServeCreate, Waiting
<1>2. orders \subseteq Order /\ seq \in 0..MaxSeq
  BY DEF OrdersInv, OrdersTypeOK
<1>3. UNCHANGED <<sessionVars, mode, route, back, cart, placing, shown, sent>>
  BY DEF ServeCreate
<1>4. \/ Answered(s, "expired", {}) /\ UNCHANGED <<orders, seq>>
      \/ Answered(s, "refused", {}) /\ UNCHANGED <<orders, seq>>
      \/ /\ ~Refused(s) /\ id <= MaxSeq /\ seq' = id
         /\ \/ Answered(s, "refused", {}) /\ UNCHANGED orders
            \/ /\ \A x \in orders : x.number # o.number
               /\ Answered(s, "ok", {o}) /\ orders' = orders \cup {o}
  BY DEF ServeCreate
<1>5. CASE Answered(s, "expired", {}) /\ UNCHANGED <<orders, seq>>
  BY <1>1, <1>3, <1>5, AnsweredKeeps
<1>6. CASE Answered(s, "refused", {}) /\ UNCHANGED <<orders, seq>>
  BY <1>1, <1>3, <1>6, AnsweredKeeps
<1>7. ASSUME ~Refused(s), id <= MaxSeq, seq' = id,
             NEW how \in {"ok", "refused"}, NEW rows \in SUBSET {o}, Answered(s, how, rows),
             orders' = orders \cup rows, \A x \in orders : rows # {} => x.number # o.number
      PROVE  OrdersInv'
  <2>1. o \in Order
    <3>1. CallerFrom(calls[s].tok) \in Person
      BY <1>1, <1>7 DEF Refused, CallerFrom, CallSound, KnownCall, Token
    <3>2. calls[s].items \in [Product -> 0..Stock]
      BY <1>1 DEF CallSound, KnownCall
    <3> QED BY <1>2, <1>7, <3>1, <3>2, OrdersConstants DEF Order
  <2>2. o.id = id /\ o.number = id
    OBVIOUS
  <2> HIDE DEF o
  <2>3. orders' \subseteq Order /\ orders \subseteq orders'
    BY <1>2, <1>7, <2>1
  <2>4. seq' \in 0..MaxSeq /\ seq' > seq
    BY <1>2, <1>7, OrdersConstants
  <2>5. \A x \in orders : x.id \in Nat /\ x.id <= seq
    BY <1>2, OrdersConstants DEF OrdersInv, TableSound, Order
  <2>6. TableSound'
    <3>1. \A x \in orders' : x.id <= seq'
      BY <1>2, <1>7, <2>2, <2>4, <2>5
    <3>2. ASSUME NEW a \in orders', NEW b \in orders', a.id = b.id \/ a.number = b.number
          PROVE  a = b
      <4>1. a \in orders \/ (a = o /\ rows # {})
        BY <1>7
      <4>2. b \in orders \/ (b = o /\ rows # {})
        BY <1>7
      <4>3. CASE a \in orders /\ b \in orders
        BY <3>2, <4>3 DEF OrdersInv, TableSound
      <4>4. \A x \in orders : x.id # o.id
        BY <1>2, <2>2, <2>5
      <4> QED BY <1>7, <3>2, <4>1, <4>2, <4>3, <4>4
    <3>3. Seeded \subseteq orders'
      BY <2>3 DEF OrdersInv, TableSound
    <3> QED BY <3>1, <3>2, <3>3 DEF TableSound, Seeded, Seeds, Empty
  <2>7. OrdersTypeOK'
    <3>1. shown' = shown /\ shown.rows \subseteq orders'
      BY <1>3, <2>3 DEF OrdersInv, OrdersTypeOK
    <3> QED BY <1>3, <2>3, <2>4, <3>1 DEF OrdersInv, OrdersTypeOK, Order, Mode, PageName
  <2>8. SessionTypeOK' /\ SessionAgrees'
    BY <1>3, SessionKept DEF OrdersInv
  <2>9. ShownSound(shown, orders, mode)'
    BY <1>3, <2>3 DEF OrdersInv, ShownSound, Mode, Order
  <2>10. calls' = [x \in Slot |-> calls'[x]] /\ \A x \in Slot : CallSound(calls'[x], orders', mode')
    <3> DEFINE c == [calls[s] EXCEPT !.answer = how, !.rows = rows]
    <3>1. CallSound(c, orders', mode)
      <4>1. CallSound(calls[s], orders', mode)
        BY <1>1, <2>3, CallGrows
      <4>2. rows \in SUBSET orders'
        BY <1>7
      <4> QED BY <1>1, <2>3, <4>1, <4>2, AnswerSound
    <3>2. calls' = [calls EXCEPT ![s] = c]
      BY <1>7 DEF Answered
    <3> HIDE DEF c
    <3>3. calls' = [x \in Slot |-> IF x = s THEN c ELSE calls[x]]
      BY <3>2, InvParts
    <3>4. \A x \in Slot : CallSound(calls[x], orders', mode)
      BY <2>3, InvParts, CallGrows
    <3>5. mode' = mode
      BY <1>3
    <3> QED BY <3>1, <3>3, <3>4, <3>5
  <2>11. \A x \in Slot : CallSound(calls[x], orders, mode)'
    BY <2>10 DEF CallSound, KnownCall, Location, Mode, PageName, Order, Token
  <2> QED BY <2>6, <2>7, <2>8, <2>9, <2>10, <2>11 DEF OrdersInv
<1>8. CASE ~Refused(s) /\ id <= MaxSeq /\ seq' = id /\ Answered(s, "refused", {}) /\ UNCHANGED orders
  <2>1. orders' = orders \cup {}
    BY <1>8
  <2> QED BY <1>7, <1>8, <2>1
<1>9. CASE /\ ~Refused(s) /\ id <= MaxSeq /\ seq' = id
           /\ \A x \in orders : x.number # o.number
           /\ Answered(s, "ok", {o}) /\ orders' = orders \cup {o}
  BY <1>7, <1>9
<1> QED BY <1>4, <1>5, <1>6, <1>8, <1>9

LEMMA ServeReadKeeps ==
  ASSUME OrdersInv, NEW s \in Slot, ServeList(s) \/ ServeOrder(s)
  PROVE  OrdersInv'
<1>1. CASE ServeList(s)
  <2>1. calls[s].kind # "login"
    BY <1>1 DEF ServeList, Waiting
  <2>2. PICK how \in {"ok", "expired", "refused"}, rows \in SUBSET orders : Answered(s, how, rows)
    BY <1>1 DEF ServeList
  <2> QED BY <1>1, <2>1, <2>2, AnsweredKeeps DEF ServeList
<1>2. CASE ServeOrder(s)
  <2>1. calls[s].kind # "login"
    BY <1>2 DEF ServeOrder, Waiting
  <2>2. PICK how \in {"ok", "expired", "refused"}, rows \in SUBSET orders : Answered(s, how, rows)
    BY <1>2 DEF ServeOrder
  <2> QED BY <1>2, <2>1, <2>2, AnsweredKeeps DEF ServeOrder
<1> QED BY <1>1, <1>2

LEMMA VisitKeeps ==
  ASSUME OrdersInv, NEW r \in Location, Visit(r)
  PROVE  OrdersInv'
<1>1. SessionTypeOK' /\ SessionAgrees'
  BY SessionKept DEF OrdersInv, Visit
<1>2. UNCHANGED <<orders, seq, mode, cart>> /\ Show(r, user, calls, FALSE)
  BY DEF Visit
<1> QED BY <1>1, <1>2, InvParts, ShowKeeps

LEMMA SwitchModeKeeps == ASSUME OrdersInv, SwitchMode PROVE OrdersInv'
<1>1. SessionTypeOK' /\ SessionAgrees'
  BY SessionKept DEF OrdersInv, SwitchMode
<1>2. mode' \in Mode /\ UNCHANGED <<orders, seq, cart>> /\ Show(route, user, calls, TRUE)
  BY DEF SwitchMode
<1> QED BY <1>1, <1>2, InvParts, ShowKeeps

LEMMA CartKeeps ==
  ASSUME OrdersInv, NEW p \in Product, AddToCart(p) \/ TakeFromCart(p)
  PROVE  OrdersInv'
<1>1. UNCHANGED <<sessionVars, orders, seq, mode, route, back, placing, shown, calls, sent>>
  BY DEF AddToCart, TakeFromCart
<1>2. cart' \in [Product -> 0..Stock]
  <2>1. cart \in [Product -> 0..Stock]
    BY InvParts
  <2>2. CASE AddToCart(p)
    BY <2>1, <2>2, OrdersConstants DEF AddToCart
  <2>3. CASE TakeFromCart(p)
    <3>1. cart[p] \in 0..Stock /\ cart[p] > 0 /\ cart[p] - 1 \in 0..Stock /\ 0 \in 0..Stock
      BY <2>1, <2>3, OrdersConstants DEF TakeFromCart
    <3> QED BY <2>1, <2>3, <3>1 DEF TakeFromCart
  <2> QED BY <2>2, <2>3
<1>3. SessionTypeOK' /\ SessionAgrees' /\ TableSound'
  BY <1>1, SessionKept, TableKept DEF OrdersInv
<1>4. OrdersTypeOK'
  BY <1>1, <1>2 DEF OrdersInv, OrdersTypeOK, Order, Mode, PageName
<1>5. /\ ShownSound(shown, orders, mode)'
      /\ calls' = [s \in Slot |-> calls'[s]]
      /\ \A s \in Slot : CallSound(calls[s], orders, mode)'
  BY <1>1 DEF OrdersInv, ShownSound, CallSound, KnownCall, Location, Mode, PageName,
              Order, Token
<1> QED BY <1>3, <1>4, <1>5 DEF OrdersInv

\* A call of the page goes out.
LEMMA PlacedKeeps ==
  ASSUME OrdersInv, NEW c, CallSound(c, orders, mode), Place(calls, c), placing' \in BOOLEAN,
         UNCHANGED <<sessionVars, orders, seq, mode, route, back, cart, shown>>
  PROVE  OrdersInv'
<1>1. /\ sent' \in 0..MaxCalls
      /\ calls' = [s \in Slot |-> calls'[s]]
      /\ \A s \in Slot : CallSound(calls'[s], orders, mode)
  BY InvParts, PlaceSound
<1>2. ShownSound(shown', orders, mode)
  BY InvParts
<1> QED BY <1>1, <1>2, CallsKeep

LEMMA SubmitKeeps ==
  ASSUME OrdersInv, NEW k \in {"login", "register"}, NEW p \in Person, Submit(k, p)
  PROVE  OrdersInv'
<1> DEFINE b == Call(k, p, 0, mode)
           c == [b EXCEPT !.tok = NoToken, !.items = Empty]
<1>1. b \in KnownCall
  BY InvParts, OrdersConstants DEF Call, KnownCall
<1>2. b.kind = k /\ b.who = p /\ b.answer = "none" /\ b.rows = {}
  BY DEF Call
<1>3. Place(calls, c) /\ UNCHANGED <<sessionVars, orders, seq, mode, route, back, cart, placing, shown>>
  BY DEF Submit
<1> HIDE DEF b
<1>4. c \in KnownCall /\ c.kind = k /\ c.who = p /\ c.answer = "none" /\ c.rows = {}
  BY <1>1, <1>2, EmptyIsCart, NoTokenIsToken DEF KnownCall
<1> HIDE DEF c
<1>5. CallSound(c, orders, mode)
  BY <1>4 DEF CallSound
<1>6. placing' \in BOOLEAN
  BY <1>3, InvParts
<1> QED BY <1>3, <1>5, <1>6, PlacedKeeps

LEMMA HandlePlaceKeeps == ASSUME OrdersInv, HandlePlace PROVE OrdersInv'
<1> DEFINE b == Call("create", Nobody, 0, mode)
           c == [b EXCEPT !.next = Page("shop")]
<1>1. b \in KnownCall
  BY InvParts, OrdersConstants DEF Call, KnownCall
<1>2. b.kind = "create" /\ b.rows = {}
  BY DEF Call
<1>3. Place(calls, c) /\ placing' = TRUE
      /\ UNCHANGED <<sessionVars, orders, seq, mode, route, back, cart, shown>>
  BY DEF HandlePlace
<1>4. Page("shop") \in Location
  BY PageIsLocation DEF PageName
<1> HIDE DEF b
<1>5. c \in KnownCall /\ c.kind = "create" /\ c.rows = {}
  BY <1>1, <1>2, <1>4 DEF KnownCall
<1> HIDE DEF c
<1>6. CallSound(c, orders, mode)
  BY <1>5 DEF CallSound
<1> QED BY <1>3, <1>6, PlacedKeeps

\* Nobody is signed in: the storage and the page agree on it.
LEMMA SignedOutSound ==
  ASSUME OrdersInv, token' = NoToken, stored' = Nobody, user' = Nobody, UNCHANGED clock
  PROVE  SessionTypeOK' /\ SessionAgrees'
<1>1. clock \in 0..MaxClock
  BY InvParts
<1> QED BY <1>1, NoTokenIsToken DEF SessionTypeOK, SessionAgrees, Token, NoToken

LEMMA SignedInSound ==
  ASSUME OrdersInv, NEW p \in Person, NEW t \in Token, t.who = p, SignedIn(p, t), UNCHANGED clock
  PROVE  SessionTypeOK' /\ SessionAgrees'
<1>1. clock \in 0..MaxClock
  BY InvParts
<1> QED BY <1>1 DEF SignedIn, SessionTypeOK, SessionAgrees, Token

\* A step that only ends a call.
LEMMA DoneKeeps ==
  ASSUME OrdersInv, NEW s \in Slot, calls' = Done(s), placing' \in BOOLEAN,
         ShownSound(shown', orders, mode),
         UNCHANGED <<sessionVars, orders, seq, mode, route, back, cart, sent>>
  PROVE  OrdersInv'
<1>1. sent' \in 0..MaxCalls
  BY InvParts
<1>2. calls' = [x \in Slot |-> calls'[x]] /\ \A x \in Slot : CallSound(calls'[x], orders, mode)
  BY DoneSound
<1> QED BY <1>1, <1>2, CallsKeep

LEMMA ExpiresKeeps ==
  ASSUME OrdersInv, NEW s \in Slot, Expires(s)
  PROVE  OrdersInv'
<1>1. SessionTypeOK' /\ SessionAgrees'
  BY SignedOutSound DEF Expires, SessionExpired
<1>2. UNCHANGED <<orders, seq, mode, cart>>
  BY DEF Expires
<1>3. CASE route.name \in Protected
  <2>1. Show(route, Nobody, Done(s), FALSE)
    BY <1>3 DEF Expires
  <2>2. mode' \in Mode /\ cart' \in [Product -> 0..Stock] /\ route \in Location
    BY <1>2, InvParts
  <2> QED BY <1>1, <1>2, <2>1, <2>2, DoneSound, ShowKeeps
<1>4. CASE route.name \notin Protected
  <2>1. calls' = Done(s) /\ UNCHANGED <<route, back, shown, placing, sent>>
    BY <1>4 DEF Expires
  <2>2. TableSound'
    BY <1>2, TableKept DEF OrdersInv
  <2>3. OrdersTypeOK'
    BY <1>2, <2>1 DEF OrdersInv, OrdersTypeOK, Order, Mode, PageName
  <2>4. ShownSound(shown, orders, mode)'
    BY <1>2, <2>1 DEF OrdersInv, ShownSound, Mode, Order
  <2>5. calls' = [x \in Slot |-> calls'[x]] /\ \A x \in Slot : CallSound(calls'[x], orders, mode)
    BY <2>1, DoneSound
  <2>6. \A x \in Slot : CallSound(calls[x], orders, mode)'
    BY <1>2, <2>5 DEF CallSound, KnownCall, Location, Mode, PageName, Order, Token
  <2> QED BY <1>1, <2>2, <2>3, <2>4, <2>5, <2>6 DEF OrdersInv
<1> QED BY <1>3, <1>4

LEMMA SignInEndsKeeps ==
  ASSUME OrdersInv, NEW s \in Slot, SignInEnds(s)
  PROVE  OrdersInv'
<1>1. CallSound(calls[s], orders, mode)
  BY InvParts
<1>2. calls[s].next \in Location /\ calls[s].tok \in Token /\ calls[s].who \in Person
  BY <1>1 DEF SignInEnds, CallSound, KnownCall
<1>3. ASSUME NEW t \in Token, t.who = calls[s].who, SignedIn(calls[s].who, t),
             UNCHANGED <<clock, orders, seq, mode, cart>>,
             Show(calls[s].next, calls[s].who, Done(s), FALSE)
      PROVE  OrdersInv'
  <2>1. SessionTypeOK' /\ SessionAgrees'
    BY <1>2, <1>3, SignedInSound
  <2>2. mode' \in Mode /\ cart' \in [Product -> 0..Stock]
    BY <1>3, InvParts
  <2> QED BY <1>2, <1>3, <2>1, <2>2, DoneSound, ShowKeeps
<1>4. CASE /\ calls[s].kind = "login" /\ calls[s].answer = "ok"
           /\ SignedIn(calls[s].who, calls[s].tok)
           /\ UNCHANGED <<clock, orders, seq, mode, cart>>
           /\ Show(calls[s].next, calls[s].who, Done(s), FALSE)
  <2>1. calls[s].tok.who = calls[s].who
    BY <1>1, <1>4 DEF CallSound
  <2> QED BY <1>2, <1>3, <1>4, <2>1
<1>5. CASE /\ SignedIn(calls[s].who, MakeToken(calls[s].who))
           /\ UNCHANGED <<clock, orders, seq, mode, cart>>
           /\ Show(calls[s].next, calls[s].who, Done(s), FALSE)
  <2>1. MakeToken(calls[s].who) \in Token /\ MakeToken(calls[s].who).who = calls[s].who
    BY <1>2, SessionConstants DEF MakeToken, Token
  <2> QED BY <1>3, <1>5, <2>1
<1>6. CASE /\ calls' = Done(s)
           /\ UNCHANGED <<sessionVars, orders, seq, mode, route, back, cart, placing, shown, sent>>
  <2>1. placing' \in BOOLEAN /\ ShownSound(shown', orders, mode)
    BY <1>6, InvParts
  <2> QED BY <1>6, <2>1, DoneKeeps
<1> QED BY <1>4, <1>5, <1>6 DEF SignInEnds

LEMMA PlaceEndsKeeps ==
  ASSUME OrdersInv, NEW s \in Slot, PlaceEnds(s)
  PROVE  OrdersInv'
<1>1. CASE /\ cart' = Empty
           /\ UNCHANGED <<sessionVars, orders, seq, mode>>
           /\ \E o \in calls[s].rows : \/ Show([name |-> "order", id |-> o.id], user, Done(s), FALSE)
                                       \/ Show(Page("shop"), user, Done(s), FALSE)
  <2>1. PICK o \in calls[s].rows : \/ Show([name |-> "order", id |-> o.id], user, Done(s), FALSE)
                                   \/ Show(Page("shop"), user, Done(s), FALSE)
    BY <1>1
  <2>2. calls[s].rows \subseteq Order
    BY InvParts DEF CallSound, KnownCall
  <2>3. [name |-> "order", id |-> o.id] \in Location
    BY <2>2, OrdersConstants DEF Order, Location, PageName
  <2>4. Page("shop") \in Location
    BY PageIsLocation DEF PageName
  <2>5. PICK r \in Location : Show(r, user, Done(s), FALSE)
    BY <2>1, <2>3, <2>4
  <2>6. SessionTypeOK' /\ SessionAgrees'
    BY <1>1, SessionKept DEF OrdersInv
  <2>7. mode' \in Mode /\ mode' = mode /\ cart' \in [Product -> 0..Stock] /\ UNCHANGED <<orders, seq>>
    BY <1>1, InvParts, EmptyIsCart
  <2> QED BY <2>5, <2>6, <2>7, DoneSound, ShowKeeps
<1>2. CASE /\ placing' = (placing /\ ~calls[s].live)
           /\ calls' = Done(s)
           /\ UNCHANGED <<sessionVars, orders, seq, mode, route, back, cart, shown, sent>>
  <2>1. placing' \in BOOLEAN
    BY <1>2
  <2>2. ShownSound(shown', orders, mode)
    BY <1>2, InvParts
  <2> QED BY <1>2, <2>1, <2>2, DoneKeeps
<1> QED BY <1>1, <1>2 DEF PlaceEnds

LEMMA FetchEndsKeeps ==
  ASSUME OrdersInv, NEW s \in Slot, FetchEnds(s)
  PROVE  OrdersInv'
<1>1. CallSound(calls[s], orders, mode) /\ ShownSound(shown, orders, mode)
  BY InvParts
<1>2. ShownSound(Failed, orders, mode)
  BY DEF ShownSound, Failed
<1>3. CASE shown' = shown
  BY <1>1, <1>3, InvParts, DoneKeeps DEF FetchEnds
<1>4. CASE shown' = Failed
  BY <1>2, <1>4, InvParts, DoneKeeps DEF FetchEnds
<1>5. CASE calls[s].live /\ shown' = [via |-> calls[s].via, rows |-> calls[s].rows]
  <2>1. calls[s].kind \in {"list", "order"}
    BY DEF FetchEnds
  <2>2. calls[s].via = mode /\ calls[s].rows \subseteq orders /\ calls[s].rows \subseteq Order
    BY <1>1, <1>5, <2>1 DEF CallSound, KnownCall
  <2>3. mode \in Mode
    BY InvParts
  <2>4. ShownSound(shown', orders, mode)
    BY <1>5, <2>2, <2>3 DEF ShownSound
  <2> QED BY <2>4, InvParts, DoneKeeps DEF FetchEnds
<1> QED BY <1>3, <1>4, <1>5 DEF FetchEnds

LEMMA SignOutKeeps == ASSUME OrdersInv, SignOut PROVE OrdersInv'
<1>1. SessionTypeOK' /\ SessionAgrees'
  BY SignedOutSound DEF SignOut, SignedOut
<1>2. UNCHANGED <<orders, seq, mode, cart>> /\ Show(Page("shop"), Nobody, calls, FALSE)
  BY DEF SignOut
<1>3. Page("shop") \in Location
  BY PageIsLocation DEF PageName
<1> QED BY <1>1, <1>2, <1>3, InvParts, ShowKeeps

\* A token without a user, or a user without a token, is not a session: they come
\* and go together, so the storage needs no clearing then.
LEMMA ReloadedSound ==
  ASSUME SessionTypeOK, SessionAgrees, Reloaded, UNCHANGED clock
  PROVE  SessionTypeOK' /\ SessionAgrees'
<1>1. token = NoToken => stored = Nobody
  BY DEF SessionAgrees, NoToken
<1>2. CASE UNCHANGED <<token, stored>> /\ user' = stored
  BY <1>2 DEF SessionTypeOK, SessionAgrees, Token
<1>3. CASE SignedOut
  BY <1>3, NoTokenIsToken DEF SignedOut, SessionTypeOK, SessionAgrees, Token, NoToken
<1> QED BY <1>1, <1>2, <1>3 DEF Reloaded

LEMMA ReloadKeeps == ASSUME OrdersInv, Reload PROVE OrdersInv'
<1>1. SessionTypeOK' /\ SessionAgrees'
  BY ReloadedSound DEF OrdersInv, Reload
<1> DEFINE cs == [s \in Slot |-> Idle]
<1>2. UNCHANGED <<orders, seq, mode, cart>> /\ Show(route, user', cs, TRUE)
  BY DEF Reload
<1>3. cs = [s \in Slot |-> cs[s]] /\ \A s \in Slot : CallSound(cs[s], orders, mode)
  BY IdleSound
<1> HIDE DEF cs
<1> QED BY <1>1, <1>2, <1>3, InvParts, ShowKeeps

-----------------------------------------------------------------------------
(* The theorems. *)

LEMMA OrdersInvInitially == SessionInit /\ OrdersInit => OrdersInv
<1> SUFFICES ASSUME SessionInit, OrdersInit PROVE OrdersInv
  OBVIOUS
<1>1. SessionTypeOK /\ SessionAgrees
  BY NoTokenIsToken, SessionConstants DEF SessionInit, SessionTypeOK, SessionAgrees, NoToken
<1>2. Page("shop") \in Location
  BY PageIsLocation DEF PageName
<1>3. seq \in 0..MaxSeq
  BY SeededIsTable, OrdersConstants DEF OrdersInit
<1>4. OrdersTypeOK
  <2>1. orders \subseteq Order /\ mode \in Mode /\ cart \in [Product -> 0..Stock]
    BY SeededIsTable, EmptyIsCart DEF OrdersInit
  <2>2. route \in Location /\ back \in Location /\ sent \in 0..MaxCalls
    BY <1>2, OrdersConstants DEF OrdersInit
  <2>3. shown.via = "none" /\ shown.rows = {} /\ placing = FALSE
    BY DEF OrdersInit, NotShown
  <2> QED BY <1>3, <2>1, <2>2, <2>3 DEF OrdersTypeOK, Location
<1>5. TableSound
  BY SeededIsTable DEF OrdersInit, TableSound
<1>6. ShownSound(shown, orders, mode)
  BY DEF OrdersInit, ShownSound, NotShown
<1>7. calls = [s \in Slot |-> calls[s]] /\ \A s \in Slot : CallSound(calls[s], orders, mode)
  BY IdleSound DEF OrdersInit
<1> QED BY <1>1, <1>4, <1>5, <1>6, <1>7 DEF OrdersInv

LEMMA OrdersInvKept == OrdersInv /\ [OrdersNext]_<<sessionVars, orderVars>> => OrdersInv'
<1> SUFFICES ASSUME OrdersInv, [OrdersNext]_<<sessionVars, orderVars>> PROVE OrdersInv'
  OBVIOUS
<1>1. CASE Restart
  BY <1>1, RestartKeeps
<1>2. CASE Hour
  BY <1>2, HourKeeps
<1>3. CASE SwitchMode
  BY <1>3, SwitchModeKeeps
<1>4. CASE HandlePlace
  BY <1>4, HandlePlaceKeeps
<1>5. CASE SignOut
  BY <1>5, SignOutKeeps
<1>6. CASE Reload
  BY <1>6, ReloadKeeps
<1>7. ASSUME NEW s \in Slot,
             \/ ServeLogin(s) \/ ServeCreate(s) \/ ServeList(s) \/ ServeOrder(s)
             \/ Expires(s) \/ SignInEnds(s) \/ PlaceEnds(s) \/ FetchEnds(s)
      PROVE  OrdersInv'
  BY <1>7, ServeLoginKeeps, ServeCreateKeeps, ServeReadKeeps, ExpiresKeeps,
     SignInEndsKeeps, PlaceEndsKeeps, FetchEndsKeeps
<1>8. ASSUME NEW n \in PageName, NEW id \in 0..MaxSeq, Visit([name |-> n, id |-> id])
      PROVE  OrdersInv'
  <2>1. [name |-> n, id |-> id] \in Location
    BY DEF Location
  <2> QED BY <1>8, <2>1, VisitKeeps
<1>9. ASSUME NEW p \in Product, AddToCart(p) \/ TakeFromCart(p) PROVE OrdersInv'
  BY <1>9, CartKeeps
<1>10. ASSUME NEW k \in {"login", "register"}, NEW p \in Person, Submit(k, p) PROVE OrdersInv'
  BY <1>10, SubmitKeeps
<1>11. CASE UNCHANGED <<sessionVars, orderVars>>
  <2>1. calls' = [s \in Slot |-> calls'[s]] /\ \A s \in Slot : CallSound(calls'[s], orders, mode)
    BY <1>11, InvParts DEF orderVars
  <2>2. placing' \in BOOLEAN /\ sent' \in 0..MaxCalls /\ ShownSound(shown', orders, mode)
    BY <1>11, InvParts DEF orderVars
  <2> QED BY <1>11, <2>1, <2>2, CallsKeep DEF orderVars
<1> QED BY <1>1, <1>2, <1>3, <1>4, <1>5, <1>6, <1>7, <1>8, <1>9, <1>10, <1>11 DEF OrdersNext

\* OrdersInv is inductive: every call in flight carries what its answer will need,
\* for any accounts, products, seeded orders and calls.
THEOREM OrdersAlways == OrdersSpec => []OrdersInv
BY OrdersInvInitially, OrdersInvKept, PTL DEF OrdersSpec

\* AuthContext, sf_user and sf_token never name different people, however the
\* answers of sign-ins and the 401s of other calls come in.
THEOREM OneSession == OrdersSpec => []SessionAgrees
<1>1. OrdersInv => SessionAgrees
  BY DEF OrdersInv
<1> QED BY <1>1, OrdersAlways, PTL

\* Ids and numbers of the orders table stay unique and the seeds stay what they
\* were, for any first number: a restart uses up ids and inserts nothing, and a
\* created order whose number is taken is refused.
THEOREM TableStaysSound == OrdersSpec => []TableSound
<1>1. OrdersInv => TableSound
  BY DEF OrdersInv
<1> QED BY <1>1, OrdersAlways, PTL

\* No order page shows, or still waits for, rows of the other mode than the one
\* the navbar's switch is at.
THEOREM PagesFollowSwitch == OrdersSpec => []ShownViaMode
<1>1. OrdersInv => ShownViaMode
  BY DEF OrdersInv, ShownViaMode, ShownSound, CallSound
<1> QED BY <1>1, OrdersAlways, PTL

-----------------------------------------------------------------------------
(* Timers. *)

\* What the rest of a queue, a longer queue and the queue of a page that was left hold.
LEMMA TailIs ==
  ASSUME NEW S, NEW q \in Seq(S), q # <<>>
  PROVE  /\ Tail(q) \in Seq(S) /\ Len(Tail(q)) = Len(q) - 1
         /\ Head(q) = q[1] /\ 1 \in DOMAIN q /\ Head(q) \in S
         /\ \A k \in DOMAIN Tail(q) : k + 1 \in DOMAIN q /\ Tail(q)[k] = q[k + 1]
         /\ \A k \in DOMAIN q : k # 1 => k - 1 \in DOMAIN Tail(q) /\ Tail(q)[k - 1] = q[k]
OBVIOUS

LEMMA AppendIs ==
  ASSUME NEW S, NEW q \in Seq(S), NEW x \in S
  PROVE  /\ Append(q, x) \in Seq(S) /\ Len(Append(q, x)) = Len(q) + 1
         /\ \A k \in DOMAIN q : k \in DOMAIN Append(q, x) /\ Append(q, x)[k] = q[k] /\ k < Len(q) + 1
         /\ Len(q) + 1 \in DOMAIN Append(q, x) /\ Append(q, x)[Len(q) + 1] = x
         /\ \A k \in DOMAIN Append(q, x) : k \in DOMAIN q \/ k = Len(q) + 1
OBVIOUS

LEMMA UnmountedIs ==
  ASSUME NEW q \in Seq(SlowTimer)
  PROVE  /\ Unmounted(q) \in Seq(SlowTimer) /\ Len(Unmounted(q)) = Len(q)
         /\ DOMAIN Unmounted(q) = DOMAIN q
         /\ \A k \in DOMAIN q : /\ Unmounted(q)[k].kind = q[k].kind
                                /\ Unmounted(q)[k].what = q[k].what
                                /\ ~Unmounted(q)[k].live
<1>1. Len(q) \in Nat /\ DOMAIN q = 1..Len(q)
  OBVIOUS
<1>2. ASSUME NEW k \in DOMAIN q
      PROVE  /\ [q[k] EXCEPT !.live = FALSE] \in SlowTimer
             /\ [q[k] EXCEPT !.live = FALSE].kind = q[k].kind
             /\ [q[k] EXCEPT !.live = FALSE].what = q[k].what
             /\ ~[q[k] EXCEPT !.live = FALSE].live
  <2>1. q[k] \in SlowTimer
    OBVIOUS
  <2> QED BY <2>1 DEF SlowTimer
<1>3. Unmounted(q) \in [1..Len(q) -> SlowTimer]
  BY <1>1, <1>2 DEF Unmounted
<1>4. Unmounted(q) \in Seq(SlowTimer) /\ Len(Unmounted(q)) = Len(q)
  BY <1>1, <1>3
<1> QED BY <1>1, <1>2, <1>3, <1>4 DEF Unmounted

LEMMA TimerIs ==
  ASSUME NEW kd, NEW w
  PROVE  Timer(kd, w).kind = kd /\ Timer(kd, w).what = w /\ Timer(kd, w).live
BY DEF Timer

LEMMA TimersAre ==
  /\ \A kd \in {"wishes", "load"} : Timer(kd, "") \in SlowTimer
  /\ \A kd \in {"review", "create", "delete"}, i \in Item : Timer(kd, i) \in SlowTimer
  /\ \A t \in Term : Timer("shop", t) \in SlowTimer
  /\ \A i \in Item : Timer("toggle", i) \in QuickTimer
BY DEF Timer, SlowTimer, QuickTimer

\* Whether queue q holds a live timer of kind kd.
LiveIn(q, kd) == \E k \in DOMAIN q : q[k].kind = kd /\ q[k].live
Wishing(q)    == \E k \in DOMAIN q : q[k].kind = "wishes"

LEMMA LiveInTail ==
  ASSUME NEW q \in Seq(SlowTimer), q # <<>>, NEW kd, LiveIn(q, kd),
         ~(Head(q).kind = kd /\ Head(q).live)
  PROVE  LiveIn(Tail(q), kd)
<1>1. PICK k \in DOMAIN q : q[k].kind = kd /\ q[k].live
  BY DEF LiveIn
<1>2. k # 1
  BY <1>1, TailIs
<1>3. k - 1 \in DOMAIN Tail(q) /\ Tail(q)[k - 1] = q[k]
  BY <1>2, TailIs
<1> QED BY <1>1, <1>3 DEF LiveIn

LEMMA LiveInOfTail ==
  ASSUME NEW q \in Seq(SlowTimer), q # <<>>, NEW kd, LiveIn(Tail(q), kd)
  PROVE  LiveIn(q, kd)
BY TailIs DEF LiveIn

LEMMA LiveInAppend ==
  ASSUME NEW q \in Seq(SlowTimer), NEW x \in SlowTimer, NEW kd
  PROVE  LiveIn(Append(q, x), kd) <=> (LiveIn(q, kd) \/ (x.kind = kd /\ x.live))
<1>1. ASSUME LiveIn(Append(q, x), kd) PROVE LiveIn(q, kd) \/ (x.kind = kd /\ x.live)
  BY <1>1, AppendIs DEF LiveIn
<1>2. ASSUME LiveIn(q, kd) PROVE LiveIn(Append(q, x), kd)
  BY <1>2, AppendIs DEF LiveIn
<1>3. ASSUME x.kind = kd, x.live PROVE LiveIn(Append(q, x), kd)
  <2>1. Len(q) + 1 \in DOMAIN Append(q, x) /\ Append(q, x)[Len(q) + 1] = x
    BY AppendIs
  <2> QED BY <1>3, <2>1 DEF LiveIn
<1> QED BY <1>1, <1>2, <1>3

LEMMA LiveInUnmounted ==
  ASSUME NEW q \in Seq(SlowTimer), NEW kd
  PROVE  ~LiveIn(Unmounted(q), kd)
BY UnmountedIs DEF LiveIn

LEMMA WishingTail ==
  ASSUME NEW q \in Seq(SlowTimer), q # <<>>, Wishing(q), Head(q).kind # "wishes"
  PROVE  Wishing(Tail(q))
<1>1. PICK k \in DOMAIN q : q[k].kind = "wishes"
  BY DEF Wishing
<1>2. k # 1
  BY <1>1, TailIs
<1>3. k - 1 \in DOMAIN Tail(q) /\ Tail(q)[k - 1] = q[k]
  BY <1>2, TailIs
<1> QED BY <1>1, <1>3 DEF Wishing

LEMMA WishingAppend ==
  ASSUME NEW q \in Seq(SlowTimer), NEW x \in SlowTimer
  PROVE  Wishing(Append(q, x)) <=> (Wishing(q) \/ x.kind = "wishes")
<1>1. ASSUME Wishing(Append(q, x)) PROVE Wishing(q) \/ x.kind = "wishes"
  BY <1>1, AppendIs DEF Wishing
<1>2. ASSUME Wishing(q) PROVE Wishing(Append(q, x))
  BY <1>2, AppendIs DEF Wishing
<1>3. ASSUME x.kind = "wishes" PROVE Wishing(Append(q, x))
  <2>1. Len(q) + 1 \in DOMAIN Append(q, x) /\ Append(q, x)[Len(q) + 1] = x
    BY AppendIs
  <2> QED BY <1>3, <2>1 DEF Wishing
<1> QED BY <1>1, <1>2, <1>3

LEMMA WishingUnmounted ==
  ASSUME NEW q \in Seq(SlowTimer)
  PROVE  Wishing(Unmounted(q)) <=> Wishing(q)
BY UnmountedIs DEF Wishing

\* The part of LivesInOrder that is about queue q, with lives l.
QueueLives(q, l) ==
  \A k \in DOMAIN q :
    /\ q[k].kind = "create" => l[q[k].what] # "gone"
    /\ q[k].kind = "delete" => l[q[k].what] # "unborn"
    /\ \A j \in DOMAIN q :
         q[k].kind = "create" /\ q[j].kind = "delete" /\ q[j].what = q[k].what => k < j

LEMMA LivesTail ==
  ASSUME NEW q \in Seq(SlowTimer), q # <<>>, NEW l, QueueLives(q, l)
  PROVE  QueueLives(Tail(q), l)
<1>1. ASSUME NEW k \in DOMAIN Tail(q)
      PROVE  /\ Tail(q)[k].kind = "create" => l[Tail(q)[k].what] # "gone"
             /\ Tail(q)[k].kind = "delete" => l[Tail(q)[k].what] # "unborn"
  BY TailIs DEF QueueLives
<1>2. ASSUME NEW k \in DOMAIN Tail(q), NEW j \in DOMAIN Tail(q), Tail(q)[k].kind = "create",
             Tail(q)[j].kind = "delete", Tail(q)[j].what = Tail(q)[k].what
      PROVE  k < j
  <2>1. k + 1 \in DOMAIN q /\ j + 1 \in DOMAIN q /\ Tail(q)[k] = q[k + 1] /\ Tail(q)[j] = q[j + 1]
        /\ k \in Int /\ j \in Int
    BY TailIs
  <2>2. k + 1 < j + 1
    BY <1>2, <2>1 DEF QueueLives
  <2> QED BY <2>1, <2>2
<1> QED BY <1>1, <1>2 DEF QueueLives

LEMMA LivesAppend ==
  ASSUME NEW q \in Seq(SlowTimer), NEW x \in SlowTimer, NEW l, QueueLives(q, l),
         x.kind = "create" => l[x.what] = "unborn", x.kind = "delete" => l[x.what] # "unborn"
  PROVE  QueueLives(Append(q, x), l)
<1> DEFINE r == Append(q, x)
           n == Len(q) + 1
<1>1. /\ \A k \in DOMAIN q : r[k] = q[k] /\ k < n
      /\ r[n] = x /\ \A k \in DOMAIN r : k \in DOMAIN q \/ k = n
  BY AppendIs
<1> HIDE DEF r, n
<1>2. ASSUME NEW k \in DOMAIN r
      PROVE  /\ r[k].kind = "create" => l[r[k].what] # "gone"
             /\ r[k].kind = "delete" => l[r[k].what] # "unborn"
  BY <1>1 DEF QueueLives
<1>3. ASSUME NEW k \in DOMAIN r, NEW j \in DOMAIN r, r[k].kind = "create",
             r[j].kind = "delete", r[j].what = r[k].what
      PROVE  k < j
  <2>1. CASE k \in DOMAIN q /\ j \in DOMAIN q
    BY <1>1, <1>3, <2>1 DEF QueueLives
  <2>2. CASE k \in DOMAIN q /\ j = n
    BY <1>1, <2>2
  <2>3. CASE k = n /\ j \in DOMAIN q
    BY <1>1, <1>3, <2>3 DEF QueueLives
  <2>4. CASE k = n /\ j = n
    BY <1>3, <2>4
  <2> QED BY <1>1, <2>1, <2>2, <2>3, <2>4
<1>4. QueueLives(r, l)
  BY <1>2, <1>3 DEF QueueLives
<1> QED BY <1>4 DEF r

LEMMA LivesUnmounted ==
  ASSUME NEW q \in Seq(SlowTimer), NEW l, QueueLives(q, l)
  PROVE  QueueLives(Unmounted(q), l)
BY UnmountedIs DEF QueueLives

\* The part of WaitsForUrl that is about queue q, for page v with filters t.
QueueUrl(q, v, t) ==
  \A k \in DOMAIN q : q[k].kind = "shop" /\ q[k].live =>
    /\ v = "shop"
    /\ \/ q[k].what = t
       \/ \E j \in DOMAIN q : j > k /\ q[j].kind = "shop" /\ q[j].live

LEMMA UrlTail ==
  ASSUME NEW q \in Seq(SlowTimer), q # <<>>, NEW v, NEW t, QueueUrl(q, v, t)
  PROVE  QueueUrl(Tail(q), v, t)
<1> SUFFICES ASSUME NEW k \in DOMAIN Tail(q), Tail(q)[k].kind = "shop", Tail(q)[k].live
             PROVE  /\ v = "shop"
                    /\ \/ Tail(q)[k].what = t
                       \/ \E j \in DOMAIN Tail(q) : j > k /\ Tail(q)[j].kind = "shop" /\ Tail(q)[j].live
  BY DEF QueueUrl
<1>1. k + 1 \in DOMAIN q /\ Tail(q)[k] = q[k + 1] /\ k \in Nat /\ k >= 1
  BY TailIs
<1>2. v = "shop" /\ (q[k + 1].what = t \/ \E j \in DOMAIN q : j > k + 1 /\ q[j].kind = "shop" /\ q[j].live)
  BY <1>1 DEF QueueUrl
<1>3. ASSUME NEW j \in DOMAIN q, j > k + 1
      PROVE  j - 1 \in DOMAIN Tail(q) /\ Tail(q)[j - 1] = q[j] /\ j - 1 > k
  BY <1>1, <1>3, TailIs
<1> QED BY <1>1, <1>2, <1>3

LEMMA UrlAppend ==
  ASSUME NEW q \in Seq(SlowTimer), NEW x \in SlowTimer, NEW v, NEW t,
         \/ x.kind # "shop" /\ QueueUrl(q, v, t)
         \/ /\ x.kind = "shop" /\ x.live /\ x.what = t /\ v = "shop"
            /\ \E u : QueueUrl(q, v, u)
  PROVE  QueueUrl(Append(q, x), v, t)
<1> DEFINE r == Append(q, x)
           n == Len(q) + 1
<1>1. /\ \A k \in DOMAIN q : k \in DOMAIN r /\ r[k] = q[k] /\ k < n /\ k \in Nat
      /\ n \in DOMAIN r /\ n \in Nat
      /\ r[n] = x /\ \A k \in DOMAIN r : k \in DOMAIN q \/ k = n
  BY AppendIs
<1> HIDE DEF r, n
<1>2. CASE x.kind # "shop" /\ QueueUrl(q, v, t)
  BY <1>1, <1>2 DEF QueueUrl, r
<1>3. CASE x.kind = "shop" /\ x.live /\ x.what = t /\ v = "shop"
  <2>1. ASSUME NEW k \in DOMAIN r
        PROVE  r[k].what = t \/ \E j \in DOMAIN r : j > k /\ r[j].kind = "shop" /\ r[j].live
    BY <1>1, <1>3
  <2>2. QueueUrl(r, v, t)
    BY <1>3, <2>1 DEF QueueUrl
  <2> QED BY <2>2 DEF r
<1> QED BY <1>2, <1>3

LEMMA UrlUnmounted ==
  ASSUME NEW q \in Seq(SlowTimer), NEW v, NEW t
  PROVE  QueueUrl(Unmounted(q), v, t)
BY UnmountedIs DEF QueueUrl

\* The part of LoadsFollow that is about queue q.
QueueLoads(q) ==
  \A k \in DOMAIN q : q[k].kind \in {"create", "delete"} /\ ~q[k].live =>
    \E j \in DOMAIN q : j > k /\ q[j].kind = "load" /\ q[j].live

LEMMA LoadsTail ==
  ASSUME NEW q \in Seq(SlowTimer), q # <<>>, QueueLoads(q)
  PROVE  QueueLoads(Tail(q))
<1> SUFFICES ASSUME NEW k \in DOMAIN Tail(q), Tail(q)[k].kind \in {"create", "delete"}, ~Tail(q)[k].live
             PROVE  \E j \in DOMAIN Tail(q) : j > k /\ Tail(q)[j].kind = "load" /\ Tail(q)[j].live
  BY DEF QueueLoads
<1>1. k + 1 \in DOMAIN q /\ Tail(q)[k] = q[k + 1] /\ k \in Nat /\ k >= 1
  BY TailIs
<1>2. PICK j \in DOMAIN q : j > k + 1 /\ q[j].kind = "load" /\ q[j].live
  BY <1>1 DEF QueueLoads
<1>3. j - 1 \in DOMAIN Tail(q) /\ Tail(q)[j - 1] = q[j] /\ j - 1 > k
  BY <1>1, <1>2, TailIs
<1> QED BY <1>2, <1>3

LEMMA LoadsAppend ==
  ASSUME NEW q \in Seq(SlowTimer), NEW x \in SlowTimer, x.live, QueueLoads(q) \/ x.kind = "load"
  PROVE  QueueLoads(Append(q, x))
<1> DEFINE r == Append(q, x)
           n == Len(q) + 1
<1>1. /\ \A k \in DOMAIN q : k \in DOMAIN r /\ r[k] = q[k] /\ k < n /\ k \in Nat
      /\ n \in DOMAIN r /\ n \in Nat
      /\ r[n] = x /\ \A k \in DOMAIN r : k \in DOMAIN q \/ k = n
  BY AppendIs
<1> HIDE DEF r, n
<1>2. CASE QueueLoads(q)
  BY <1>1, <1>2 DEF QueueLoads, r
<1>3. CASE x.kind = "load"
  BY <1>1, <1>3 DEF QueueLoads, r
<1> QED BY <1>2, <1>3

-----------------------------------------------------------------------------
(* One step. *)

\* The parts of BrowseInv, in the words of the lemmas on queues.
LEMMA BrowseParts ==
  ASSUME BrowseInv
  PROVE  /\ SessionTypeOK /\ SessionAgrees /\ stored = user /\ user \in Person \cup {Nobody}
         /\ life \in [Item -> {"unborn", "here", "gone"}] /\ wishes \in [Person -> SUBSET Item]
         /\ reviews \in [Person -> [Item -> Nat]] /\ wishlist \subseteq Item
         /\ view \in View /\ term \in Term /\ listed \in [of : Term, loading : BOOLEAN]
         /\ table \subseteq Item /\ fetches \subseteq [of : Term, live : BOOLEAN]
         /\ slow \in Seq(SlowTimer) /\ quick \in Seq(QuickTimer)
         /\ Len(slow) <= MaxTimers + 1 /\ Len(quick) <= MaxTimers
         /\ user = Nobody => wishlist = {}
         /\ user # Nobody /\ ~Wishing(slow) =>
              wishes[user] \cap products \subseteq wishlist /\ wishlist \subseteq wishes[user]
         /\ \A p \in Person, i \in Item : reviews[p][i] <= 1
         /\ view \in {"shop", "search"} /\ ~listed.loading /\ ~LiveIn(slow, "shop") => listed.of = term
         /\ \A i \in Item : life[i] = "unborn" => i \notin table /\ \A p \in Person : i \notin wishes[p]
         /\ \A k \in DOMAIN quick : life[quick[k].what] # "unborn"
         /\ QueueLives(slow, life) /\ QueueUrl(slow, view, term)
         /\ \A f \in fetches : f.live => f.of = term /\ view = "search"
         /\ view = "admin" => QueueLoads(slow) /\ (table # products => LiveIn(slow, "load"))
<1>1. SessionTypeOK /\ SessionAgrees /\ BrowseTypeOK /\ BrowseSound
      /\ LivesInOrder /\ WaitsForUrl /\ LoadsFollow
      /\ slow \in Seq(SlowTimer) /\ quick \in Seq(QuickTimer) /\ (user = Nobody => wishlist = {})
  BY DEF BrowseInv
<1>2. stored = user /\ user \in Person \cup {Nobody}
  BY <1>1 DEF SessionAgrees, SessionTypeOK
<1>3. QueueLives(slow, life) /\ (\A k \in DOMAIN quick : life[quick[k].what] # "unborn")
      /\ (\A i \in Item : life[i] = "unborn" => i \notin table /\ \A p \in Person : i \notin wishes[p])
  BY <1>1 DEF LivesInOrder, QueueLives
<1>4. QueueUrl(slow, view, term) /\ (\A f \in fetches : f.live => f.of = term /\ view = "search")
  BY <1>1 DEF WaitsForUrl, QueueUrl
<1>5. view = "admin" => QueueLoads(slow) /\ (table # products => LiveIn(slow, "load"))
  BY <1>1 DEF LoadsFollow, QueueLoads, LiveIn, Loading
<1>6. user # Nobody /\ ~Wishing(slow) =>
        wishes[user] \cap products \subseteq wishlist /\ wishlist \subseteq wishes[user]
  BY <1>1 DEF BrowseSound, WishlistIsMine, LoadingWishes, Wishing
<1>7. view \in {"shop", "search"} /\ ~listed.loading /\ ~LiveIn(slow, "shop") => listed.of = term
  BY <1>1 DEF BrowseSound, ListedAnswersUrl, Loading, LiveIn
<1>8. \A p \in Person, i \in Item : reviews[p][i] <= 1
  BY <1>1 DEF BrowseSound, OneReviewEach
<1> QED BY <1>1, <1>2, <1>3, <1>4, <1>5, <1>6, <1>7, <1>8 DEF BrowseTypeOK

\* And BrowseInv of the next state from its parts.
LEMMA BrowseFrom ==
  ASSUME SessionTypeOK', SessionAgrees',
         life' \in [Item -> {"unborn", "here", "gone"}], wishes' \in [Person -> SUBSET Item],
         reviews' \in [Person -> [Item -> Nat]], wishlist' \subseteq Item,
         view' \in View, term' \in Term, listed' \in [of : Term, loading : BOOLEAN],
         table' \subseteq Item, fetches' \subseteq [of : Term, live : BOOLEAN],
         slow' \in Seq(SlowTimer), quick' \in Seq(QuickTimer),
         Len(slow') <= MaxTimers + 1, Len(quick') <= MaxTimers,
         user' = Nobody => wishlist' = {},
         user' # Nobody /\ ~Wishing(slow') =>
           wishes'[user'] \cap products' \subseteq wishlist' /\ wishlist' \subseteq wishes'[user'],
         \A p \in Person, i \in Item : reviews'[p][i] <= 1,
         view' \in {"shop", "search"} /\ ~listed'.loading /\ ~LiveIn(slow', "shop") => listed'.of = term',
         \A i \in Item : life'[i] = "unborn" => i \notin table' /\ \A p \in Person : i \notin wishes'[p],
         \A k \in DOMAIN quick' : life'[quick'[k].what] # "unborn",
         QueueLives(slow', life'), QueueUrl(slow', view', term'),
         \A f \in fetches' : f.live => f.of = term' /\ view' = "search",
         view' = "admin" => QueueLoads(slow') /\ (table' # products' => LiveIn(slow', "load"))
  PROVE  BrowseInv'
<1>1. BrowseTypeOK'
  BY DEF BrowseTypeOK, View
<1>2. LivesInOrder'
  BY DEF LivesInOrder, QueueLives
<1>3. WaitsForUrl'
  BY DEF WaitsForUrl, QueueUrl
<1>4. LoadsFollow'
  BY DEF LoadsFollow, QueueLoads, LiveIn, Loading
<1>5. WishlistIsMine'
  BY DEF WishlistIsMine, LoadingWishes, Wishing
<1>6. ListedAnswersUrl'
  BY DEF ListedAnswersUrl, Loading, LiveIn
<1>7. OneReviewEach'
  BY DEF OneReviewEach
<1>8. TableSettles'
  BY <1>4 DEF TableSettles, LoadsFollow, Loading
<1>9. slow' \in Seq(SlowTimer)' /\ quick' \in Seq(QuickTimer)'
  BY DEF SlowTimer, QuickTimer
<1> QED BY <1>1, <1>2, <1>3, <1>4, <1>5, <1>6, <1>7, <1>8, <1>9 DEF BrowseInv, BrowseSound

\* The session changes: what was shown of the person before is cleared or fetched
\* anew, and the admin page is left by nobody.
LEMMA HearsKeeps ==
  ASSUME BrowseInv, NEW p \in Person \cup {Nobody}, Hears(p), SessionTypeOK', SessionAgrees', user' = p
  PROVE  BrowseInv'
<1> DEFINE q == IF view' = view THEN slow ELSE Unmounted(slow)
           x == Timer("wishes", "")
<1>1. /\ Len(slow) <= MaxTimers
      /\ view' = IF p = Nobody /\ view = "admin" THEN "other" ELSE view
      /\ table' = IF view' = view THEN table ELSE {}
      /\ LoadWishlist(p, q)
      /\ UNCHANGED <<clock, life, wishes, reviews, term, listed, quick, fetches>>
  BY DEF Hears
<1>2. /\ q \in Seq(SlowTimer) /\ Len(q) = Len(slow) /\ QueueLives(q, life)
      /\ QueueUrl(q, view', term)
  <2>1. CASE view' = view
    BY <2>1, BrowseParts
  <2>2. CASE view' # view
    <3>1. q = Unmounted(slow)
      BY <2>2
    <3> HIDE DEF q
    <3> QED BY <3>1, BrowseParts, UnmountedIs, LivesUnmounted, UrlUnmounted
  <2> QED BY <2>1, <2>2
<1>3. view' = view => q = slow
  OBVIOUS
<1>4. view' # view => view' = "other"
  BY <1>1
<1> HIDE DEF q
<1>5. x \in SlowTimer /\ x.kind = "wishes" /\ x.live
  BY TimersAre, TimerIs
<1> HIDE DEF x
<1>6. \/ p = Nobody /\ wishlist' = {} /\ slow' = q
      \/ p # Nobody /\ wishlist' = wishlist /\ slow' = Append(q, x)
  BY <1>1 DEF LoadWishlist, x
<1>7. slow' \in Seq(SlowTimer) /\ Len(slow') <= MaxTimers + 1
  BY <1>1, <1>2, <1>5, <1>6, AppendIs, BrowseConstants
<1>8. QueueLives(slow', life') /\ QueueUrl(slow', view', term')
  <2>1. life' = life /\ term' = term
    BY <1>1
  <2> QED BY <1>2, <1>5, <1>6, <2>1, LivesAppend, UrlAppend
<1>9. p # Nobody => Wishing(slow')
  BY <1>2, <1>5, <1>6, WishingAppend
<1>10. \A kd \in {"shop", "load"} : LiveIn(q, kd) => LiveIn(slow', kd)
  <2> SUFFICES ASSUME NEW kd \in {"shop", "load"}, LiveIn(q, kd) PROVE LiveIn(slow', kd)
    OBVIOUS
  <2>1. LiveIn(Append(q, x), kd)
    BY <1>2, <1>5, LiveInAppend
  <2> QED BY <1>6, <2>1
<1>11. view' \in {"shop", "search"} /\ ~listed'.loading /\ ~LiveIn(slow', "shop") => listed'.of = term'
  <2>1. listed' = listed /\ term' = term
    BY <1>1
  <2> QED BY <1>3, <1>4, <1>10, <2>1, BrowseParts
<1>12. view' = "admin" => QueueLoads(slow') /\ (table' # products' => LiveIn(slow', "load"))
  <2> SUFFICES ASSUME view' = "admin" PROVE QueueLoads(slow') /\ (table' # products' => LiveIn(slow', "load"))
    OBVIOUS
  <2>1. q = slow /\ view = "admin" /\ table' = table /\ products' = products
    BY <1>1, <1>3, <1>4 DEF products
  <2>2. QueueLoads(slow')
    BY <1>2, <1>5, <1>6, <2>1, BrowseParts, LoadsAppend
  <2> QED BY <1>10, <2>1, <2>2, BrowseParts
<1>13. \A f \in fetches' : f.live => f.of = term' /\ view' = "search"
  BY <1>1, BrowseParts
<1>14. /\ \A i \in Item : life'[i] = "unborn" => i \notin table' /\ \A r \in Person : i \notin wishes'[r]
       /\ table' \subseteq Item /\ view' \in View
  BY <1>1, BrowseParts DEF View
<1>15. /\ life' \in [Item -> {"unborn", "here", "gone"}] /\ wishes' \in [Person -> SUBSET Item]
       /\ reviews' \in [Person -> [Item -> Nat]] /\ wishlist' \subseteq Item
       /\ term' \in Term /\ listed' \in [of : Term, loading : BOOLEAN]
       /\ fetches' \subseteq [of : Term, live : BOOLEAN]
       /\ quick' \in Seq(QuickTimer) /\ Len(quick') <= MaxTimers
       /\ \A k \in DOMAIN quick' : life'[quick'[k].what] # "unborn"
       /\ \A r \in Person, i \in Item : reviews'[r][i] <= 1
  BY <1>1, <1>6, BrowseParts
<1>16. user' = Nobody => wishlist' = {}
  BY <1>6
<1> QED BY <1>7, <1>8, <1>9, <1>11, <1>12, <1>13, <1>14, <1>15, <1>16, BrowseFrom

\* What the mock data starts with.
LEMMA MockParts ==
  /\ MockProducts \in [Item -> {"unborn", "here", "gone"}] /\ MockWishes \in [Person -> SUBSET Item]
  /\ NoReviews \in [Person -> [Item -> Nat]]
  /\ \A p \in Person, i \in Item : NoReviews[p][i] <= 1
  /\ \A i \in Item : MockProducts[i] = "unborn" => \A p \in Person : i \notin MockWishes[p]
<1>1. MockProducts \in [Item -> {"unborn", "here", "gone"}]
  BY DEF MockProducts
<1>2. NoReviews \in [Person -> [Item -> Nat]] /\ \A p \in Person, i \in Item : NoReviews[p][i] <= 1
  BY DEF NoReviews
<1>3. MockWishes \in [Person -> SUBSET Item]
  BY BrowseConstants
<1>4. \A i \in Item : MockProducts[i] = "unborn" => \A p \in Person : i \notin MockWishes[p]
  BY BrowseConstants DEF MockProducts
<1> QED BY <1>1, <1>2, <1>3, <1>4

\* The page is loaded again: nothing is due but the fetch of the wish list.
LEMMA ReloadBrowseKeeps == ASSUME BrowseInv, BrowseReload PROVE BrowseInv'
<1> DEFINE x == Timer("wishes", "")
<1>1. SessionTypeOK' /\ SessionAgrees'
  BY BrowseParts, ReloadedSound DEF BrowseReload
<1>2. /\ life' = MockProducts /\ wishes' = MockWishes /\ reviews' = NoReviews /\ wishlist' = {}
      /\ view' = "other" /\ listed' = [of |-> term, loading |-> FALSE] /\ table' = {}
      /\ slow' = (IF user' = Nobody THEN <<>> ELSE <<x>>) /\ quick' = <<>> /\ fetches' = {}
      /\ term' = term
  BY DEF BrowseReload
<1>3. x \in SlowTimer /\ x.kind = "wishes" /\ x.live
  BY TimersAre, TimerIs
<1> HIDE DEF x
<1>4. /\ life' \in [Item -> {"unborn", "here", "gone"}] /\ wishes' \in [Person -> SUBSET Item]
      /\ reviews' \in [Person -> [Item -> Nat]] /\ wishlist' \subseteq Item
      /\ \A p \in Person, i \in Item : reviews'[p][i] <= 1
      /\ \A i \in Item : life'[i] = "unborn" => i \notin table' /\ \A p \in Person : i \notin wishes'[p]
  BY <1>2, MockParts
<1>5. /\ view' \in View /\ view' \notin {"shop", "search", "admin"}
      /\ term' \in Term /\ listed' \in [of : Term, loading : BOOLEAN]
      /\ table' \subseteq Item /\ fetches' \subseteq [of : Term, live : BOOLEAN]
      /\ \A f \in fetches' : f.live => f.of = term' /\ view' = "search"
  BY <1>2, BrowseParts DEF View
<1>6. quick' \in Seq(QuickTimer) /\ Len(quick') <= MaxTimers
      /\ \A k \in DOMAIN quick' : life'[quick'[k].what] # "unborn"
  BY <1>2, BrowseConstants
<1>7. wishlist' = {}
  BY <1>2
<1>8. CASE user' = Nobody
  <2>1. slow' = <<>>
    BY <1>2, <1>8
  <2>2. slow' \in Seq(SlowTimer) /\ Len(slow') <= MaxTimers + 1 /\ DOMAIN slow' = {}
    BY <2>1, BrowseConstants
  <2>3. QueueLives(slow', life') /\ QueueUrl(slow', view', term')
    BY <2>2 DEF QueueLives, QueueUrl
  <2> QED BY <1>1, <1>8, <1>4, <1>5, <1>6, <1>7, <2>2, <2>3, BrowseFrom
<1>9. CASE user' # Nobody
  <2>1. slow' = <<x>>
    BY <1>2, <1>9
  <2>2. slow' \in Seq(SlowTimer) /\ Len(slow') <= MaxTimers + 1 /\ DOMAIN slow' = {1} /\ slow'[1] = x
    BY <1>3, <2>1, BrowseConstants
  <2>3. QueueLives(slow', life') /\ QueueUrl(slow', view', term') /\ Wishing(slow')
    BY <1>3, <2>2 DEF QueueLives, QueueUrl, Wishing
  <2> QED BY <1>1, <1>9, <1>4, <1>5, <1>6, <1>7, <2>2, <2>3, BrowseFrom
<1> QED BY <1>8, <1>9

\* Timers of the hearts and of a review are set.
LEMMA ToggleWishlistKeeps ==
  ASSUME BrowseInv, NEW i \in Item, ToggleWishlist(i)
  PROVE  BrowseInv'
<1> DEFINE x == Timer("toggle", i)
<1>1. /\ life[i] # "unborn" /\ Len(quick) < MaxTimers /\ quick' = Append(quick, x)
      /\ UNCHANGED <<clock, token, stored, user, life, wishes, reviews, wishlist, view, term,
                     listed, table, slow, fetches>>
  BY DEF ToggleWishlist, sessionVars
<1>2. x \in QuickTimer /\ x.what = i
  <2>1. x \in QuickTimer
    BY TimersAre
  <2>2. x.what = i
    BY TimerIs
  <2> QED BY <2>1, <2>2
<1> HIDE DEF x
<1>3. quick' \in Seq(QuickTimer) /\ Len(quick') <= MaxTimers
  BY <1>1, <1>2, BrowseParts, AppendIs, BrowseConstants
<1>4. \A k \in DOMAIN quick' : life'[quick'[k].what] # "unborn"
  <2>1. \A k \in DOMAIN quick' : quick'[k] = x \/ (k \in DOMAIN quick /\ quick'[k] = quick[k])
    BY <1>1, <1>2, BrowseParts, AppendIs
  <2> QED BY <1>1, <1>2, <2>1, BrowseParts
<1>5. SessionTypeOK' /\ SessionAgrees'
  BY <1>1, BrowseParts DEF SessionTypeOK, SessionAgrees, Token
<1>6. products' = products
  BY <1>1 DEF products
<1> QED BY <1>1, <1>3, <1>4, <1>5, <1>6, BrowseParts, BrowseFrom

\* A toggle that fires late is made by whoever is signed in, on their list.
LEMMA ToggledKeeps == ASSUME BrowseInv, Toggled PROVE BrowseInv'
<1>1. /\ quick # <<>> /\ quick' = Tail(quick)
      /\ UNCHANGED <<clock, token, stored, user, life, reviews, view, term, listed, table,
                     slow, fetches>>
  BY DEF Toggled, sessionVars
<1>2. SessionTypeOK' /\ SessionAgrees'
  BY <1>1, BrowseParts DEF SessionTypeOK, SessionAgrees, Token
<1>3. quick' \in Seq(QuickTimer) /\ Len(quick') <= MaxTimers
      /\ \A k \in DOMAIN quick' : life'[quick'[k].what] # "unborn"
  <2>1. quick \in Seq(QuickTimer) /\ Len(quick) <= MaxTimers /\ Len(quick) \in Nat
    BY BrowseParts
  <2>2. quick' \in Seq(QuickTimer) /\ Len(quick') = Len(quick) - 1
    BY <1>1, <2>1, TailIs
  <2>3. \A k \in DOMAIN quick' : k + 1 \in DOMAIN quick /\ quick'[k] = quick[k + 1]
    BY <1>1, <2>1, TailIs
  <2>4. Len(quick') <= MaxTimers
    BY <2>1, <2>2, BrowseConstants
  <2> QED BY <1>1, <2>2, <2>3, <2>4, BrowseParts
<1>4. products' = products
  BY <1>1 DEF products
<1> DEFINE i == Head(quick).what
           w == Flip(wishes[stored], i)
<1>5. i \in Item /\ life[i] # "unborn"
  <2>1. quick \in Seq(QuickTimer)
    BY BrowseParts
  <2>2. Head(quick) = quick[1] /\ 1 \in DOMAIN quick /\ Head(quick) \in QuickTimer
    BY <1>1, <2>1, TailIs
  <2> QED BY <2>2, BrowseParts DEF QuickTimer
<1>6. CASE stored = Nobody
  <2>1. UNCHANGED <<wishes, wishlist>>
    BY <1>6 DEF Toggled
  <2> QED BY <1>1, <1>2, <1>3, <1>4, <2>1, BrowseParts, BrowseFrom
<1>7. CASE stored # Nobody
  <2>1. wishes' = [wishes EXCEPT ![stored] = w] /\ wishlist' = w
    BY <1>7 DEF Toggled
  <2>2. stored = user /\ user \in Person /\ wishes \in [Person -> SUBSET Item]
    BY <1>7, BrowseParts
  <2>3. w \subseteq Item /\ \A j \in w : j \in wishes[stored] \/ j = i
    BY <1>5, <2>2 DEF Flip
  <2> HIDE DEF w, i
  <2>4. wishes' \in [Person -> SUBSET Item] /\ wishlist' \subseteq Item
    BY <2>1, <2>2, <2>3
  <2>5. user' # Nobody => wishes'[user'] \cap products' \subseteq wishlist' /\ wishlist' \subseteq wishes'[user']
    BY <1>1, <2>1, <2>2
  <2>6. \A j \in Item : life'[j] = "unborn" => j \notin table' /\ \A p \in Person : j \notin wishes'[p]
    BY <1>1, <1>5, <2>1, <2>2, <2>3, BrowseParts
  <2>7. user' # Nobody
    BY <1>1, <1>7, <2>2
  <2> QED BY <1>1, <1>2, <1>3, <1>4, <2>4, <2>5, <2>6, <2>7, BrowseParts, BrowseFrom
<1> QED BY <1>6, <1>7

\* A review, or what the admin asks for, waits behind its timer.
LEMMA AskedKeeps ==
  ASSUME BrowseInv, NEW x \in SlowTimer, x.live, x.kind \in {"review", "create", "delete"},
         x.kind = "create" => life[x.what] = "unborn", x.kind = "delete" => life[x.what] # "unborn",
         Len(slow) < MaxTimers, slow' = Append(slow, x),
         UNCHANGED <<clock, token, stored, user, life, wishes, reviews, wishlist, view, term,
                     listed, table, quick, fetches>>
  PROVE  BrowseInv'
<1>1. slow \in Seq(SlowTimer) /\ Len(slow) \in Nat
  BY BrowseParts
<1>2. slow' \in Seq(SlowTimer) /\ Len(slow') = Len(slow) + 1
  BY <1>1, AppendIs
<1>3. Len(slow') <= MaxTimers + 1
  BY <1>1, <1>2, BrowseConstants
<1>4. QueueLives(slow', life') /\ QueueUrl(slow', view', term')
  BY <1>1, BrowseParts, LivesAppend, UrlAppend
<1>5. Wishing(slow') <=> Wishing(slow)
  BY <1>1, WishingAppend
<1>6. ASSUME NEW kd \in {"shop", "load"} PROVE LiveIn(slow', kd) <=> LiveIn(slow, kd)
  BY <1>1, LiveInAppend
<1>7. SessionTypeOK' /\ SessionAgrees'
  BY BrowseParts DEF SessionTypeOK, SessionAgrees, Token
<1>8. products' = products
  BY DEF products
<1>9. view' = "admin" => QueueLoads(slow') /\ (table' # products' => LiveIn(slow', "load"))
  <2>1. view' = "admin" => QueueLoads(slow')
    BY <1>1, BrowseParts, LoadsAppend
  <2> QED BY <1>6, <1>8, <2>1, BrowseParts
<1>10. view' \in {"shop", "search"} /\ ~listed'.loading /\ ~LiveIn(slow', "shop") => listed'.of = term'
  BY <1>6, BrowseParts
<1> QED BY <1>2, <1>3, <1>4, <1>5, <1>7, <1>8, <1>9, <1>10, BrowseParts, BrowseFrom

LEMMA SubmitReviewKeeps ==
  ASSUME BrowseInv, NEW i \in Item, SubmitReview(i)
  PROVE  BrowseInv'
<1> DEFINE x == Timer("review", i)
<1>1. x \in SlowTimer /\ x.kind = "review" /\ x.live
  BY TimersAre, TimerIs
<1>2. Len(slow) < MaxTimers /\ slow' = Append(slow, x)
      /\ UNCHANGED <<clock, token, stored, user, life, wishes, reviews, wishlist, view, term,
                     listed, table, quick, fetches>>
  BY DEF SubmitReview, sessionVars
<1> HIDE DEF x
<1> QED BY <1>1, <1>2, AskedKeeps

LEMMA AdminAsksKeeps ==
  ASSUME BrowseInv, NEW kd \in {"create", "delete"}, NEW i \in Item, AdminAsks(kd, i)
  PROVE  BrowseInv'
<1> DEFINE x == Timer(kd, i)
<1>1. x \in SlowTimer /\ x.kind = kd /\ x.what = i /\ x.live
  <2>1. x \in SlowTimer
    BY TimersAre
  <2>2. x.kind = kd /\ x.what = i /\ x.live
    BY TimerIs
  <2> QED BY <2>1, <2>2
<1>2. Len(slow) < MaxTimers /\ slow' = Append(slow, x)
      /\ UNCHANGED <<clock, token, stored, user, life, wishes, reviews, wishlist, view, term,
                     listed, table, quick, fetches>>
  BY DEF AdminAsks, sessionVars
<1>3. (kd = "create" => life[i] = "unborn") /\ (kd = "delete" => life[i] # "unborn")
  BY BrowseParts DEF AdminAsks
<1> HIDE DEF x
<1> QED BY <1>1, <1>2, <1>3, AskedKeeps

\* A search answers: only the last one is live, and it is the URL's.
LEMMA SearchAnsweredKeeps ==
  ASSUME BrowseInv, NEW f, SearchAnswered(f)
  PROVE  BrowseInv'
<1>1. /\ f \in fetches /\ fetches' = fetches \ {f}
      /\ listed' = (IF f.live THEN [of |-> f.of, loading |-> FALSE] ELSE listed)
      /\ UNCHANGED <<clock, token, stored, user, life, wishes, reviews, wishlist, view, term,
                     table, slow, quick>>
  BY DEF SearchAnswered, sessionVars
<1>2. SessionTypeOK' /\ SessionAgrees'
  BY <1>1, BrowseParts DEF SessionTypeOK, SessionAgrees, Token
<1>3. products' = products
  BY <1>1 DEF products
<1>4. f \in [of : Term, live : BOOLEAN] /\ (f.live => f.of = term)
  BY <1>1, BrowseParts
<1>5. listed' \in [of : Term, loading : BOOLEAN]
  BY <1>1, <1>4, BrowseParts
<1>6. view' \in {"shop", "search"} /\ ~listed'.loading /\ ~LiveIn(slow', "shop") => listed'.of = term'
  <2>1. CASE f.live
    BY <1>1, <1>4, <2>1
  <2>2. CASE ~f.live
    BY <1>1, <2>2, BrowseParts
  <2> QED BY <2>1, <2>2
<1>7. fetches' \subseteq [of : Term, live : BOOLEAN] /\ \A g \in fetches' : g.live => g.of = term' /\ view' = "search"
  BY <1>1, BrowseParts
<1> QED BY <1>1, <1>2, <1>3, <1>5, <1>6, <1>7, BrowseParts, BrowseFrom

LEMMA UrlElsewhere ==
  ASSUME NEW q, NEW v, NEW t, NEW u, QueueUrl(q, v, t), v # "shop"
  PROVE  QueueUrl(q, v, u)
BY DEF QueueUrl

\* Another page, or the same with other filters: what it waits for comes last.
LEMMA OpenKeeps ==
  ASSUME BrowseInv, NEW v \in View, NEW t \in Term, Open(v, t)
  PROVE  BrowseInv'
<1> DEFINE q == IF v = view THEN slow ELSE Unmounted(slow)
           x == IF v = "shop" THEN Timer("shop", t) ELSE Timer("load", "")
           dead == {[f EXCEPT !.live = FALSE] : f \in fetches}
<1>1. /\ v # view \/ v \in {"shop", "search"}
      /\ Len(slow) < MaxTimers /\ view' = v /\ term' = t /\ table' = {}
      /\ listed' = (IF v \in {"shop", "search"}
                    THEN [of |-> IF v = view THEN listed.of ELSE t, loading |-> TRUE] ELSE listed)
      /\ slow' = (IF v \in {"shop", "admin"} THEN Append(q, x) ELSE q)
      /\ fetches' = (IF v = "search" THEN dead \cup {[of |-> t, live |-> TRUE]} ELSE dead)
      /\ UNCHANGED <<clock, token, stored, user, life, wishes, reviews, wishlist, quick>>
  BY DEF Open, sessionVars
<1>2. fetches' \subseteq [of : Term, live : BOOLEAN] /\ \A f \in fetches' : f.live => f.of = term' /\ view' = "search"
  <2>1. \A d \in dead : d \in [of : Term, live : BOOLEAN] /\ ~d.live
    BY BrowseParts
  <2>2. fetches' = (IF v = "search" THEN dead \cup {[of |-> t, live |-> TRUE]} ELSE dead) /\ view' = v /\ term' = t
    BY <1>1
  <2> HIDE DEF dead
  <2>3. ASSUME NEW f \in fetches' PROVE f \in [of : Term, live : BOOLEAN] /\ (f.live => f.of = term' /\ view' = "search")
    <3>1. CASE f \in dead
      BY <2>1, <3>1
    <3>2. CASE f \notin dead
      <4>1. v = "search" /\ f = [of |-> t, live |-> TRUE]
        BY <2>2, <2>3, <3>2
      <4> QED BY <2>2, <4>1
    <3> QED BY <3>1, <3>2
  <2> QED BY <2>3
<1>3. /\ x \in SlowTimer /\ x.live
      /\ v = "shop" => x.kind = "shop" /\ x.what = t
      /\ v # "shop" => x.kind = "load"
  <2>1. CASE v = "shop"
    <3>1. x = Timer("shop", t)
      BY <2>1
    <3>2. Timer("shop", t) \in SlowTimer
      BY TimersAre
    <3>3. Timer("shop", t).kind = "shop" /\ Timer("shop", t).what = t /\ Timer("shop", t).live
      BY TimerIs
    <3> HIDE DEF x
    <3> QED BY <2>1, <3>1, <3>2, <3>3
  <2>2. CASE v # "shop"
    <3>1. x = Timer("load", "")
      BY <2>2
    <3> QED BY <2>2, <3>1, TimersAre, TimerIs
  <2> QED BY <2>1, <2>2
<1>4. /\ slow \in Seq(SlowTimer) /\ Len(slow) \in Nat
      /\ q \in Seq(SlowTimer) /\ Len(q) = Len(slow) /\ QueueLives(q, life)
      /\ Wishing(q) <=> Wishing(slow)
  BY BrowseParts, UnmountedIs, LivesUnmounted, WishingUnmounted
<1>5. v = view => q = slow
  OBVIOUS
<1>6. v # view => \A u : QueueUrl(q, v, u)
  BY BrowseParts, UrlUnmounted
<1> HIDE DEF q, x, dead
<1>7. slow' \in Seq(SlowTimer) /\ Len(slow') <= MaxTimers + 1
  BY <1>1, <1>3, <1>4, AppendIs, BrowseConstants
<1>8. QueueLives(slow', life')
  <2>1. QueueLives(Append(q, x), life)
    BY <1>3, <1>4, LivesAppend
  <2> QED BY <1>1, <1>4, <2>1
<1>9. QueueUrl(slow', view', term')
  <2>1. \E u : QueueUrl(q, v, u)
    <3>1. CASE v = view
      <4>1. QueueUrl(slow, view, term)
        BY BrowseParts
      <4> QED BY <1>5, <3>1, <4>1
    <3> QED BY <1>6, <3>1
  <2>2. v # "shop" => QueueUrl(q, v, t)
    BY <2>1, UrlElsewhere
  <2>3. QueueUrl(Append(q, x), v, t)
    BY <1>3, <1>4, <2>1, <2>2, UrlAppend
  <2> QED BY <1>1, <2>2, <2>3
<1>10. Wishing(slow) => Wishing(slow')
  <2>1. Wishing(q) => Wishing(Append(q, x))
    BY <1>3, <1>4, WishingAppend
  <2> QED BY <1>1, <1>4, <2>1
<1>11. view' = "admin" => QueueLoads(slow') /\ LiveIn(slow', "load")
  <2> SUFFICES ASSUME v = "admin" PROVE QueueLoads(slow') /\ LiveIn(slow', "load")
    BY <1>1
  <2>1. slow' = Append(q, x) /\ x.kind = "load"
    BY <1>1, <1>3
  <2> QED BY <1>3, <1>4, <2>1, LoadsAppend, LiveInAppend
<1>12. listed' \in [of : Term, loading : BOOLEAN] /\ (view' \in {"shop", "search"} => listed'.loading)
  <2>1. listed \in [of : Term, loading : BOOLEAN]
    BY BrowseParts
  <2> QED BY <1>1, <2>1
<1>13. SessionTypeOK' /\ SessionAgrees'
  BY <1>1, BrowseParts DEF SessionTypeOK, SessionAgrees, Token
<1>14. products' = products
  BY <1>1 DEF products
<1>15. table' \subseteq Item /\ \A j \in Item : life'[j] = "unborn" => j \notin table' /\ \A p \in Person : j \notin wishes'[p]
  BY <1>1, BrowseParts
<1> QED BY <1>1, <1>2, <1>7, <1>8, <1>9, <1>10, <1>11, <1>12, <1>13, <1>14, <1>15,
           BrowseParts, BrowseFrom

\* A 350 ms timer fires, in the order they were set.
LEMMA FiresKeeps == ASSUME BrowseInv, Fires PROVE BrowseInv'
<1> DEFINE t == Head(slow)
           q == Tail(slow)
           x == Timer("load", "")
           born == t.kind = "create"
           dies == t.kind = "delete" /\ t.what \in products
<1>1. slow # <<>> /\ slow \in Seq(SlowTimer) /\ Len(slow) \in Nat /\ Len(slow) <= MaxTimers + 1
  BY BrowseParts DEF Fires
<1>2. /\ q \in Seq(SlowTimer) /\ Len(q) = Len(slow) - 1 /\ t \in SlowTimer
      /\ t = slow[1] /\ 1 \in DOMAIN slow
      /\ \A k \in DOMAIN q : k + 1 \in DOMAIN slow /\ q[k] = slow[k + 1] /\ k + 1 > 1
  BY <1>1, TailIs
<1>3. /\ t.kind \in {"wishes", "load", "review", "create", "delete", "shop"} /\ t.live \in BOOLEAN
      /\ t.kind \in {"review", "create", "delete"} => t.what \in Item
      /\ t.kind = "shop" => t.what \in Term
  BY <1>2 DEF SlowTimer
<1>4. x \in SlowTimer /\ x.kind = "load" /\ x.live
  BY TimersAre, TimerIs
<1>5. /\ wishlist' = (IF t.kind = "wishes" /\ stored # Nobody THEN wishes[stored] \cap products ELSE wishlist)
      /\ (IF t.kind = "review" THEN Reviewed(t.what) ELSE UNCHANGED reviews)
      /\ listed' = (IF t.kind = "shop" /\ t.live THEN [of |-> t.what, loading |-> FALSE] ELSE listed)
      /\ life' = (CASE born -> [life EXCEPT ![t.what] = "here"]
                    [] dies -> [life EXCEPT ![t.what] = "gone"]
                    [] OTHER -> life)
      /\ table' = (IF t.kind = "load" /\ t.live THEN products ELSE table)
      /\ slow' = (IF born \/ dies THEN LoadAgain(q, t) ELSE q)
      /\ UNCHANGED <<clock, token, stored, user, wishes, view, term, quick, fetches>>
  BY DEF Fires, sessionVars
<1>6. /\ life \in [Item -> {"unborn", "here", "gone"}] /\ QueueLives(slow, life)
      /\ QueueUrl(slow, view, term) /\ (view = "admin" => QueueLoads(slow))
  BY BrowseParts
<1>7. slow' = q \/ (slow' = Append(q, x) /\ t.live /\ (born \/ dies))
  BY <1>5 DEF LoadAgain, x
<1>8. (born \/ dies) /\ t.live => slow' = Append(q, x)
  BY <1>5 DEF LoadAgain, x
<1>9. born => life[t.what] # "gone"
  BY <1>2, <1>6 DEF QueueLives
<1>10. born => ~dies
  OBVIOUS
<1>11. /\ life' \in [Item -> {"unborn", "here", "gone"}]
       /\ ~born /\ ~dies => life' = life
       /\ \A j \in Item : life'[j] = "unborn" => life[j] = "unborn"
       /\ \A j \in Item : life'[j] = "here" => life[j] = "here" \/ (born /\ j = t.what /\ life[j] = "unborn")
       /\ \A j \in Item : life'[j] = "gone" => life[j] = "gone" \/ (dies /\ j = t.what)
  <2>1. CASE born
    <3>1. life' = [life EXCEPT ![t.what] = "here"]
      BY <1>5, <2>1
    <3> QED BY <1>3, <1>6, <1>9, <2>1, <3>1
  <2>2. CASE dies
    <3>1. life' = [life EXCEPT ![t.what] = "gone"]
      BY <1>5, <1>10, <2>2
    <3> QED BY <1>3, <1>6, <2>2, <3>1
  <2>3. CASE ~born /\ ~dies
    BY <1>5, <1>6, <2>3
  <2> QED BY <2>1, <2>2, <2>3
<1>12. QueueLives(q, life')
  <2>1. QueueLives(q, life)
    BY <1>1, <1>6, LivesTail
  <2>2. ASSUME NEW k \in DOMAIN q, q[k].kind = "create" PROVE life'[q[k].what] # "gone"
    <3>1. q[k] \in SlowTimer
      BY <1>2
    <3>2. q[k].what \in Item
      BY <2>2, <3>1 DEF SlowTimer
    <3>3. life[q[k].what] # "gone"
      BY <2>1, <2>2 DEF QueueLives
    <3>4. ~(dies /\ q[k].what = t.what)
      <4>1. k + 1 \in DOMAIN slow /\ q[k] = slow[k + 1] /\ k + 1 > 1 /\ k \in Nat
        BY <1>2
      <4>2. ASSUME dies, q[k].what = t.what PROVE k + 1 < 1
        BY <1>2, <1>6, <2>2, <4>1, <4>2 DEF QueueLives
      <4> QED BY <4>1, <4>2
    <3> QED BY <1>11, <3>2, <3>3, <3>4
  <2>3. ASSUME NEW k \in DOMAIN q, q[k].kind = "delete" PROVE life'[q[k].what] # "unborn"
    <3>1. q[k] \in SlowTimer
      BY <1>2
    <3>2. q[k].what \in Item
      BY <2>3, <3>1 DEF SlowTimer
    <3>3. life[q[k].what] # "unborn"
      BY <2>1, <2>3 DEF QueueLives
    <3> QED BY <1>11, <3>2, <3>3
  <2> QED BY <2>1, <2>2, <2>3 DEF QueueLives
<1> HIDE DEF t, q, x
<1>13. slow' \in Seq(SlowTimer) /\ Len(slow') <= MaxTimers + 1
  <2>1. Append(q, x) \in Seq(SlowTimer) /\ Len(Append(q, x)) = Len(q) + 1
    BY <1>2, <1>4, AppendIs
  <2>2. slow' \in Seq(SlowTimer)
    BY <1>2, <1>7, <2>1
  <2>3. Len(slow') <= Len(q) + 1 /\ Len(q) \in Nat
    BY <1>2, <1>7, <2>1
  <2>4. Len(q) <= MaxTimers
    BY <1>1, <1>2, BrowseConstants
  <2> QED BY <2>2, <2>3, <2>4, BrowseConstants
<1>14. QueueLives(slow', life')
  <2>1. QueueLives(Append(q, x), life')
    BY <1>2, <1>4, <1>12, LivesAppend
  <2> QED BY <1>7, <1>12, <2>1
<1>15. QueueUrl(slow', view', term')
  <2>1. QueueUrl(q, view, term)
    BY <1>1, <1>6, UrlTail DEF q
  <2>2. QueueUrl(Append(q, x), view, term)
    BY <1>2, <1>4, <2>1, UrlAppend
  <2> QED BY <1>5, <1>7, <2>1, <2>2
<1>16. ASSUME NEW kd \in {"shop", "load"}, LiveIn(q, kd) PROVE LiveIn(slow', kd)
  <2>1. LiveIn(Append(q, x), kd)
    BY <1>2, <1>4, <1>16, LiveInAppend
  <2> QED BY <1>7, <1>16, <2>1
<1>17. t.kind # "wishes" /\ Wishing(slow) => Wishing(slow')
  <2>1. t.kind # "wishes" /\ Wishing(slow) => Wishing(q)
    BY <1>1, WishingTail DEF t, q
  <2>2. Wishing(q) => Wishing(Append(q, x))
    BY <1>2, <1>4, WishingAppend
  <2> QED BY <1>7, <2>1, <2>2
<1>18. user' = Nobody => wishlist' = {}
  BY <1>5, BrowseParts
<1>19. user' # Nobody /\ ~Wishing(slow') =>
         wishes'[user'] \cap products' \subseteq wishlist' /\ wishlist' \subseteq wishes'[user']
  <2> SUFFICES ASSUME user' # Nobody, ~Wishing(slow')
               PROVE  wishes'[user'] \cap products' \subseteq wishlist' /\ wishlist' \subseteq wishes'[user']
    OBVIOUS
  <2>1. user' = user /\ stored = user /\ user \in Person /\ wishes' = wishes
    BY <1>5, BrowseParts
  <2>2. CASE t.kind = "wishes"
    <3>1. wishlist' = wishes[user] \cap products
      BY <1>5, <2>1, <2>2
    <3>2. products' = products
      BY <1>11, <2>2 DEF products
    <3> QED BY <2>1, <3>1, <3>2
  <2>3. CASE t.kind # "wishes"
    <3>1. wishlist' = wishlist
      BY <1>5, <2>3
    <3>2. wishes[user] \cap products \subseteq wishlist /\ wishlist \subseteq wishes[user]
      BY <1>17, <2>1, <2>3, BrowseParts
    <3>3. \A j \in Item : life[j] = "unborn" => j \notin wishes[user]
      BY <2>1, BrowseParts
    <3>4. wishes[user] \cap products' \subseteq products
      BY <1>11, <3>3 DEF products
    <3> QED BY <2>1, <3>1, <3>2, <3>4
  <2> QED BY <2>2, <2>3
<1>20. reviews' \in [Person -> [Item -> Nat]] /\ \A p \in Person, j \in Item : reviews'[p][j] <= 1
  <2>1. reviews \in [Person -> [Item -> Nat]] /\ \A p \in Person, j \in Item : reviews[p][j] <= 1
    BY BrowseParts
  <2>2. CASE UNCHANGED reviews
    BY <2>1, <2>2
  <2>3. CASE /\ stored # Nobody /\ t.what \in products /\ ~(reviews[stored][t.what] > 0)
             /\ reviews' = [reviews EXCEPT ![stored] = [reviews[stored] EXCEPT ![t.what] = reviews[stored][t.what] + 1]]
    <3>1. stored \in Person /\ t.what \in Item
      BY <2>3, BrowseParts DEF products
    <3>2. reviews[stored][t.what] = 0
      BY <2>1, <2>3, <3>1
    <3> DEFINE r == [reviews[stored] EXCEPT ![t.what] = 1]
    <3>3. reviews' = [reviews EXCEPT ![stored] = r]
      BY <2>3, <3>2
    <3>4. r \in [Item -> Nat] /\ \A j \in Item : r[j] <= 1
      BY <2>1, <3>1
    <3> HIDE DEF r
    <3> QED BY <2>1, <3>1, <3>3, <3>4
  <2> QED BY <1>5, <2>2, <2>3 DEF Reviewed
<1>21. listed' \in [of : Term, loading : BOOLEAN]
  BY <1>3, <1>5, BrowseParts
<1>22. view' \in {"shop", "search"} /\ ~listed'.loading /\ ~LiveIn(slow', "shop") => listed'.of = term'
  <2>1. CASE t.kind = "shop" /\ t.live
    <3>1. t.what = term \/ LiveIn(q, "shop")
      <4>1. t.what = term \/ \E j \in DOMAIN slow : j > 1 /\ slow[j].kind = "shop" /\ slow[j].live
        BY <1>2, <1>6, <2>1 DEF QueueUrl
      <4>2. ASSUME NEW j \in DOMAIN slow, j > 1, slow[j].kind = "shop", slow[j].live PROVE LiveIn(q, "shop")
        <5>1. j - 1 \in DOMAIN q /\ q[j - 1] = slow[j]
          BY <1>1, <4>2, TailIs DEF q
        <5> QED BY <4>2, <5>1 DEF LiveIn
      <4> QED BY <4>1, <4>2
    <3>2. listed'.of = t.what /\ term' = term
      BY <1>5, <2>1
    <3> QED BY <1>16, <3>1, <3>2
  <2>2. CASE ~(t.kind = "shop" /\ t.live)
    <3>1. listed' = listed /\ view' = view /\ term' = term
      BY <1>5, <2>2
    <3>2. LiveIn(slow, "shop") => LiveIn(q, "shop")
      BY <1>1, <2>2, LiveInTail DEF t, q
    <3> QED BY <1>16, <3>1, <3>2, BrowseParts
  <2> QED BY <2>1, <2>2
<1>23. table' \subseteq Item /\ \A j \in Item : life'[j] = "unborn" => j \notin table' /\ \A p \in Person : j \notin wishes'[p]
  BY <1>5, <1>11, BrowseParts DEF products
<1>24. \A k \in DOMAIN quick' : life'[quick'[k].what] # "unborn"
  <2>1. quick' = quick /\ \A k \in DOMAIN quick : quick[k] \in QuickTimer
    BY <1>5, BrowseParts
  <2>2. \A k \in DOMAIN quick : quick[k].what \in Item
    BY <2>1 DEF QuickTimer
  <2> QED BY <1>11, <2>1, <2>2, BrowseParts
<1>25. view' = "admin" => QueueLoads(slow')
  <2>1. view = "admin" => QueueLoads(q)
    BY <1>1, <1>6, LoadsTail DEF q
  <2>2. QueueLoads(q) => QueueLoads(Append(q, x))
    BY <1>2, <1>4, LoadsAppend
  <2> QED BY <1>5, <1>7, <2>1, <2>2
<1>26. ASSUME view' = "admin", table' # products' PROVE LiveIn(slow', "load")
  <2>1. view = "admin"
    BY <1>5, <1>26
  <2>2. CASE (born \/ dies) /\ t.live
    <3>1. slow' = Append(q, x)
      BY <1>8, <2>2
    <3> QED BY <1>2, <1>4, <3>1, LiveInAppend
  <2>3. CASE (born \/ dies) /\ ~t.live
    <3>1. PICK j \in DOMAIN slow : j > 1 /\ slow[j].kind = "load" /\ slow[j].live
      BY <1>2, <1>6, <2>1, <2>3 DEF QueueLoads
    <3>2. j - 1 \in DOMAIN q /\ q[j - 1] = slow[j]
      BY <1>1, <3>1, TailIs DEF q
    <3>3. LiveIn(q, "load")
      BY <3>1, <3>2 DEF LiveIn
    <3> QED BY <1>16, <3>3
  <2>4. CASE ~(born \/ dies)
    <3>1. products' = products
      BY <1>11, <2>4 DEF products
    <3>2. ~(t.kind = "load" /\ t.live) /\ table' = table
      BY <1>5, <1>26, <3>1
    <3>3. LiveIn(slow, "load")
      BY <1>26, <2>1, <3>1, <3>2, BrowseParts
    <3>4. LiveIn(q, "load")
      BY <1>1, <3>2, <3>3, LiveInTail DEF t, q
    <3> QED BY <1>16, <3>4
  <2> QED BY <2>2, <2>3, <2>4
<1>27. SessionTypeOK' /\ SessionAgrees'
  BY <1>5, BrowseParts DEF SessionTypeOK, SessionAgrees, Token
<1>28. /\ wishes' \in [Person -> SUBSET Item] /\ wishlist' \subseteq Item
       /\ view' \in View /\ term' \in Term /\ fetches' \subseteq [of : Term, live : BOOLEAN]
       /\ quick' \in Seq(QuickTimer) /\ Len(quick') <= MaxTimers
       /\ \A f \in fetches' : f.live => f.of = term' /\ view' = "search"
  BY <1>5, BrowseParts DEF products
<1> QED BY <1>11, <1>13, <1>14, <1>15, <1>18, <1>19, <1>20, <1>21, <1>22, <1>23, <1>24, <1>25,
           <1>26, <1>27, <1>28, BrowseFrom

LEMMA BrowseInvInitially == SessionInit /\ BrowseInit => BrowseInv
<1> SUFFICES ASSUME SessionInit, BrowseInit PROVE BrowseInv
  OBVIOUS
<1>1. SessionTypeOK /\ SessionAgrees /\ user = Nobody
  BY NoTokenIsToken, SessionConstants DEF SessionInit, SessionTypeOK, SessionAgrees, NoToken
<1>2. slow = <<>> /\ quick = <<>> /\ DOMAIN slow = {} /\ DOMAIN quick = {}
  BY DEF BrowseInit
<1>3. /\ life = MockProducts /\ wishes = MockWishes /\ reviews = NoReviews /\ wishlist = {}
      /\ view = "other" /\ term \in Term /\ listed = [of |-> term, loading |-> FALSE]
      /\ table = {} /\ fetches = {}
  BY DEF BrowseInit
<1>4. BrowseTypeOK
  BY <1>2, <1>3, MockParts, BrowseConstants DEF BrowseTypeOK, View
<1>5. slow \in Seq(SlowTimer) /\ quick \in Seq(QuickTimer)
  BY <1>2
<1>6. LivesInOrder /\ WaitsForUrl /\ LoadsFollow
  BY <1>2, <1>3, MockParts DEF LivesInOrder, WaitsForUrl, LoadsFollow
<1>7. WishlistIsMine /\ OneReviewEach /\ ListedAnswersUrl /\ TableSettles
  BY <1>1, <1>2, <1>3, MockParts DEF WishlistIsMine, OneReviewEach, ListedAnswersUrl, TableSettles
<1> QED BY <1>1, <1>3, <1>4, <1>5, <1>6, <1>7 DEF BrowseInv, BrowseSound

LEMMA BrowseInvKept == BrowseInv /\ [BrowseNext]_<<sessionVars, browseVars>> => BrowseInv'
<1> SUFFICES ASSUME BrowseInv, [BrowseNext]_<<sessionVars, browseVars>> PROVE BrowseInv'
  OBVIOUS
<1>1. ASSUME NEW p \in Person, SomeoneSignsIn(p) PROVE BrowseInv'
  <2>1. SessionTypeOK' /\ SessionAgrees' /\ user' = p
    <3>1. clock \in 0..MaxClock /\ UNCHANGED clock
      BY <1>1, BrowseParts DEF SomeoneSignsIn, Hears, SessionTypeOK
    <3>2. token' = IssueToken(p) /\ stored' = p /\ user' = p
      BY <1>1 DEF SomeoneSignsIn, SignedIn
    <3>3. IssueToken(p) \in Token /\ IssueToken(p).who = p
      BY <3>1 DEF IssueToken, Token
    <3> QED BY <3>1, <3>2, <3>3 DEF SessionTypeOK, SessionAgrees, Token
  <2> QED BY <1>1, <2>1, HearsKeeps DEF SomeoneSignsIn
<1>2. CASE TheySignOut \/ TheyExpire
  <2>1. token' = NoToken /\ stored' = Nobody /\ user' = Nobody /\ Hears(Nobody)
    BY <1>2 DEF TheySignOut, TheyExpire, SignedOut, SessionExpired
  <2>2. clock' \in 0..MaxClock
    BY <2>1, BrowseParts DEF Hears, SessionTypeOK
  <2>3. SessionTypeOK' /\ SessionAgrees'
    BY <2>1, <2>2, NoTokenIsToken DEF SessionTypeOK, SessionAgrees, Token, NoToken
  <2> QED BY <2>1, <2>3, HearsKeeps
<1>3. CASE HearsNext
  BY <1>1, <1>2, <1>3, ReloadBrowseKeeps DEF HearsNext
<1>4. CASE ListNext
  BY <1>4, OpenKeeps, SearchAnsweredKeeps DEF ListNext, View
<1>5. CASE CatalogueNext
  <2>1. CASE Open("admin", term)
    BY <2>1, BrowseParts, OpenKeeps DEF View
  <2> QED BY <1>5, <2>1, ToggledKeeps, ToggleWishlistKeeps, SubmitReviewKeeps, AdminAsksKeeps
      DEF CatalogueNext
<1>6. CASE Open("other", term)
  BY <1>6, BrowseParts, OpenKeeps DEF View
<1>7. CASE UNCHANGED <<sessionVars, browseVars>>
  <2>1. SessionTypeOK' /\ SessionAgrees'
    BY <1>7, BrowseParts DEF sessionVars, SessionTypeOK, SessionAgrees, Token
  <2>2. products' = products
    BY <1>7 DEF browseVars, products
  <2> QED BY <1>7, <2>1, <2>2, BrowseParts, BrowseFrom DEF sessionVars, browseVars
<1> QED BY <1>3, <1>4, <1>5, <1>6, <1>7, FiresKeeps DEF BrowseNext

\* BrowseInv is inductive, for any products, filters, mock data and timers.
THEOREM BrowseAlways == BrowseSpec => []BrowseInv
BY BrowseInvInitially, BrowseInvKept, PTL DEF BrowseSpec

\* Whatever was in flight or behind a timer when the person, the URL or the
\* catalogue changed, the wish list shown is the person's, nobody reviews a product
\* twice, the products listed answer the URL and the admin's table settles.
THEOREM PagesSettle == BrowseSpec => []BrowseSound
<1>1. BrowseInv => BrowseSound
  BY DEF BrowseInv
<1> QED BY <1>1, BrowseAlways, PTL

-----------------------------------------------------------------------------
(* The shop as it is checked: every part, one at a time. *)

\* A part that has not moved has its types, and shows nothing.
LEMMA OrdersAtFirst == OrdersInit => OrdersTypeOK /\ TableSound /\ ShownViaMode
<1> SUFFICES ASSUME OrdersInit PROVE OrdersTypeOK /\ TableSound /\ ShownViaMode
  OBVIOUS
<1>1. Page("shop") \in Location
  BY PageIsLocation DEF PageName
<1>2. seq \in 0..MaxSeq
  BY SeededIsTable, OrdersConstants DEF OrdersInit
<1>3. OrdersTypeOK
  <2>1. orders \subseteq Order /\ mode \in Mode /\ cart \in [Product -> 0..Stock]
    BY SeededIsTable, EmptyIsCart DEF OrdersInit
  <2>2. route \in Location /\ back \in Location /\ sent \in 0..MaxCalls
    BY <1>1, OrdersConstants DEF OrdersInit
  <2>3. shown.via = "none" /\ shown.rows = {} /\ placing = FALSE
    BY DEF OrdersInit, NotShown
  <2> QED BY <1>2, <2>1, <2>2, <2>3 DEF OrdersTypeOK, Location
<1>4. TableSound
  BY SeededIsTable DEF OrdersInit, TableSound
<1>5. ShownViaMode
  <2>1. shown.rows = {} /\ \A s \in Slot : calls[s].live = FALSE
    BY DEF OrdersInit, NotShown, Idle
  <2> QED BY <2>1 DEF ShownViaMode
<1> QED BY <1>3, <1>4, <1>5

LEMMA BrowseAtFirst ==
  BrowseInit => BrowseTypeOK /\ OneReviewEach /\ ListedAnswersUrl /\ TableSettles
<1> SUFFICES ASSUME BrowseInit PROVE BrowseTypeOK /\ OneReviewEach /\ ListedAnswersUrl /\ TableSettles
  OBVIOUS
<1>1. slow = <<>> /\ quick = <<>> /\ DOMAIN slow = {} /\ DOMAIN quick = {}
  BY DEF BrowseInit
<1>2. /\ life = MockProducts /\ wishes = MockWishes /\ reviews = NoReviews /\ wishlist = {}
      /\ view = "other" /\ term \in Term /\ listed = [of |-> term, loading |-> FALSE]
      /\ table = {} /\ fetches = {}
  BY DEF BrowseInit
<1>3. BrowseTypeOK
  BY <1>1, <1>2, MockParts, BrowseConstants DEF BrowseTypeOK, View
<1>4. OneReviewEach /\ ListedAnswersUrl /\ TableSettles
  BY <1>1, <1>2, MockParts DEF OneReviewEach, ListedAnswersUrl, TableSettles
<1> QED BY <1>3, <1>4

\* The parts that are not used stay as they were.
LEMMA OrdersInitKept == OrdersInit /\ UNCHANGED orderVars => OrdersInit'
BY DEF OrdersInit, orderVars

LEMMA BrowseInitKept == BrowseInit /\ UNCHANGED browseVars => BrowseInit'
BY DEF BrowseInit, browseVars

\* The session is sound whichever part is used.
LEMMA OrdersHoldSession == OrdersInv => SessionTypeOK /\ SessionAgrees
BY DEF OrdersInv

LEMMA BrowseHoldsSession == BrowseInv => SessionTypeOK /\ SessionAgrees
BY DEF BrowseInv

LEMMA ShopInvInitially == ShopInit => ShopInv
<1> SUFFICES ASSUME ShopInit PROVE ShopInv
  OBVIOUS
<1>1. SessionInit /\ OrdersInit /\ BrowseInit
  BY DEF ShopInit
<1>2. OrdersInv /\ BrowseInv
  BY <1>1, OrdersInvInitially, BrowseInvInitially
<1> QED BY <1>1, <1>2, OrdersHoldSession DEF ShopInv

LEMMA ShopInvKept == ShopInv /\ [ShopNext]_<<part, sessionVars, orderVars, browseVars>> => ShopInv'
<1> SUFFICES ASSUME ShopInv, [ShopNext]_<<part, sessionVars, orderVars, browseVars>> PROVE ShopInv'
  OBVIOUS
<1>1. CASE part = "orders"
  <2>1. OrdersInv /\ BrowseInit
    BY <1>1 DEF ShopInv
  <2>2. /\ OrdersNext \/ UNCHANGED <<sessionVars, orderVars>>
        /\ UNCHANGED browseVars /\ part' = part
    BY <1>1 DEF ShopNext
  <2>3. OrdersInv'
    BY <2>1, <2>2, OrdersInvKept
  <2>4. BrowseInit'
    BY <2>1, <2>2, BrowseInitKept
  <2>5. SessionTypeOK' /\ SessionAgrees'
    BY <2>3 DEF OrdersInv
  <2> QED BY <1>1, <2>2, <2>3, <2>4, <2>5 DEF ShopInv
<1>2. CASE part # "orders"
  <2>1. BrowseInv /\ OrdersInit
    BY <1>2 DEF ShopInv
  <2>2. /\ BrowseNext \/ UNCHANGED <<sessionVars, browseVars>>
        /\ UNCHANGED orderVars /\ part' = part
    BY <1>2 DEF ShopNext, BrowseNext
  <2>3. BrowseInv'
    BY <2>1, <2>2, BrowseInvKept
  <2>4. OrdersInit'
    BY <2>1, <2>2, OrdersInitKept
  <2>5. SessionTypeOK' /\ SessionAgrees'
    BY <2>3 DEF BrowseInv
  <2> QED BY <1>2, <2>2, <2>3, <2>4, <2>5 DEF ShopInv
<1> QED BY <1>1, <1>2

\* ShopInv is inductive, for any accounts, products, calls and timers.
THEOREM ShopAlways == ShopSpec => []ShopInv
BY ShopInvInitially, ShopInvKept, PTL DEF ShopSpec

\* The variables of the whole shop have their types, whichever part of it is used.
THEOREM ShopTyped == ShopSpec => []ShopTypeOK
<1>1. ShopInv => ShopTypeOK
  <2> SUFFICES ASSUME ShopInv PROVE ShopTypeOK
    OBVIOUS
  <2>1. CASE part = "orders"
    BY <2>1, BrowseAtFirst DEF ShopInv, OrdersInv, ShopTypeOK
  <2>2. CASE part # "orders"
    BY <2>2, OrdersAtFirst DEF ShopInv, BrowseInv, ShopTypeOK
  <2> QED BY <2>1, <2>2
<1> QED BY <1>1, ShopAlways, PTL

\* What the run of the shop checks of it: the person greeted is the one the API is
\* called as, the orders table loses and repeats nothing, the order pages show what
\* the mode's backend answered, and the pages that stay in the browser settle, where
\* they are used (no wish list is fetched in a behaviour of the orders pages alone).
THEOREM ShopIsSound ==
  ShopSpec => [](SessionAgrees /\ TableSound /\ ShownViaMode /\ (part # "orders" => BrowseSound))
<1>1. ShopInv => SessionAgrees /\ TableSound /\ ShownViaMode /\ (part # "orders" => BrowseSound)
  <2> SUFFICES ASSUME ShopInv
               PROVE  SessionAgrees /\ TableSound /\ ShownViaMode /\ (part # "orders" => BrowseSound)
    OBVIOUS
  <2>1. CASE part = "orders"
    <3>1. OrdersInv
      BY <2>1 DEF ShopInv
    <3>2. ShownViaMode
      BY <3>1 DEF OrdersInv, ShownSound, ShownViaMode, CallSound
    <3> QED BY <2>1, <3>1, <3>2 DEF OrdersInv
  <2>2. CASE part # "orders"
    <3>1. BrowseInv /\ OrdersInit
      BY <2>2 DEF ShopInv
    <3> QED BY <3>1, OrdersAtFirst DEF BrowseInv
  <2> QED BY <2>1, <2>2
<1> QED BY <1>1, ShopAlways, PTL

=============================================================================
