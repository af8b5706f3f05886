----------------------------- MODULE ShopBrowse -----------------------------
(***************************************************************************)
(* The parts of the demo shop that never leave the browser (services/api.js *)
(* keeps them in memory behind timers) and the one search that does: wish  *)
(* lists, reviews, the admin's product table, the Shop page's filters and  *)
(* the All Products search.  Timers of one delay fire in the order they    *)
(* were set; who is signed in is read when they fire.                      *)
(***************************************************************************)
EXTENDS ShopSession, Sequences

CONSTANTS
  Item,       \* products that ever exist
  Catalogue,  \* those of the mock data
  MockWishes, \* the wish lists of its users
  Term,       \* search terms and filter settings
  MaxTimers   \* bound: timers of one delay set at a time

ASSUME BrowseConstants ==
  /\ Catalogue \subseteq Item
  /\ MockWishes \in [Person -> SUBSET Catalogue]
  /\ MaxTimers \in Nat

VARIABLES
  life,      \* each product's: "unborn", "here" (in products) or "gone"
  wishes,    \* each user record's wish list
  reviews,   \* how often each person has reviewed each product
  wishlist,  \* WishlistContext
  view,      \* the page shown: "shop", "search", "admin" or "other"
  term,      \* the filters of the URL
  listed,    \* the answer the page shows: the term it answers, and loading
  table,     \* the admin's table of products
  slow,      \* timers of 350 ms, in the order they fire
  quick,     \* timers of 200 ms
  fetches    \* All Products searches in flight

browseVars == <<life, wishes, reviews, wishlist, view, term, listed, table, slow,
                quick, fetches>>

View == {"shop", "search", "admin", "other"}

BrowseTypeOK ==
  /\ life \in [Item -> {"unborn", "here", "gone"}]
  /\ wishes \in [Person -> SUBSET Item]
  /\ reviews \in [Person -> [Item -> Nat]]
  /\ wishlist \subseteq Item
  /\ view \in View
  /\ term \in Term
  /\ listed \in [of : Term, loading : BOOLEAN]
  /\ table \subseteq Item
  /\ Len(slow) <= MaxTimers + 1 /\ Len(quick) <= MaxTimers
  /\ fetches \subseteq [of : Term, live : BOOLEAN]

products == {i \in Item : life[i] = "here"}

MockProducts == [i \in Item |-> IF i \in Catalogue THEN "here" ELSE "unborn"]
NoReviews    == [p \in Person |-> [i \in Item |-> 0]]

BrowseInit ==
  /\ life = MockProducts
  /\ wishes = MockWishes
  /\ reviews = NoReviews
  /\ wishlist = {}
  /\ view = "other"
  /\ term \in Term
  /\ listed = [of |-> term, loading |-> FALSE]
  /\ table = {}
  /\ slow = <<>>
  /\ quick = <<>>
  /\ fetches = {}

\* What a timer was set for: a product, the Shop page's filters, or nothing.
Timer(kind, what) == [kind |-> kind, what |-> what, live |-> TRUE]

\* A page that is left ignores what its timers bring.
Unmounted(q) == [k \in DOMAIN q |-> [q[k] EXCEPT !.live = FALSE]]

-----------------------------------------------------------------------------
(* The session, as these parts hear of it. *)

\* Mutant: nothing is cleared when nobody is signed in.
LoadWishlistKept(p, q) ==
  IF p = Nobody THEN slow' = q /\ UNCHANGED wishlist
  ELSE slow' = Append(q, Timer("wishes", "")) /\ UNCHANGED wishlist

\* WishlistContext's effect: fetch for whoever is signed in now, or clear.
LoadWishlist(p, q) ==
  IF p = Nobody THEN wishlist' = {} /\ slow' = q
  ELSE slow' = Append(q, Timer("wishes", "")) /\ UNCHANGED wishlist

\* Signed in, out or expired anywhere; the admin page is for who is signed in.
Hears(p) ==
  /\ Len(slow) <= MaxTimers
  /\ view' = IF p = Nobody /\ view = "admin" THEN "other" ELSE view
  /\ table' = IF view' = view THEN table ELSE {}
  /\ LoadWishlist(p, IF view' = view THEN slow ELSE Unmounted(slow))
  /\ UNCHANGED <<clock, life, wishes, reviews, term, listed, quick, fetches>>

SomeoneSignsIn(p) == SignedIn(p, IssueToken(p)) /\ Hears(p)
TheySignOut  == user # Nobody /\ SignedOut /\ Hears(Nobody)
TheyExpire   == user # Nobody /\ SessionExpired /\ Hears(Nobody)

\* The page is loaded again: memory starts over, timers and searches are gone.
BrowseReload ==
  /\ Reloaded
  /\ life' = MockProducts
  /\ wishes' = MockWishes
  /\ reviews' = NoReviews
  /\ wishlist' = {}
  /\ view' = "other"
  /\ listed' = [of |-> term, loading |-> FALSE]
  /\ table' = {}
  /\ slow' = IF user' = Nobody THEN <<>> ELSE <<Timer("wishes", "")>>
  /\ quick' = <<>>
  /\ fetches' = {}
  /\ UNCHANGED <<clock, term>>

-----------------------------------------------------------------------------
(* Wish lists and reviews. *)

\* A heart: nothing happens for a visitor, else the toggle's timer is set.
ToggleWishlist(i) ==
  /\ user # Nobody /\ life[i] # "unborn" /\ Len(quick) < MaxTimers
  /\ quick' = Append(quick, Timer("toggle", i))
  /\ UNCHANGED <<sessionVars, life, wishes, reviews, wishlist, view, term, listed,
                 table, slow, fetches>>

Flip(set, i) == IF i \in set THEN set \ {i} ELSE set \cup {i}

\* The timer fires: getCurrentUser is whoever is signed in now.
Toggled ==
  /\ quick # <<>>
  /\ quick' = Tail(quick)
  /\ IF stored = Nobody THEN UNCHANGED <<wishes, wishlist>>
     ELSE LET w == Flip(wishes[stored], Head(quick).what)
          IN wishes' = [wishes EXCEPT ![stored] = w] /\ wishlist' = w
  /\ UNCHANGED <<sessionVars, life, reviews, view, term, listed, table, slow, fetches>>

\* handleSubmitReview
SubmitReview(i) ==
  /\ user # Nobody /\ life[i] # "unborn" /\ Len(slow) < MaxTimers
  /\ slow' = Append(slow, Timer("review", i))
  /\ UNCHANGED <<sessionVars, life, wishes, reviews, wishlist, view, term, listed,
                 table, quick, fetches>>

-----------------------------------------------------------------------------
(* Pages. *)

\* A page is opened: Shop and All Products ask for their products, the admin's
\* table loads.
Open(v, t) ==
  /\ v # view \/ (v \in {"shop", "search"} /\ t # term)
  /\ v = "admin" => user # Nobody
  /\ v \notin {"shop", "search"} => t = term
  /\ Len(slow) < MaxTimers
  /\ view' = v
  /\ term' = t
  /\ listed' = IF v \in {"shop", "search"}
               THEN [of |-> IF v = view THEN listed.of ELSE t, loading |-> TRUE] ELSE listed
  /\ table' = {}
  /\ LET q == IF v = view THEN slow ELSE Unmounted(slow)
     IN slow' = IF v = "shop" THEN Append(q, Timer("shop", t))
                ELSE IF v = "admin" THEN Append(q, Timer("load", "")) ELSE q
  /\ LET dead == {[f EXCEPT !.live = FALSE] : f \in fetches}
     IN fetches' = IF v = "search" THEN dead \cup {[of |-> t, live |-> TRUE]} ELSE dead
  /\ UNCHANGED <<sessionVars, life, wishes, reviews, wishlist, quick>>

\* The search answers, or its local fallback does; only the last one is shown.
SearchAnswered(f) ==
  /\ f \in fetches
  /\ fetches' = fetches \ {f}
  /\ listed' = IF f.live THEN [of |-> f.of, loading |-> FALSE] ELSE listed
  /\ UNCHANGED <<sessionVars, life, wishes, reviews, wishlist, view, term, table,
                 slow, quick>>

\* The admin saves or deletes a product.
AdminAsks(kind, i) ==
  /\ view = "admin" /\ Len(slow) < MaxTimers
  /\ kind = "delete" => i \in table
  /\ kind = "create" => life[i] = "unborn"
  /\ kind = "create" => \A k \in DOMAIN slow : ~(slow[k].kind = "create" /\ slow[k].live)
  /\ slow' = Append(slow, Timer(kind, i))
  /\ UNCHANGED <<sessionVars, life, wishes, reviews, wishlist, view, term, listed,
                 table, quick, fetches>>

\* load(), after a save or delete that succeeded.
LoadAgain(q, t) == IF t.live THEN Append(q, Timer("load", "")) ELSE q

\* addReview, once its timer has fired: not for a visitor, not for a product that
\* is gone, not twice.
Reviewed(i) ==
  IF stored = Nobody \/ i \notin products \/ reviews[stored][i] > 0 THEN UNCHANGED reviews
  ELSE reviews' = [reviews EXCEPT ![stored][i] = @ + 1]

\* The first of the 350 ms timers fires.
Fires ==
  /\ slow # <<>>
  /\ LET t == Head(slow)
         q == Tail(slow)
     IN /\ wishlist' = IF t.kind = "wishes" /\ stored # Nobody
                       THEN wishes[stored] \cap products ELSE wishlist
        /\ IF t.kind = "review" THEN Reviewed(t.what) ELSE UNCHANGED reviews
        /\ listed' = IF t.kind = "shop" /\ t.live THEN [of |-> t.what, loading |-> FALSE]
                     ELSE listed
        /\ life' = CASE t.kind = "create" -> [life EXCEPT ![t.what] = "here"]
                     [] t.kind = "delete" /\ t.what \in products ->
                          [life EXCEPT ![t.what] = "gone"]
                     [] OTHER -> life
        /\ table' = IF t.kind = "load" /\ t.live THEN products ELSE table
        /\ slow' = IF t.kind = "create" \/ (t.kind = "delete" /\ t.what \in products)
                   THEN LoadAgain(q, t) ELSE q
  /\ UNCHANGED <<sessionVars, wishes, view, term, quick, fetches>>

\* Who is signed in, and the page loaded again.
HearsNext ==
  \/ TheySignOut \/ TheyExpire \/ BrowseReload
  \/ \E p \in Person : SomeoneSignsIn(p)

\* The pages that ask for products by the filters of the URL.
ListNext ==
  \/ \E v \in {"shop", "search"}, t \in Term : Open(v, t)
  \/ \E f \in fetches : SearchAnswered(f)

\* Wish lists, reviews and the admin's products.
CatalogueNext ==
  \/ Toggled
  \/ \E i \in Item : ToggleWishlist(i) \/ SubmitReview(i)
  \/ Open("admin", term)
  \/ \E k \in {"create", "delete"}, i \in Item : AdminAsks(k, i)

BrowseNext == HearsNext \/ ListNext \/ CatalogueNext \/ Fires \/ Open("other", term)

BrowseSpec == SessionInit /\ BrowseInit /\ [][BrowseNext]_<<sessionVars, browseVars>>

-----------------------------------------------------------------------------
(* Properties. *)

Loading(kind) == \E k \in DOMAIN slow : slow[k].kind = kind /\ slow[k].live
LoadingWishes == \E k \in DOMAIN slow : slow[k].kind = "wishes"

\* Unless it is being fetched, the wish list shown is that of the person signed
\* in, whatever toggles and fetches of an earlier person were under way: it has
\* nothing else in it, and misses nothing that can still be bought.
WishlistIsMine ==
  ~LoadingWishes =>
    IF user = Nobody THEN wishlist = {}
    ELSE wishes[user] \cap products \subseteq wishlist /\ wishlist \subseteq wishes[user]

\* A person has one review of a product at most, however often the form is sent
\* while an earlier one is still behind its timer.
OneReviewEach == \A p \in Person, i \in Item : reviews[p][i] <= 1

\* Products that are shown as an answer are the answer to the filters in the URL,
\* although searches answer in any order.
ListedAnswersUrl ==
  view \in {"shop", "search"} /\ ~listed.loading /\ ~Loading("shop") => listed.of = term

\* When nothing is under way the admin's table is the catalogue.
TableSettles ==
  view = "admin" /\ ~Loading("load") /\ ~Loading("create") /\ ~Loading("delete")
    => table = products

\* What the pages show settles on what it should be, whatever was in flight or
\* behind a timer when the person, the URL or the catalogue changed.
BrowseSound == WishlistIsMine /\ OneReviewEach /\ ListedAnswersUrl /\ TableSettles

-----------------------------------------------------------------------------
(* Why they hold. *)

\* What timers can be set for.
SlowTimer ==
  [kind : {"wishes", "load"}, what : {""}, live : BOOLEAN]
  \cup [kind : {"review", "create", "delete"}, what : Item, live : BOOLEAN]
  \cup [kind : {"shop"}, what : Term, live : BOOLEAN]
QuickTimer == [kind : {"toggle"}, what : Item, live : BOOLEAN]

\* A product is created once and goes for good: nobody wishes for, sees or deletes
\* one that is not there yet, and nothing brings back one that is gone.
LivesInOrder ==
  /\ \A i \in Item : life[i] = "unborn" => i \notin table /\ \A p \in Person : i \notin wishes[p]
  /\ \A k \in DOMAIN quick : life[quick[k].what] # "unborn"
  /\ \A k \in DOMAIN slow :
       /\ slow[k].kind = "create" => life[slow[k].what] # "gone"
       /\ slow[k].kind = "delete" => life[slow[k].what] # "unborn"
       /\ \A j \in DOMAIN slow :
            slow[k].kind = "create" /\ slow[j].kind = "delete" /\ slow[j].what = slow[k].what => k < j

\* Only what the page waits for is live, the filters of the URL last.
WaitsForUrl ==
  /\ \A k \in DOMAIN slow : slow[k].kind = "shop" /\ slow[k].live =>
       /\ view = "shop"
       /\ \/ slow[k].what = term
          \/ \E j \in DOMAIN slow : j > k /\ slow[j].kind = "shop" /\ slow[j].live
  /\ \A f \in fetches : f.live => f.of = term /\ view = "search"

\* A save or deletion that an earlier visit of the admin page left behind is
\* followed by a load of this one; so is every change the table does not show.
LoadsFollow ==
  view = "admin" =>
    /\ \A k \in DOMAIN slow : slow[k].kind \in {"create", "delete"} /\ ~slow[k].live =>
         \E j \in DOMAIN slow : j > k /\ slow[j].kind = "load" /\ slow[j].live
    /\ table # products => Loading("load")

\* Inductive.
BrowseInv ==
  /\ SessionTypeOK /\ SessionAgrees
  /\ BrowseTypeOK
  /\ slow \in Seq(SlowTimer) /\ quick \in Seq(QuickTimer)
  /\ user = Nobody => wishlist = {}
  /\ BrowseSound
  /\ LivesInOrder /\ WaitsForUrl /\ LoadsFollow
=============================================================================
