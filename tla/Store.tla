------------------------------- MODULE Store -------------------------------
(***************************************************************************)
(* The read-only repositories (src/app/repos).  A database maps the names  *)
(* of its collections to sets of documents; find_one returns a set of at   *)
(* most one answer, {} for None.  A malformed id names no document, so it  *)
(* finds nothing, as to_object_id has it.  Times and counts are numbers;   *)
(* fields that are only copied into the answer are left out.               *)
(***************************************************************************)
EXTENDS Integers, Sequences, FiniteSets, SequencesExt, Lists

First(n, seq) == SubSeq(seq, 1, IF n < Len(seq) THEN n ELSE Len(seq))

\* cursor.sort(key, -1).limit(n): key is a function on the documents.
Top(n, docs, key) ==
    First(n, SetToSortSeq(docs, LAMBDA a, b : key[a] > key[b]))
Newest(n, docs) == Top(n, docs, [d \in docs |-> d.at])

\* find_one without a sort, in the order the documents were written.
Earliest(docs) == {d \in docs : \A e \in docs : d.at <= e.at}

-----------------------------------------------------------------------------
(***************************************************************************)
(* orders_repo.py: every lookup is scoped to the buyer.                    *)
(***************************************************************************)
CANCELLABLE_STATUSES == {"pending", "confirmed"}

\* Mutant: the reference alone finds the order.
FindOrderOfAnyone(db, user, ref) == {o \in db.orders : o.ref = ref}
FindOrder(db, user, ref) ==
    {o \in db.orders : o.buyer = user /\ o.ref = ref}

OrderStatus(db, user, ref) ==
    {[ref |-> o.ref, status |-> o.status] : o \in FindOrder(db, user, ref)}
DeliveryEstimate(db, user, ref) ==
    {[ref |-> o.ref, expected |-> o.expected]
        : o \in FindOrder(db, user, ref)}
OrderDetail(db, user, ref) ==
    {[ref |-> o.ref, items |-> o.items] : o \in FindOrder(db, user, ref)}
Invoice(db, user, ref) ==
    {[ref |-> o.ref, available |-> o.invoice]
        : o \in FindOrder(db, user, ref)}
Tracking(db, user, ref) == OrderStatus(db, user, ref)
CancellationEligibility(db, user, ref) ==
    {[ref |-> o.ref, canCancel |-> o.status \in CANCELLABLE_STATUSES]
        : o \in FindOrder(db, user, ref)}
OrderHistory(db, user, limit) ==
    Newest(limit, {o \in db.orders : o.buyer = user})

-----------------------------------------------------------------------------
(***************************************************************************)
(* bargains_repo.py: by bargain or else by product, newest first.          *)
(***************************************************************************)
FindProduct(db, id) == {p \in db.products : p.id = id}

BargainEligibility(db, id) ==
    {[product |-> id, allowed |-> p.bargains, max |-> p.maxDiscount]
        : p \in FindProduct(db, id)}

\* round(): to the nearest, and to the even one when two are as near.
Round(hundredths) ==
    LET down == hundredths \div 100
        rest == hundredths % 100
    IN  IF rest < 50 \/ (rest = 50 /\ down % 2 = 0) THEN down ELSE down + 1

\* maxDiscount < 0: the seller has not set one.
SuggestOffer(db, id) ==
    {[product |-> id, available |-> p.maxDiscount >= 0,
      offer |-> IF p.maxDiscount >= 0
                THEN Round(p.price * (100 - p.maxDiscount))
                ELSE 0]
        : p \in FindProduct(db, id)}

FindBargain(db, user, id, product) ==
    LET own == {b \in db.bargains : b.buyer = user}
        meant == IF id # "" THEN {b \in own : b.id = id}
                 ELSE {b \in own : b.product = product}
    IN  ToSet(Newest(1, meant))

BargainStatus(db, user, id, product) ==
    {[status |-> b.status, counter |-> b.counter]
        : b \in FindBargain(db, user, id, product)}
CounterOffer(db, user, id, product) ==
    {[exists |-> b.counter] : b \in FindBargain(db, user, id, product)}

-----------------------------------------------------------------------------
(***************************************************************************)
(* coupons_repo.py.  A coupon is looked up by the word of its code in any  *)
(* case; an end, a total or a maximum below 0 is not given.  How often a   *)
(* user has used it is asked as the number of documents of that very code  *)
(* whose list has the user.                                                *)
(***************************************************************************)
AlreadyUsed(db, coupon, user) ==
    Cardinality({c \in db.coupons : /\ c.code = coupon.code
                                    /\ c.inCapitals = coupon.inCapitals
                                    /\ user \in ToSet(c.usedBy)})

\* The reason a coupon is not valid; "" when it is.
CouponReason(db, c, user, now, total) ==
    IF ~c.active THEN "inactive"
    ELSE IF now < c.start THEN "not_started_yet"
    ELSE IF c.end >= 0 /\ now > c.end THEN "expired"
    ELSE IF total >= 0 /\ total < c.minSpend THEN "min_spend_not_met"
    ELSE IF c.maxUse >= 0 /\ AlreadyUsed(db, c, user) >= c.maxUse
    THEN "usage_limit_reached"
    ELSE ""

CheckCoupon(db, code, user, now, total) ==
    LET found == Earliest({c \in db.coupons : c.code = code})
    IN  IF found = {} THEN {[valid |-> FALSE, reason |-> "not_found"]}
        ELSE {LET reason == CouponReason(db, c, user, now, total)
              IN  [valid |-> reason = "", reason |-> reason] : c \in found}

-----------------------------------------------------------------------------
(***************************************************************************)
(* carts_repo.py and account_repo.py: the user's own documents.            *)
(***************************************************************************)
\* The items alone: the discount and the coupon of the document stay here.
Cart(db, user) ==
    LET found == {c \in db.carts : c.user = user}
    IN  [items |-> IF found = {} THEN <<>>
                   ELSE (CHOOSE c \in found : TRUE).items]

DefaultAddress(db, user) ==
    LET own == {a \in db.addresses : a.user = user}
        marked == {a \in own : a.default}
    IN  {[city |-> a.city, fallback |-> marked = {}]
            : a \in Earliest(IF marked = {} THEN own ELSE marked)}

UnreadNotifications(db, user, size) ==
    LET unread == {n \in db.notifications : n.user = user /\ ~n.read}
    IN  [count |-> Cardinality(unread),
         samples |-> Newest(size, unread)]

FindUser(db, user) == {u \in db.users : u.id = user}

SavedItems(db, user) ==
    {[products |-> u.saved, bits |-> u.savedBits] : u \in FindUser(db, user)}

\* Only users that still exist are resolved; any other kind is a ValueError.
FollowKinds == {"followers", "following"}
FollowList(db, user, kind) ==
    {LET raw == IF kind = "followers" THEN u.followers ELSE u.following
         resolved == {v \in db.users : v.id \in ToSet(raw)}
     IN  [rawCount |-> Len(raw), resolvedCount |-> Cardinality(resolved),
          users |-> {v.name : v \in resolved}]
        : u \in FindUser(db, user)}

IsSeller(db, user) == \E u \in FindUser(db, user) : u.seller
=============================================================================
