-------------------------------- MODULE Shop --------------------------------
(***************************************************************************)
(* The public part of the repositories: products, live sessions, bits,     *)
(* reviews and sellers.  Documents without a sort come in the order they   *)
(* were written.                                                           *)
(***************************************************************************)
EXTENDS Store

CONSTANT NotGiven   \* an argument the model left out

Found(n, docs) == Top(n, docs, [d \in docs |-> -d.at])

Matches(value, wanted) == wanted = NotGiven \/ value = wanted

-----------------------------------------------------------------------------
(***************************************************************************)
(* products_repo.py                                                        *)
(***************************************************************************)
\* $elemMatch: one variant meets every condition.
\* Mutant: each condition is met by some variant.
SomeVariants(p, q) ==
    /\ \E v \in ToSet(p.variants) : Matches(v.color, q.color)
    /\ \E v \in ToSet(p.variants) : Matches(v.size, q.size)
    /\ q.inStock => \E v \in ToSet(p.variants) : ~v.out
OneVariant(p, q) ==
    \E v \in ToSet(p.variants) : /\ Matches(v.color, q.color)
                                 /\ Matches(v.size, q.size)
                                 /\ q.inStock => ~v.out

InStock(p, q) ==
    IF q.color = NotGiven /\ q.size = NotGiven
    THEN q.inStock => p.stock > 0
    ELSE OneVariant(p, q)

Affordable(p, q) == /\ q.min = NotGiven \/ q.min <= p.discounted
                    /\ q.max = NotGiven \/ p.discounted <= q.max

SearchProducts(db, q, limit) ==
    Found(limit, {p \in db.products : /\ ~p.sold
                                      /\ Matches(p.category, q.category)
                                      /\ Matches(p.sub, q.sub)
                                      /\ Affordable(p, q)
                                      /\ InStock(p, q)})

StockOf(variants, color, size) ==
    LET at == SelectInSeq(variants,
                          LAMBDA v : v.color = color /\ v.size = size)
    IN  [found |-> at # 0, out |-> at = 0 \/ variants[at].out]
VariantStock(db, id, color, size) ==
    {StockOf(p.variants, color, size) : p \in FindProduct(db, id)}

ProductDetail(db, id) == FindProduct(db, id)

\* isTopPick, then viewCount, then likeCount.
Trending(db, limit) ==
    LET forSale == {p \in db.products : ~p.sold}
    IN  Top(limit, forSale,
            [p \in forSale |-> 100 * p.top + 10 * p.views + p.likes])

Recommendations(db, user, limit) ==
    LET seeds == UNION {ToSet(u.saved) \union ToSet(u.liked)
                            : u \in FindUser(db, user)}
        categories == {p.category : p \in {q \in db.products :
                                               q.id \in seeds}} \ {""}
        liked == {p \in db.products : /\ ~p.sold
                                      /\ p.id \notin seeds
                                      /\ p.category \in categories}
    IN  IF categories = {} THEN Trending(db, limit)
        ELSE Top(limit, liked, [p \in liked |-> p.likes])

SellerInfo(db, id) ==
    UNION {{[product |-> id, rating |-> u.rating]
                : u \in FindUser(db, p.seller)} : p \in FindProduct(db, id)}

\* $in: the products that exist, each once, in the order of the collection.
ProductsByIds(db, ids) ==
    Found(Len(ids), {p \in db.products : p.id \in ToSet(ids)})

\* Without its index the text search falls back to a scan of the names.
ByNameRegex(db, word, limit) ==
    Found(limit, {p \in db.products : ~p.sold /\ word = p.name})

ByName(db, word, limit, indexed) ==
    IF indexed
    THEN First(limit, Only(Found(Cardinality(db.products), db.products),
                           {p \in db.products :
                               ~p.sold /\ word \in {p.name, p.category}}))
    ELSE ByNameRegex(db, word, limit)

\* The products of a ranking that are still for sale, in its order: $in
\* would lose it.
Resolved(db, ids) ==
    LET forSale == {p.id : p \in {q \in db.products : ~q.sold}}
        kept == Only(ids, forSale)
    IN  [n \in DOMAIN kept |-> CHOOSE p \in db.products : p.id = kept[n]]

\* db.ranking is the order in which $vectorSearch ranks the embedded
\* products for the query at hand, a stored one itself first; db.vectors
\* says whether its index is there, db.embedder whether a query can be
\* embedded, db.tagged whether the catalogue was by the same model.
FindSimilar(db, id, limit) ==
    IF id \notin ToSet(db.ranking) \/ ~db.vectors THEN <<>>
    ELSE Resolved(db, First(limit, Only(First(limit + 1, db.ranking),
                                        ToSet(db.ranking) \ {id})))

\* EmbeddingModelMismatch, once there is a query and something to search.
Mismatched(db, query) == query # "" /\ db.ranking # <<>> /\ ~db.tagged

SearchSemantically(db, query, limit) ==
    IF query = "" \/ ~db.embedder \/ ~db.vectors THEN <<>>
    ELSE Resolved(db, First(limit, db.ranking))

-----------------------------------------------------------------------------
(***************************************************************************)
(* livesessions_repo.py, bits_repo.py, reviews_repo.py, seller_repo.py.    *)
(***************************************************************************)
LiveNow(db, limit) ==
    Newest(limit, {s \in db.livesessions : s.status = "live"})

FindSession(db, id) == {s \in db.livesessions : s.id = id}
SessionProducts(db, id) ==
    {[status |-> s.status, products |-> s.sequence] : s \in FindSession(db, id)}
SessionRecap(db, id) ==
    {[status |-> s.status, productCount |-> Len(s.products),
      comments |-> s.comments] : s \in FindSession(db, id)}

TrendingBits(db, limit) ==
    LET trending == {b \in db.bits : b.trending}
    IN  Top(limit, trending, [b \in trending |-> b.views])
TaggedProducts(db, id) ==
    {[status |-> "bit", products |-> b.products]
        : b \in {c \in db.bits : c.id = id}}
BitsByHashtag(db, tag, limit) == Found(limit, {b \in db.bits : b.tag = tag})

\* The average is in tenths, rounded.
Summary(of, size) ==
    LET sum == MapThenSumSet(LAMBDA r : r.rating, of)
        newest == Newest(size, of)
    IN  [count |-> Cardinality(of),
         average |-> IF of = {} THEN 0
                     ELSE Round((1000 * sum) \div Cardinality(of)),
         comments |-> SelectSeq(newest, LAMBDA r : r.comment # "")]
ProductReviews(db, id, size) ==
    Summary({r \in db.reviews : r.product = id}, size)

SellerTrust(db, id) ==
    {[seller |-> id, rating |-> u.rating] : u \in FindUser(db, id)}

PayoutStatus(db, seller, ref) ==
    {[ref |-> p.ref, status |-> p.status]
        : p \in {q \in db.payouts : q.seller = seller /\ q.ref = ref}}
CouponPerformance(db, seller, code) ==
    Earliest({c \in db.coupons : c.seller = seller /\ c.code = code})
PendingBargains(db, seller) ==
    Cardinality({b \in db.bargains : b.seller = seller /\ b.pending})
=============================================================================
