------------------------------- MODULE Tools -------------------------------
(***************************************************************************)
(* tools.py and tool_executor.py: the tools the model may call, what they  *)
(* accept, what execute_tool asks the repositories, and how a result is    *)
(* cut down for the model and turned into a product card for the page.     *)
(* An answer is a set: {} where the code answers null.                     *)
(***************************************************************************)
EXTENDS Shop

CONSTANTS LLM_LIST_LIMIT_CAP, MAX_COMMENTS,
          Day   \* the length of a day, in the units of a date

ASSUME CapsArePositive ==
    LLM_LIST_LIMIT_CAP \in Nat \ {0} /\ MAX_COMMENTS \in Nat \ {0}

Capped(seq) == First(LLM_LIST_LIMIT_CAP, seq)

-----------------------------------------------------------------------------
(***************************************************************************)
(* TOOLS and TOOL_REGISTRY.  Parameters are the ones of the repository     *)
(* functions; a schema leaves out user_id and sample_size.                 *)
(***************************************************************************)
ByOrder == {"get_order_status", "get_delivery_estimate", "get_order_detail",
            "get_invoice", "get_tracking", "check_cancellation_eligibility"}
ByProduct == {"get_product_detail", "find_similar_products",
              "get_seller_info", "check_bargain_eligibility",
              "suggest_offer_amount", "get_product_reviews",
              "get_variant_stock"}
Lists == {"get_trending_products", "get_recommendations", "get_live_now",
          "get_trending_bits", "get_order_history"}
Bargaining == {"get_bargain_status", "get_counter_offer"}
Account == {"get_cart", "get_unread_notifications", "get_saved_items",
            "get_default_address"}
Sessions == {"get_session_products", "get_session_recap"}

TOOLS == ByOrder \union ByProduct \union Lists \union Bargaining
           \union Account \union Sessions
           \union {"search_products", "search_products_by_name",
                   "search_products_semantically", "search_by_hashtag",
                   "get_tagged_products", "check_coupon_validity",
                   "get_followers_or_following", "get_seller_trust_info"}

NeedsUser == ByOrder \union Bargaining \union Account
               \union {"get_order_history", "get_recommendations",
                       "check_coupon_validity", "get_followers_or_following"}

Required(tool) ==
    CASE tool \in ByOrder -> {"order_id"}
      [] tool = "get_variant_stock" -> {"product_id", "color", "size"}
      [] tool \in ByProduct \ {"get_variant_stock"} -> {"product_id"}
      [] tool \in Sessions -> {"session_id"}
      [] tool = "search_products_by_name" -> {"name"}
      [] tool = "search_products_semantically" -> {"query"}
      [] tool = "search_by_hashtag" -> {"hashtag"}
      [] tool = "get_tagged_products" -> {"bit_id"}
      [] tool = "check_coupon_validity" -> {"code"}
      [] tool = "get_followers_or_following" -> {"kind"}
      [] tool = "get_seller_trust_info" -> {"seller_id"}
      [] OTHER -> {}

Optional(tool) ==
    CASE tool \in Lists \union {"search_products_by_name", "search_by_hashtag",
             "search_products_semantically", "find_similar_products"}
           -> {"limit"}
      [] tool = "search_products"
           -> {"category", "sub_category", "min_price", "max_price", "color",
               "size", "in_stock_only", "limit"}
      [] tool \in Bargaining -> {"bargain_id", "product_id"}
      [] tool = "check_coupon_validity" -> {"cart_total"}
      [] tool \in {"get_unread_notifications", "get_product_reviews"}
           -> {"sample_size"}
      [] OTHER -> {}

\* Python's check of a call against a signature.
Accepts(tool, args) ==
    LET user == IF tool \in NeedsUser THEN {"user_id"} ELSE {}
    IN  /\ Required(tool) \union user \subseteq DOMAIN args
        /\ DOMAIN args \subseteq Required(tool) \union Optional(tool)
                                   \union user

-----------------------------------------------------------------------------
(***************************************************************************)
(* The trimmers.                                                           *)
(***************************************************************************)
Line(p) == [id |-> p.id, name |-> p.name, discounted |-> p.discounted]
Alike(l, p) == l.name = p.name /\ l.discounted = p.discounted

AddLine(lines, p) ==
    IF \/ Len(lines) >= LLM_LIST_LIMIT_CAP
       \/ \E l \in ToSet(lines) : Alike(l, p)
    THEN lines ELSE Append(lines, Line(p))

TrimProductList(products) ==
    LET lines[n \in 0..Len(products)] ==
            IF n = 0 THEN <<>> ELSE AddLine(lines[n - 1], products[n])
    IN  lines[Len(products)]

DELIVERED_OR_DONE == {"delivered", "cancelled", "returned", "refunded"}

\* Whole days; 0 when the order is not late or not to be delivered any more.
DaysLate(order, now) ==
    IF order.expected < 0 \/ order.status \in DELIVERED_OR_DONE
       \/ now < order.expected
    THEN 0
    ELSE (now - order.expected) \div Day

TrimOrderHistory(orders, now) ==
    [n \in DOMAIN Capped(orders) |->
        [ref |-> orders[n].ref, status |-> orders[n].status,
         daysLate |-> DaysLate(orders[n], now)]]

TrimComments(comments) ==
    SelectSeq(SubSeq(comments,
                     1 + Cardinality(1..Len(comments) \ 1..MAX_COMMENTS),
                     Len(comments)),
              LAMBDA c : c # "")

TrimRecap(recap) ==
    [status |-> recap.status, productCount |-> recap.productCount,
     commentCount |-> Len(recap.comments),
     recent |-> TrimComments(recap.comments)]

Unresolved(requested, resolved) ==
    IF Len(requested) > Len(resolved) THEN Len(requested) - Len(resolved)
    ELSE 0

\* _enrich_session_products and _enrich_tagged_products
EnrichProducts(db, result) ==
    LET requested == Capped(result.products)
        products == ProductsByIds(db, requested)
    IN  [status |-> result.status, productCount |-> Len(result.products),
         products |-> TrimProductList(products),
         unavailableCount |-> Unresolved(requested, products)]

\* x.get(name, default)
Arg(record, name, default) ==
    IF name \in DOMAIN record THEN record[name] ELSE default

AddItem(sum, item) == sum + item.price * item.qty

NameOf(db, id) == IF FindProduct(db, id) = {} THEN "no longer available"
                  ELSE (CHOOSE p \in FindProduct(db, id) : TRUE).name

Subtotal(items) == FoldLeft(AddItem, 0, items)

CartLines(db, items) ==
    [n \in DOMAIN items |->
        [name |-> NameOf(db, items[n].product),
         qty |-> items[n].qty, price |-> items[n].price]]

EnrichCart(db, cart) ==
    LET subtotal == Subtotal(cart.items)
        discount == Arg(cart, "discount", 0)
    IN  [lines |-> CartLines(db, cart.items), subtotal |-> subtotal,
         discount |-> discount, total |-> subtotal - discount]

EnrichSaved(db, saved) ==
    [products |-> TrimProductList(ProductsByIds(db, Capped(saved.products))),
     count |-> Len(saved.products), bits |-> Len(saved.bits)]

TrimFollowList(list) ==
    [rawCount |-> list.rawCount, resolvedCount |-> list.resolvedCount,
     sample |-> Capped(SetToSeq(list.users))]

-----------------------------------------------------------------------------
(***************************************************************************)
(* execute_tool.                                                           *)
(***************************************************************************)
Limit(args, default) ==
    IF "limit" \notin DOMAIN args THEN default
    ELSE IF args.limit < LLM_LIST_LIMIT_CAP THEN args.limit
    ELSE LLM_LIST_LIMIT_CAP

Query(args) ==
    [category |-> Arg(args, "category", NotGiven),
     sub |-> Arg(args, "sub_category", NotGiven),
     color |-> Arg(args, "color", NotGiven),
     size |-> Arg(args, "size", NotGiven),
     min |-> Arg(args, "min_price", NotGiven),
     max |-> Arg(args, "max_price", NotGiven),
     inStock |-> Arg(args, "in_stock_only", FALSE)]

BROWSING == {"search_products", "search_products_by_name",
             "search_products_semantically", "find_similar_products",
             "get_trending_products", "get_recommendations"}

Browsed(db, tool, args) ==
    LET limit == Limit(args, IF tool = "search_products" THEN 20 ELSE 5)
    IN  CASE tool = "search_products" ->
               SearchProducts(db, Query(args), limit)
          [] tool = "search_products_by_name" ->
               ByName(db, args.name, limit, db.indexed)
          [] tool = "search_products_semantically" ->
               SearchSemantically(db, args.query, limit)
          [] tool = "find_similar_products" ->
               FindSimilar(db, args.product_id, limit)
          [] tool = "get_trending_products" -> Trending(db, limit)
          [] tool = "get_recommendations" ->
               Recommendations(db, args.user_id, limit)

OfOrder(db, tool, user, ref, now) ==
    CASE tool = "get_order_status" -> OrderStatus(db, user, ref)
      [] tool = "get_delivery_estimate" -> DeliveryEstimate(db, user, ref)
      [] tool = "get_order_detail" -> OrderDetail(db, user, ref)
      [] tool = "get_invoice" -> Invoice(db, user, ref)
      [] tool = "get_tracking" -> Tracking(db, user, ref)
      [] tool = "check_cancellation_eligibility" ->
           CancellationEligibility(db, user, ref)

OfProduct(db, tool, id, args) ==
    CASE tool = "get_product_detail" -> {Line(p) : p \in ProductDetail(db, id)}
      [] tool = "get_seller_info" -> SellerInfo(db, id)
      [] tool = "check_bargain_eligibility" -> BargainEligibility(db, id)
      [] tool = "suggest_offer_amount" -> SuggestOffer(db, id)
      [] tool = "get_product_reviews" ->
           {ProductReviews(db, id, Arg(args, "sample_size", 5))}
      [] tool = "get_variant_stock" ->
           VariantStock(db, id, args.color, args.size)

OfUser(db, tool, user, args, now) ==
    CASE tool = "get_order_history" ->
           {TrimOrderHistory(OrderHistory(db, user, Limit(args, 5)), now)}
      [] tool = "get_bargain_status" ->
           BargainStatus(db, user, Arg(args, "bargain_id", ""),
                         Arg(args, "product_id", ""))
      [] tool = "get_counter_offer" ->
           CounterOffer(db, user, Arg(args, "bargain_id", ""),
                        Arg(args, "product_id", ""))
      [] tool = "get_cart" -> {EnrichCart(db, Cart(db, user))}
      [] tool = "check_coupon_validity" ->
           CheckCoupon(db, args.code, user, now, Arg(args, "cart_total", -1))
      [] tool = "get_unread_notifications" ->
           {UnreadNotifications(db, user, Arg(args, "sample_size", 3))}
      [] tool = "get_saved_items" ->
           {EnrichSaved(db, s) : s \in SavedItems(db, user)}
      [] tool = "get_default_address" -> DefaultAddress(db, user)
      [] tool = "get_followers_or_following" ->
           {TrimFollowList(l) : l \in FollowList(db, user, args.kind)}

OfShop(db, tool, args) ==
    CASE tool = "get_live_now" -> {Capped(LiveNow(db, Limit(args, 5)))}
      [] tool = "get_session_products" ->
           {EnrichProducts(db, s) : s \in SessionProducts(db, args.session_id)}
      [] tool = "get_session_recap" ->
           {TrimRecap(r) : r \in SessionRecap(db, args.session_id)}
      [] tool = "get_trending_bits" ->
           {Capped(TrendingBits(db, Limit(args, 5)))}
      [] tool = "search_by_hashtag" ->
           {Capped(BitsByHashtag(db, args.hashtag, Limit(args, 10)))}
      [] tool = "get_tagged_products" ->
           {EnrichProducts(db, b) : b \in TaggedProducts(db, args.bit_id)}
      [] tool = "get_seller_trust_info" -> SellerTrust(db, args.seller_id)

AnswerFor(db, tool, args, now) ==
    CASE tool \in BROWSING -> {TrimProductList(Browsed(db, tool, args))}
      [] tool \in ByOrder ->
           OfOrder(db, tool, args.user_id, args.order_id, now)
      [] tool \in ByProduct \ BROWSING ->
           OfProduct(db, tool, args.product_id, args)
      [] tool \in NeedsUser \ (BROWSING \union ByOrder) ->
           OfUser(db, tool, args.user_id, args, now)
      [] OTHER -> OfShop(db, tool, args)

Pictured(shown) == SelectInSeq(shown, LAMBDA p : p.photo)

\* The first product of a result that has a photo, as the page shows it.
Card(db, tool, args) ==
    LET shown == CASE tool \in BROWSING -> Browsed(db, tool, args)
                   [] tool = "get_product_detail" ->
                        SetToSeq(ProductDetail(db, args.product_id))
                   [] OTHER -> <<>>
        at == Pictured(shown)
    IN  IF at = 0 THEN {} ELSE {Line(shown[at])}

WithUser(tool, args, user) ==
    IF tool \in NeedsUser
    THEN [a \in DOMAIN args \union {"user_id"} |->
             IF a = "user_id" THEN user ELSE args[a]]
    ELSE args

\* What the repository functions raise.
Raises(db, tool, args) ==
    \/ tool = "search_products_semantically" /\ Mismatched(db, args.query)
    \/ tool = "get_followers_or_following" /\ args.kind \notin FollowKinds

Failed == [error |-> TRUE, answer |-> {}, card |-> {}]

ExecuteTool(db, tool, arguments, user, now) ==
    LET args == WithUser(tool, arguments, user)
    IN  IF \/ tool \notin TOOLS
           \/ ~Accepts(tool, args)
           \/ Raises(db, tool, args)
        THEN Failed
        ELSE [error |-> FALSE, answer |-> AnswerFor(db, tool, args, now),
              card |-> Card(db, tool, args)]
=============================================================================
