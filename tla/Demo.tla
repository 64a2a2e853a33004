-------------------------------- MODULE Demo --------------------------------
(***************************************************************************)
(* A small shop for the runs: two shoppers, a seller, products with        *)
(* variants, orders around their delivery dates, and indexes, a model tag  *)
(* and an embedding endpoint that may be missing.  The code word of a      *)
(* coupon may be used in capitals or not, and by each shopper.             *)
(***************************************************************************)
EXTENDS Tools

Shoppers == {"ann", "bob"}
Now == 6

Variant(color, size, out) == [color |-> color, size |-> size, out |-> out]

Shirt ==
    [id |-> "p1", at |-> 1, name |-> "shirt", category |-> "tops",
     sub |-> "tees", price |-> 206, discounted |-> 150, stock |-> 5,
     sold |-> FALSE, variants |-> <<Variant("red", "S", TRUE), Variant("red", "M", FALSE),
                    Variant("blue", "S", FALSE)>>,
     bargains |-> TRUE, maxDiscount |-> 10, seller |-> "cat",
     views |-> 3, likes |-> 2, top |-> 0, photo |-> FALSE]

PRODUCT_POOL ==
    {Shirt,
     [Shirt EXCEPT !.id = "p2", !.at = 2, !.price = 205, !.photo = TRUE,
                   !.likes = 4, !.views = 1],
     [Shirt EXCEPT !.id = "p3", !.at = 3, !.discounted = 140, !.likes = 5,
                   !.sub = "tanks",
                   !.variants = <<Variant("red", "S", FALSE)>>,
                   !.price = 205, !.maxDiscount = -1, !.photo = TRUE],
     [Shirt EXCEPT !.id = "p4", !.at = 4, !.name = "mug",
                   !.category = "home", !.sold = TRUE, !.stock = 0],
     [Shirt EXCEPT !.id = "p5", !.at = 5, !.name = "mug",
                   !.category = "home", !.top = 1, !.variants = <<>>,
                   !.photo = TRUE, !.likes = 1]}

Order(ref, buyer, at, status, expected) ==
    [ref |-> ref, buyer |-> buyer, at |-> at, status |-> status,
     expected |-> expected, items |-> <<ref>>, invoice |-> at > 2]
ORDER_POOL ==
    {Order("o1", "ann", 1, "shipped", 4), Order("o2", "bob", 2, "pending", 5),
     Order("o3", "ann", 3, "delivered", 2), Order("o4", "bob", 4, "shipped", 1),
     Order("o5", "ann", 5, "confirmed", -1)}

Bargain(id, buyer, product, at) ==
    [id |-> id, buyer |-> buyer, product |-> product, at |-> at,
     status |-> id, counter |-> at > 1, seller |-> "cat", pending |-> TRUE]

Coupon(code, capitals, at, usedBy) ==
    [code |-> code, inCapitals |-> capitals, at |-> at, seller |-> "cat",
     active |-> TRUE, start |-> 2, end |-> 9, minSpend |-> 10,
     maxUse |-> 1, usedBy |-> usedBy]

Item(product, qty, price) == [product |-> product, qty |-> qty,
                              price |-> price]

Shopper(id, saved, liked, followers) ==
    [id |-> id, name |-> id, seller |-> id = "cat", rating |-> 4,
     saved |-> saved, liked |-> liked, savedBits |-> <<"b1">>,
     followers |-> followers, following |-> <<"cat">>]

DB ==
    [products |-> PRODUCT_POOL,
     orders |-> ORDER_POOL,
     bargains |-> {Bargain("g1", "ann", "p1", 1),
                   [Bargain("g2", "bob", "p1", 2) EXCEPT !.seller = "bob"],
                   Bargain("g3", "ann", "p1", 3)},
     coupons |-> {Coupon("save", TRUE, 1, <<"ann", "ann">>),
                  [Coupon("save", FALSE, 2, <<"bob">>) EXCEPT
                      !.seller = "bob"],
                  Coupon("gift", TRUE, 3, <<"bob">>)},
     carts |-> {[user |-> "ann", at |-> 1, discount |-> 0,
                 items |-> <<Item("p1", 2, 150), Item("p9", 1, 7)>>],
                [user |-> "bob", at |-> 2, discount |-> 50,
                 items |-> <<Item("p5", 3, 150)>>]},
     addresses |-> {[user |-> "ann", at |-> 1, city |-> "x", default |-> FALSE],
                    [user |-> "ann", at |-> 2, city |-> "y", default |-> TRUE],
                    [user |-> "bob", at |-> 3, city |-> "z",
                     default |-> FALSE]},
     notifications |-> {[user |-> "ann", at |-> 1, read |-> FALSE],
                        [user |-> "ann", at |-> 2, read |-> TRUE],
                        [user |-> "bob", at |-> 3, read |-> FALSE]},
     users |-> {Shopper("ann", <<"p1", "p9">>, <<"p4">>, <<"bob", "dan">>),
                Shopper("bob", <<>>, <<"p5">>, <<>>),
                Shopper("cat", <<>>, <<>>, <<"ann", "bob">>)},
     livesessions |-> {[id |-> "l1", at |-> 1, status |-> "live",
                        sequence |-> <<"p3", "p1", "p9">>,
                        products |-> <<"p3", "p1", "p9", "p5">>,
                        comments |-> <<"hi", "", "wow">>],
                       [id |-> "l2", at |-> 2, status |-> "ended",
                        sequence |-> <<>>, products |-> <<"p2">>,
                        comments |-> <<>>]},
     bits |-> {[id |-> "b1", at |-> 1, trending |-> TRUE, views |-> 2,
                tag |-> "fun", products |-> <<"p2", "p1">>],
               [id |-> "b2", at |-> 2, trending |-> FALSE, views |-> 3,
                tag |-> "fun", products |-> <<>>]},
     reviews |-> {[product |-> "p1", at |-> 1, rating |-> 4, comment |-> "ok"],
                  [product |-> "p1", at |-> 2, rating |-> 5, comment |-> ""]},
     payouts |-> {[ref |-> "o1", seller |-> "cat", status |-> "paid"],
                  [ref |-> "o1", seller |-> "bob", status |-> "pending"]},
     ranking |-> <<"p3", "p9", "p1", "p4", "p5">>,
     indexed |-> TRUE, tagged |-> TRUE, vectors |-> TRUE,
     embedder |-> TRUE]

-----------------------------------------------------------------------------
(***************************************************************************)
(* Variations: one document missing, or every embedding, or an index, the  *)
(* model's tag or the endpoint that embeds a query.                        *)
(***************************************************************************)
Collections == {"products", "orders", "bargains", "coupons", "carts",
                "addresses", "notifications", "users", "livesessions",
                "bits", "reviews"}

Services == {"indexed", "tagged", "vectors", "embedder"}

Whole == [in |-> "nothing", at |-> 0]
Gaps == {Whole} \union [in : Services \union {"ranking"}, at : {0}]
          \union UNION {{[in |-> c, at |-> d.at] : d \in DB[c]}
                            : c \in Collections \ {"users"}}

DatabaseWithout(gap) ==
    IF gap.in = "nothing" THEN DB
    ELSE IF gap.in = "ranking" THEN [DB EXCEPT !.ranking = <<>>]
    ELSE IF gap.in \in Services THEN [DB EXCEPT ![gap.in] = FALSE]
    ELSE [DB EXCEPT ![gap.in] = {d \in @ : d.at # gap.at}]

-----------------------------------------------------------------------------
(***************************************************************************)
(* What the model may write as arguments: the parameters a tool must have, *)
(* up to two it may have, and sometimes a user or a name nobody knows.     *)
(***************************************************************************)
ValuesOf(name) ==
    CASE name = "order_id" -> <<"o1", "o2">>
      [] name = "product_id" -> <<"p1", "p2", "p3">>
      [] name = "session_id" -> <<"l1", "l2">>
      [] name = "bit_id" -> <<"b1", "b9">>
      [] name = "bargain_id" -> <<"g2", "g3">>
      [] name = "seller_id" -> <<"cat", "ann">>
      [] name = "user_id" -> <<"ann", "bob">>
      [] name = "limit" -> <<1, 9>>
      [] name = "min_price" -> <<0, 145>>
      [] name = "max_price" -> <<145, 999>>
      [] name = "sample_size" -> <<1, 2>>
      [] name = "cart_total" -> <<9, 10>>
      [] name = "in_stock_only" -> <<TRUE, FALSE>>
      [] name = "color" -> <<"red", "blue">>
      [] name = "size" -> <<"S", "M">>
      [] name = "category" -> <<"tops", "home">>
      [] name = "sub_category" -> <<"tees", "tanks">>
      [] name = "query" -> <<"cosy", "">>
      [] name = "name" -> <<"shirt", "mug">>
      [] name = "hashtag" -> <<"fun", "sad">>
      [] name = "code" -> <<"save", "gift">>
      [] name = "kind" -> <<"followers", "following", "friends">>
      [] OTHER -> <<"x", "y">>

Extras(tool) ==
    {S \in SUBSET (Optional(tool) \union {"user_id"}) :
        Cardinality(S) <= 2 \/ S = {"color", "size", "in_stock_only"}}
       \union {{"note"}}

ArgumentsOf(tool) ==
    UNION {{[a \in S |-> ValuesOf(a)[pick[a]]]
                : pick \in {f \in [S -> 1..3] :
                               \A a \in S : f[a] <= Len(ValuesOf(a))}}
               : S \in {Required(tool) \union E : E \in Extras(tool)}}
=============================================================================
