----------------------------- MODULE Allowlist -----------------------------
(***************************************************************************)
(* field_allowlist.py: the fields of each collection the assistant may     *)
(* read, and the fields its comments say it must not.                      *)
(***************************************************************************)
EXTENDS Sanitizer

Flat(names) == [i \in DOMAIN names |-> <<names[i]>>]
Dates == <<"createdAt", "updatedAt">>

ORDERS == Flat(<<"orderId", "buyerId", "sellerId", "items", "pricing",
                "status", "statusHistory", "tracking", "orderType",
                "deliveryType", "dates", "review">> \o Dates)
            \o <<<<"invoice", "url">>, <<"invoice", "generatedAt">>,
                    <<"deliveryAddress", "city">>,
                    <<"deliveryAddress", "state">>>>

PRODUCTS == Flat(<<"SKU", "sellerId", "name", "description", "category",
                  "subCategory", "categoryType", "productType", "price",
                  "discountedPrice", "totalStock", "condition", "status",
                  "isSold", "isTopPick", "images", "variants", "shipping",
                  "bargainSettings", "tags", "searchKeywords", "viewCount",
                  "likeCount", "saveCount", "shareCount", "analytics">>
                   \o Dates)

BARGAINS == Flat(<<"productId", "buyerId", "sellerId", "originalPrice",
                  "productSnapshot", "offeredPrice", "currentPrice",
                  "discountPercentage", "status", "variant", "quantity",
                  "orderPlaced", "expiresAt", "autoAccepted",
                  "counterOffer", "respondedAt">> \o Dates)

CARTS == Flat(<<"user", "items", "coupon", "discount", "liveSessionId">>
                \o Dates)

COUPONS == Flat(<<"code", "name", "discountType", "discountValue",
                 "minSpend", "maxDiscount", "applicableProducts",
                 "sellerId", "isActive", "startDate", "endDate",
                 "maxUsagePerUser", "ordersUsed", "totalDiscountGiven",
                 "views", "viewsThisWeek">>)

LIVESESSIONS == Flat(<<"channelName", "title", "description", "hashtags",
                      "thumbnail", "hostId", "products", "productSequence",
                      "status", "isActive", "isTrending",
                      "scheduledStartTime", "startTime", "endTime",
                      "duration", "viewersCount", "peakViewers", "views",
                      "likeCount", "revenue", "comments">> \o Dates)

BITS == Flat(<<"title", "description", "video", "thumbnail", "hashtags",
              "products", "userId", "likeCount", "viewCount", "shareCount",
              "isActive", "isTrending", "createdAt">>)

REVIEWS == Flat(<<"productId", "reviewerId", "rating", "comment",
                 "createdAt">>)

ADDRESSES == Flat(<<"user", "type", "label", "city", "state", "pincode",
                   "isDefault">>)

NOTIFICATIONS == Flat(<<"userId", "type", "title", "message", "actionUrl",
                       "actionLabel", "isRead", "createdAt">>)

USERS == Flat(<<"username", "profilePic", "categoryType", "sellerStatus",
               "followerCount", "followers", "following", "reviewsCount",
               "productsSoldCount", "customerRating", "savedBits",
               "savedProducts", "likedProducts", "createdAt">>)
           \o <<<<"sellerProfile", "businessName">>>>

PAYOUTS == Flat(<<"orderRef", "orderTotal", "commission", "sellerAmount",
                 "status", "payoutMode", "sellerId">> \o Dates)

CATEGORIES == Flat(<<"name", "slug", "image", "subCategories">>)

PRODUCTVIEWS == Flat(<<"userId", "productId", "durationMs", "completedView",
                      "timestamp">>)

PRODUCT_EMBEDDINGS == Flat(<<"embedding">>)

Allowed == [orders |-> ORDERS, products |-> PRODUCTS, bargains |-> BARGAINS,
            carts |-> CARTS, coupons |-> COUPONS,
            livesessions |-> LIVESESSIONS, bits |-> BITS,
            reviews |-> REVIEWS, addresses |-> ADDRESSES,
            notifications |-> NOTIFICATIONS, users |-> USERS,
            payouts |-> PAYOUTS, categories |-> CATEGORIES,
            productviews |-> PRODUCTVIEWS,
            product_embeddings |-> PRODUCT_EMBEDDINGS]
=============================================================================
