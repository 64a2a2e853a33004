------------------------------ MODULE MCRules ------------------------------
(***************************************************************************)
(* The parts that keep no state between calls.  A state is one question    *)
(* put to them, of the kind subject.of: a message list and a stream grow a *)
(* step at a time, every other question is put at once.                    *)
(***************************************************************************)
EXTENDS Demo, Allowlist, Auth, Logging, Providers, Replies, Trimming

CONSTANTS MaxLength, MaxTurns,   \* bounds: messages of a list, turns kept
          MaxFrames              \* bound: frames of a streamed reply

ASSUME BoundsAreNatural ==
    MaxLength \in Nat /\ MaxTurns \in Nat /\ MaxFrames \in Nat

VARIABLE subject

About(kind) == subject.of = kind

-----------------------------------------------------------------------------
(***************************************************************************)
(* Message lists: whole ones, and such as a broken turn leaves behind.     *)
(***************************************************************************)
Kinds == {SystemPrompt, UserTurn, Answer, ToolResult(1)}
           \union {ToolCalls(k, FALSE) : k \in 1..2}

BeginList == /\ About("nothing")
             /\ \E n \in 1..MaxTurns :
                   subject' = [of |-> "list", ms |-> <<>>, n |-> n]

GrowList == /\ About("list")
            /\ Len(subject.ms) < MaxLength
            /\ \E m \in Kinds :
                  subject' = [subject EXCEPT !.ms = Append(@, m)]

-----------------------------------------------------------------------------
(***************************************************************************)
(* Streams.  said is the message the provider is sending in pieces; it     *)
(* numbers its calls from 0 and sends the id with the first piece.         *)
(***************************************************************************)
Silence == [of |-> "stream", frames |-> <<>>,
            said |-> [text |-> <<>>, calls |-> <<>>]]

BeginStream == About("nothing") /\ subject' = Silence

Piece == Len(subject.frames) + 1

Sends(frame, said) ==
    /\ About("stream")
    /\ Len(subject.frames) < MaxFrames
    /\ subject' = [subject EXCEPT !.frames = Append(@, frame), !.said = said]

SendNoise ==
    /\ About("stream")
    /\ \E kind \in {"unreadable", "usage"} :
          Sends([kind |-> kind, tokens |-> 7], subject.said)

SendWords ==
    /\ About("stream")
    /\ Sends([kind |-> "words", text |-> Piece],
             [subject.said EXCEPT !.text = Append(@, Piece)])

\* Pieces of one or of several calls, in one frame.
Fragment(index, id, name, arguments, extra) ==
    [index |-> index, id |-> id, name |-> name, arguments |-> arguments,
     extra |-> extra]

Grown(calls, f) ==
    LET call == [id |-> f.id, name |-> f.name, arguments |-> f.arguments,
                 extra |-> f.extra]
        old == calls[f.index + 1]
    IN  IF f.index = Len(calls) THEN Append(calls, call)
        ELSE [calls EXCEPT ![f.index + 1] =
                 [old EXCEPT !.name = IF f.name = None THEN @ ELSE f.name,
                             !.arguments = @ \o f.arguments,
                             !.extra = @ \union f.extra]]

Opening(index) ==
    {Fragment(index, <<"id", index>>, name, arguments, {})
        : name \in {None, <<"search">>}, arguments \in {<<>>, <<Piece>>}}
Continuing(index) ==
    {Fragment(index, None, None, <<Piece>>, {}),
     Fragment(index, None, <<"search">>, <<>>, {"signature"})}

SendCall ==
    /\ About("stream")
    /\ Len(subject.said.calls) < 2
    /\ \E f \in Opening(Len(subject.said.calls)) :
          Sends([kind |-> "calls", fragments |-> <<f>>],
                [subject.said EXCEPT !.calls = Grown(@, f)])

SendMoreOfCalls ==
    /\ About("stream")
    /\ \E first, second \in 0..(Len(subject.said.calls) - 1) :
       \E f \in Continuing(first), g \in Continuing(second) :
          Sends([kind |-> "calls", fragments |-> <<f, g>>],
                [subject.said EXCEPT !.calls = Grown(Grown(@, f), g)])

Refusal ==
    /\ About("nothing")
    /\ \E status \in {400, 401, 429, 500},
          body \in {"prose", "object", "list"}, named \in BOOLEAN :
          subject' = [of |-> "refusal",
                      response |-> [status |-> status, body |-> body,
                                    named |-> named,
                                    code |-> <<"tool_use_failed">>]]

\* Up to three texts to embed; a response may be refused, out of order, or
\* short of an item.
Orders(n) == {o \in [1..n -> 1..n] : \A i, j \in 1..n : o[i] = o[j] => i = j}

Responses(batch) ==
    {[status |-> status,
      items |-> [i \in 1..m |-> [index |-> o[i] - 1,
                                 embedding |-> batch[o[i]]]]]
        : status \in {200, 429}, o \in Orders(Len(batch)),
          m \in {Len(batch), Len(batch) - 1}}

\* One to each batch.
Answers(batches) ==
    {rs \in [DOMAIN batches -> UNION {Responses(batches[b])
                                         : b \in DOMAIN batches}] :
        \A b \in DOMAIN batches : rs[b] \in Responses(batches[b])}

Embedding ==
    /\ About("nothing")
    /\ \E n \in 1..3 :
       LET texts == [i \in 1..n |-> i]
       IN  \E responses \in Answers(Batches(texts)) :
              subject' = [of |-> "embedding", texts |-> texts,
                          responses |-> responses]

-----------------------------------------------------------------------------
(***************************************************************************)
(* Settings: the keys of every provider, the credit, the line that names   *)
(* the database; and for a request its header and the users who may go on. *)
(***************************************************************************)
Complete ==
    [mongodb_uri |-> Raw("uri"), jwt_secret |-> Raw("secret"),
     database |-> <<"zatch">>, jwt_algorithm |-> Absent, claims |-> <<"">>,
     backup_kind |-> Absent, window |-> 60, azure |-> {Absent},
     backup |-> {Absent}, backup_trains |-> FALSE, groq |-> Absent,
     gemini |-> Absent, credit |-> [readable |-> FALSE, days |-> 0],
     audience |-> Absent, issuer |-> Absent]

DatabaseLines ==
    {<<"zatch">>, <<" ", "zatch", " ">>, <<"zatch", " ", "#", "staging">>,
     <<"demo", "#", "zatch">>, <<" ", "#", "zatch">>}

Keys == {Raw("key"), Absent, Untidy("")}

ChainQuestion ==
    /\ About("nothing")
    /\ \E line \in DatabaseLines, azure \in SUBSET Keys \ {{}},
          backup \in {{Raw("key")}, {Raw("key"), Absent}},
          groq, gemini \in {Raw("key"), Absent}, trains \in BOOLEAN,
          readable \in BOOLEAN, days \in {-1, 0, 1, 3, 4, 14, 15} :
          subject' = [of |-> "chain", env |->
              [Complete EXCEPT !.database = line, !.azure = azure,
                  !.backup = backup, !.groq = groq, !.gemini = gemini,
                  !.backup_trains = trains,
                  !.credit = [readable |-> readable, days |-> days]]]

Tokens ==
    [alg : {"HS256", "HS512", "none"}, signed : BOOLEAN,
     exp : {"later", "past"}, aud : {"absent", "zatch", "other"},
     iss : {"absent", "zatch"},
     claims : {[c \in {"sub"} |-> "ann"], [c \in {"user_id"} |-> "bob"],
               [c \in {"email"} |-> "ann"],
               [c \in {"user_id", "sub"} |-> IF c = "sub" THEN "ann" ELSE ""],
               [c \in {"user_id", "sub"} |-> IF c = "sub" THEN "ann"
                                             ELSE "bob"]}]

Login ==
    /\ About("nothing")
    /\ \E algorithm \in {Absent, Untidy("HS512"), Raw("RS256"), Raw("MD5")},
          claims \in {<<"">>, <<"sub", "", "user_id">>, <<"email">>,
                      <<"", "">>},
          audience \in {Absent, Raw("zatch")},
          issuer \in {Untidy(""), Untidy("zatch")},
          given \in BOOLEAN, token \in Tokens,
          allowed \in {{"ann"}, {"ann", "bob"}} :
          subject' = [of |-> "login",
              env |-> [Complete EXCEPT !.jwt_algorithm = algorithm,
                          !.claims = claims, !.audience = audience,
                          !.issuer = issuer],
              header |-> [given |-> given, token |-> token],
              allowed |-> allowed]

-----------------------------------------------------------------------------
(***************************************************************************)
(* Documents and allowlists, made up and real.                             *)
(***************************************************************************)
Paths == {<<"a">>, <<"b">>, <<"a", "x">>, <<"a", "y">>}

Values == {Plain, Null} \union {Object(subs) : subs \in SUBSET {"x", "y"}}

Document ==
    /\ About("nothing")
    /\ \E fields \in SeqOf(Paths, 3), present \in SUBSET {"_id", "a", "b"} :
       \E doc \in [present -> Values] :
          subject' = [of |-> "document", fields |-> fields, doc |-> doc]

Collection ==
    /\ About("nothing")
    /\ \E name \in DOMAIN Allowed :
          subject' = [of |-> "collection", name |-> name]

\* Names that mean nothing, a secret, a count of tokens.
Names == {[blocked |-> FALSE, safe |-> FALSE],
          [blocked |-> TRUE, safe |-> FALSE],
          [blocked |-> TRUE, safe |-> TRUE]}
Links == [via : {"dict", "dataclass", "list", "object"}, name : Names]

LogLine ==
    /\ About("nothing")
    /\ \E key \in Names, links \in SeqOf(Links, MAX_REDACTION_DEPTH + 1) :
          subject' = [of |-> "log", key |-> key, links |-> links]

-----------------------------------------------------------------------------
(***************************************************************************)
(* Tool calls and coupons.                                                 *)
(***************************************************************************)
Call ==
    /\ About("nothing")
    /\ \E tool \in TOOLS \union {"drop_tables"}, gap \in Gaps,
          user \in Shoppers :
       \E args \in ArgumentsOf(tool) :
          subject' = [of |-> "call", tool |-> tool, gap |-> gap,
                      user |-> user, args |-> args]

SellerQuestion ==
    /\ About("nothing")
    /\ \E user \in Shoppers \union {"cat"}, gap \in Gaps,
          ref \in {"o1", "o2"}, code \in {"save", "gift"} :
          subject' = [of |-> "seller", user |-> user, gap |-> gap,
                      ref |-> ref, code |-> code]

CouponQuestion ==
    /\ About("nothing")
    /\ \E active \in BOOLEAN, end \in {-1, 4}, minSpend \in {0, 10},
          maxUse \in -1..2,
          usedBy \in {<<>>, <<"bob">>, <<"ann">>, <<"ann", "ann">>},
          now \in {1, 2, 4, 5}, total \in {-1, 9, 10} :
          subject' = [of |-> "coupon", now |-> now, total |-> total,
              coupon |-> [Coupon("late", TRUE, 9, usedBy) EXCEPT
                             !.active = active, !.end = end,
                             !.minSpend = minSpend, !.maxUse = maxUse]]

-----------------------------------------------------------------------------
Init == subject = [of |-> "nothing"]

Next == \/ BeginList \/ GrowList
        \/ BeginStream \/ SendNoise \/ SendWords \/ SendCall
        \/ SendMoreOfCalls \/ Refusal \/ Embedding
        \/ ChainQuestion \/ Login \/ Document \/ Collection \/ LogLine
        \/ Call \/ SellerQuestion \/ CouponQuestion

Spec == Init /\ [][Next]_subject

-----------------------------------------------------------------------------
(***************************************************************************)
(* Message lists.                                                          *)
(***************************************************************************)
ms == subject.ms
Trimmed == TrimByTurns(ms, subject.n)

\* The loop over turns keeps exactly the prompt and the last n turns.
KeepsRecentTurns == Trimmed = RecentTurns(ms, subject.n)

\* What was whole is whole after the cut.
NeverSplits == WholeExchanges(ms) => WholeExchanges(Trimmed)

\* Saving again what was read back changes nothing.
TrimsOnce == TrimByTurns(Trimmed, subject.n) = Trimmed

(* What save_session keeps of any list is its prompt and its most recent   *)
(* turns; a tool_calls/tool-response pair is never split, and trimming     *)
(* twice is trimming once (session_store.py, lines 36-39 and 97-116).      *)
TrimsRight == About("list") => KeepsRecentTurns /\ NeverSplits /\ TrimsOnce

-----------------------------------------------------------------------------
(***************************************************************************)
(* Replies.                                                                *)
(***************************************************************************)
\* complete() has no call without a name, stream() drops it.
Said == [subject.said EXCEPT
            !.calls = Only(@, {c \in ToSet(@) : c.name # None})]

\* What goes back to the provider has all it sent, its signature included.
ComesBack ==
    \A i \in DOMAIN Said.calls :
        MessagePart(Streamed(subject.frames).tool_calls[i]).extra
            = Said.calls[i].extra

\* A vector is the one of its own text, or none is used.
VectorsAligned ==
    LET all == \A b \in DOMAIN subject.responses :
                   LET r == subject.responses[b]
                   IN  /\ r.status = 200
                       /\ Len(r.items) = Len(Batches(subject.texts)[b])
    IN  EmbedTexts(subject.texts, subject.responses)
            = IF all THEN {subject.texts} ELSE {}

(* However a reply is cut into frames, with noise between them and the     *)
(* pieces of its calls interleaved, stream() makes of it what complete()   *)
(* makes of the same message sent whole, the user has heard exactly its    *)
(* words, and the history gets every field of its calls (llm_client.py,    *)
(* lines 681-778).  A refusal has its code, whatever its body looks like,  *)
(* and a batch of embeddings its vectors, whatever their order.            *)
RepliesAreWhole ==
    /\ About("stream") =>
        /\ Streamed(subject.frames) = Buffered(Said)
        /\ Heard(subject.frames) = Said.text
        /\ ComesBack
    /\ About("embedding") => VectorsAligned
    /\ About("refusal") /\ subject.response.status = 400 =>
        LET known == subject.response.body # "prose" /\ subject.response.named
        IN  Raised(subject.response).code
                = IF known THEN <<"tool_use_failed">> ELSE None

-----------------------------------------------------------------------------
(***************************************************************************)
(* The chain of providers.                                                 *)
(***************************************************************************)
env == subject.env

\* A person reads the name of the real database in the line: it is the only
\* word before a comment.
SaysReal(line) ==
    LET read == {i \in DOMAIN line :
                    line[i] # " " /\ \A j \in 1..i : line[j] # "#"}
    IN  \E i \in read : read = {i} /\ line[i] = "zatch"

Keeps(p) == p = "azure" \/ (p = "backup" /\ ~env.backup_trains)

(* A service that starts on the real database, however the line that names *)
(* it is written, has no provider that trains on prompts in its chain; and *)
(* it leaves out no other (llm_client.py, lines 151-284, and settings.py,  *)
(* lines 340-376).                                                         *)
RealDataStaysPrivate ==
    About("chain") /\ Starts(env) =>
        \A p \in {"azure", "backup", "groq", "gemini"} :
            p \in ToSet(Chain(env))
                <=> /\ Configured(env, p)
                    /\ SaysReal(env.database) => Keeps(p)

Worry == [ok |-> 0, at_risk |-> 1, critical |-> 2]
WorryWith(days) ==
    Worry[Level([env EXCEPT !.credit = [readable |-> TRUE, days |-> days]])]

\* The chain once this provider answers no more.
ChainWithout(p) == Only(Chain(env), ToSet(Chain(env)) \ {p})

\* Both transports ask for the same, each in its own words.
RequestsAgree ==
    \A tools \in SUBSET {"t"}, p \in ToSet(Chain(env)) :
        LET buffered == BuildRequest(Kind(env, p),
                                     Payload(tools, "auto", FALSE)).body
            streamed == BuildRequest(Kind(env, p),
                                     Payload(tools, "auto", TRUE)).body
        IN  /\ streamed = [buffered EXCEPT !.streamed = TRUE]
            /\ Cardinality(streamed.limits) = 1

HealthIsTold ==
    \A client, pings \in BOOLEAN :
        LET health == Health(env, client, pings)
        IN  /\ Chain(env) = <<>> \/ ~client \/ ~pings =>
                 health.status = "degraded"
            /\ client /\ pings /\ Level(env) = "at_risk" =>
                 health.status = "ok" /\ health.llm = "warning"

(* The health of the chain is never ok while one provider that fails would *)
(* take the service down, it is critical when none is left, when the       *)
(* credit has lapsed or when it lapses within three days and nothing else  *)
(* can answer, and a credit that has less to go never looks better         *)
(* (llm_client.py, lines 306-378).  Either transport sends one limit.      *)
(* /health says degraded of a service that cannot answer, and never of one *)
(* that is only at risk.                                                   *)
NoQuietOutage ==
    About("chain") /\ Starts(env) =>
        /\ (\E p \in ToSet(Chain(env)) : ChainWithout(p) = <<>>)
               => Level(env) # "ok"
        /\ Chain(env) = <<>> => Level(env) = "critical"
        /\ Chain(env) # <<>> =>
            /\ \A d \in -1..15 : WorryWith(d) <= WorryWith(d - 1)
            /\ \A d \in -1..14 : WorryWith(d) >= 1
            /\ WorryWith(-1) = 2
            /\ Len(Chain(env)) = 1 => WorryWith(CREDIT_CRITICAL_DAYS) = 2
        /\ RequestsAgree
        /\ HealthIsTold

-----------------------------------------------------------------------------
(***************************************************************************)
(* Requests and their users.                                               *)
(***************************************************************************)
Answered == Admit(env, subject.header, subject.allowed)
Token == subject.header.token

\* Signed by the shared secret, for this service, not expired.
Genuine ==
    /\ Token.signed /\ Token.exp = "later"
    /\ Token.alg = IF Blank(env.jwt_algorithm) THEN "HS256"
                   ELSE env.jwt_algorithm.word
    /\ Blank(env.audience) \/ Token.aud = env.audience.word
    /\ Blank(env.issuer) \/ Token.iss = env.issuer.word

Says(claim) == claim \in DOMAIN Token.claims /\ Token.claims[claim] # ""

\* The user in the first configured claim that says something, if one does.
Claimed ==
    LET names == Claims(env.claims)
    IN  {Token.claims[names[i]]
            : i \in {k \in DOMAIN names :
                        Says(names[k]) /\ \A j \in 1..(k - 1) : ~Says(names[j])}}

(* A request goes on only for the user that a genuine token of this        *)
(* service names in its first configured claim that has a name in it; the  *)
(* rate limiter counts that user and nobody a refused token claims to be;  *)
(* and every such token is admitted, the ones create_test_token makes      *)
(* among them (auth.py, dependencies.py).                                  *)
VerifiedUserOnly ==
    About("login") /\ Starts(env) =>
        LET good == subject.header.given /\ Genuine /\ Claimed # {}
        IN  /\ Answered.status # 401 <=> good
            /\ good => /\ Answered.user \in Claimed
                       /\ Answered.counted = {Answered.user}
                       /\ Answered.status = 200
                            <=> Answered.user \in subject.allowed
            /\ ~good => Answered.counted = {}
            /\ Algorithm(env.jwt_algorithm) \in Symmetric =>
                 VerifyToken(env, CreateTestToken(env, "ann")) = User("ann")

-----------------------------------------------------------------------------
(***************************************************************************)
(* Documents.                                                              *)
(***************************************************************************)
Listed(fields, f) == <<f>> \in ToSet(fields)
ListedIn(fields, f) ==
    {p[2] : p \in {q \in ToSet(fields) : Len(q) = 2 /\ q[1] = f}}
OneWay(fields, f) == ~Listed(fields, f) \/ ListedIn(fields, f) = {}

NothingUnlisted(fields, doc) ==
    LET left == Sanitize(fields, doc)
    IN  \A f \in DOMAIN left \ {"_id"} :
            \/ Listed(fields, f)
            \/ /\ ListedIn(fields, f) # {}
               /\ left[f].subs \subseteq ListedIn(fields, f)
               /\ left[f].kind # "plain"

ListedStays(fields, doc) ==
    LET left == Sanitize(fields, doc)
    IN  \A f \in DOMAIN doc : OneWay(fields, f) =>
            /\ Listed(fields, f) => f \in DOMAIN left /\ left[f] = doc[f]
            /\ ListedIn(fields, f) # {} /\ doc[f].kind = "object" =>
                 /\ f \in DOMAIN left
                 /\ left[f].subs = doc[f].subs \intersect ListedIn(fields, f)

\* Asking MongoDB for the listed fields only changes no answer.
ProjectionLosesNothing(fields, doc) ==
    LET left == Sanitize(fields, doc)
        asked == Sanitize(fields, Project(fields, doc))
    IN  (\A f \in DOMAIN doc : OneWay(fields, f)) =>
            /\ \A f \in DOMAIN asked : f \in DOMAIN left /\ asked[f] = left[f]
            /\ \A f \in DOMAIN left \ DOMAIN asked : left[f] = Null

\* The comments of field_allowlist.py: these must not leave.
NEVER ==
    {<<"password">>, <<"refreshToken">>, <<"phone">>, <<"email">>, <<"dob">>,
     <<"isAdmin">>, <<"searchHistory">>, <<"monthlyRevenue">>,
     <<"yearlyRevenue">>, <<"payoutDestination">>, <<"usedBy">>,
     <<"embeddingHash">>, <<"payment">>, <<"buyerNote">>, <<"sellerNote">>,
     <<"location">>, <<"stepData">>, <<"refreshTokenExpiry">>,
     <<"countryCode">>, <<"globalBargainSettings">>, <<"line1">>,
     <<"line2">>, <<"coordinates">>,
     <<"sellerProfile", "bankDetails">>, <<"sellerProfile", "documents">>,
     <<"sellerProfile", "address">>, <<"sellerProfile", "rejectionMessage">>,
     <<"deliveryAddress", "line1">>, <<"deliveryAddress", "line2">>,
     <<"deliveryAddress", "phone">>, <<"deliveryAddress", "coordinates">>,
     <<"invoice", "number">>}

\* A document with every field there is, listed or forbidden.
Everything(name) ==
    LET all == ToSet(Allowed[name]) \union NEVER
    IN  [f \in {p[1] : p \in all} |->
            Object({p[2] : p \in {q \in all : Len(q) = 2 /\ q[1] = f}})]

ForbiddenStaysIn ==
    LET left == Sanitize(Allowed[subject.name], Everything(subject.name))
    IN  \A p \in NEVER : p[1] \in DOMAIN left =>
            Len(p) = 2 /\ p[2] \notin left[p[1]].subs

\* MongoDB refuses a projection of a field and of a part of it.
NoCollision ==
    \A p, q \in ToSet(Allowed[subject.name]) : p[1] = q[1] => Len(p) = Len(q)

\* A secret is not shown, unless inside an object that is not looked into,
\* and nothing is withheld that is not one, but for its depth.
SecretsStayOut(key, links) ==
    LET Opaque(i) == \E j \in 1..i : links[j].via = "object"
        secret == IsSensitiveKey(key) \/
                    \E i \in DOMAIN links : /\ ~Opaque(i) /\ Named(links[i])
                                           /\ IsSensitiveKey(links[i].name)
        fate == RedactSensitiveData(key, links)
    IN  /\ secret => fate # "shown"
        /\ fate = "redacted" => secret
        /\ fate = "truncated" => Len(links) >= MAX_REDACTION_DEPTH

(* No field that is not listed leaves, whatever shape the data has, and    *)
(* what is listed is not lost on the way, neither in the projection nor in *)
(* the sanitizer; the fields the allowlist's comments exclude do not leave *)
(* any collection (sanitizer.py, field_allowlist.py).  Into the log no     *)
(* value goes under a name that marks a secret (logging.py).               *)
OnlyListedLeaves ==
    /\ About("document") =>
        /\ NothingUnlisted(subject.fields, subject.doc)
        /\ ListedStays(subject.fields, subject.doc)
        /\ ProjectionLosesNothing(subject.fields, subject.doc)
    /\ About("collection") => ForbiddenStaysIn /\ NoCollision
    /\ About("log") => SecretsStayOut(subject.key, subject.links)

-----------------------------------------------------------------------------
(***************************************************************************)
(* Tool calls.                                                             *)
(***************************************************************************)
Data == DatabaseWithout(subject.gap)

Outcome(db) == ExecuteTool(db, subject.tool, subject.args, subject.user, Now)

\* The database as far as it is this shopper's or anyone's.
Visible(db, user) ==
    [db EXCEPT
        !.orders = {o \in @ : o.buyer = user},
        !.bargains = {b \in @ : b.buyer = user},
        !.carts = {c \in @ : c.user = user},
        !.addresses = {a \in @ : a.user = user},
        !.notifications = {n \in @ : n.user = user},
        !.coupons = {[c EXCEPT !.usedBy = Only(@, {user})]
                        : c \in @},
        !.users = {IF u.id = user THEN u
                   ELSE [u EXCEPT !.saved = <<>>, !.liked = <<>>,
                                  !.savedBits = <<>>, !.followers = <<>>,
                                  !.following = <<>>] : u \in @}]

\* seller_repo.py, which no tool reaches yet.
Performance(db) ==
    <<IsSeller(db, subject.user),
      PayoutStatus(db, subject.user, subject.ref),
      CouponPerformance(db, subject.user, subject.code),
      PendingBargains(db, subject.user)>>

Business(db, user) ==
    [db EXCEPT !.payouts = {p \in @ : p.seller = user},
               !.coupons = {c \in @ : c.seller = user},
               !.bargains = {b \in @ : b.seller = user}]

(* Whatever tool the model calls, with whatever arguments, the ids of      *)
(* somebody else's order or a user_id of its own among them, the answer    *)
(* depends on nothing that another shopper keeps private                   *)
(* (tool_executor.py, lines 475-493, and the repositories); nor does a     *)
(* seller's on another's business (seller_repo.py).                        *)
OwnAnswersOnly ==
    /\ About("call") =>
        Outcome(Data) = Outcome(Visible(Data, subject.user))
    /\ About("seller") =>
        Performance(Data) = Performance(Business(Data, subject.user))

args == subject.args
TheAnswer == CHOOSE a \in Outcome(Data).answer : TRUE
ListTools == BROWSING \union {"get_order_history", "get_live_now",
                              "get_trending_bits", "search_by_hashtag"}

ShortLists ==
    subject.tool \in ListTools =>
        Len(TheAnswer) <= IF "limit" \in DOMAIN args /\ args.limit = 1 THEN 1
                          ELSE LLM_LIST_LIMIT_CAP

NoTwins ==
    \A i, j \in DOMAIN TheAnswer : Alike(TheAnswer[i], TheAnswer[j]) => i = j

\* The card has a photo; and where something the model is shown has one,
\* the card is that or something shown before it.
CardBelongs ==
    LET pictured == {p.id : p \in {q \in Data.products : q.photo}}
        card == Outcome(Data).card
    IN  /\ \A c \in card : c.id \in pictured
        /\ \A i \in DOMAIN TheAnswer :
              TheAnswer[i].id \in pictured =>
                \E c \in card : \E j \in 1..i : Alike(TheAnswer[j], c)

\* The two questions about stock agree, where a variant is there once.
StockAgrees ==
    "in_stock_only" \in DOMAIN args /\ args.in_stock_only
      /\ {"color", "size"} \subseteq DOMAIN args =>
        \A l \in ToSet(TheAnswer) :
            VariantStock(Data, l.id, args.color, args.size)
                = {[found |-> TRUE, out |-> FALSE]}

NewToThem ==
    LET user == CHOOSE u \in FindUser(Data, subject.user) : TRUE
    IN  \A l \in ToSet(TheAnswer) :
            \/ l.id \notin ToSet(user.saved) \union ToSet(user.liked)
            \/ Recommendations(Data, subject.user, 2) = Trending(Data, 2)

ForSale ==
    \A l \in ToSet(TheAnswer) : \E p \in Data.products : p.id = l.id /\ ~p.sold

\* The more alike the earlier.
InRankingOrder ==
    LET Rank(id) == SelectInSeq(Data.ranking, LAMBDA i : i = id)
    IN  \A i, j \in DOMAIN TheAnswer :
            i < j => Rank(TheAnswer[i].id) < Rank(TheAnswer[j].id)

BrowsingIsTrue ==
    subject.tool \in BROWSING =>
        /\ NoTwins /\ CardBelongs /\ ForSale
        /\ subject.tool = "search_products" => StockAgrees
        /\ subject.tool = "search_products_semantically" /\ TheAnswer # <<>>
             => Data.tagged
        /\ subject.tool = "get_recommendations" => NewToThem
        /\ subject.tool \in {"search_products_semantically",
                             "find_similar_products"} => InRankingOrder

\* The shopper's cart, as the database has it.
OwnCart ==
    LET own == {c \in Data.carts : c.user = subject.user}
    IN  IF own = {} THEN [items |-> <<>>, discount |-> 0]
        ELSE CHOOSE c \in own : TRUE

Worth(items) == MapThenSumSet(LAMBDA n : items[n].price * items[n].qty,
                              DOMAIN items)

\* The items and their sum are the cart's own.  A discount it has may be
\* left out, as get_cart leaves it, but no other is made up.
CartAddsUp ==
    subject.tool = "get_cart" =>
        LET items == OwnCart.items
            lines == TheAnswer.lines
        IN  /\ DOMAIN lines = DOMAIN items
            /\ \A n \in DOMAIN items :
                  /\ lines[n].qty = items[n].qty
                  /\ lines[n].price = items[n].price
                  /\ \A p \in FindProduct(Data, items[n].product) :
                        lines[n].name = p.name
            /\ TheAnswer.subtotal = Worth(items)
            /\ TheAnswer.discount \in {0, OwnCart.discount}
            /\ TheAnswer.total = TheAnswer.subtotal - TheAnswer.discount

LateIsLate ==
    subject.tool = "get_order_history" =>
        \A line \in ToSet(TheAnswer), o \in Data.orders :
            o.ref = line.ref /\ line.daysLate > 0 =>
                /\ o.status \notin {"delivered", "cancelled"}
                /\ Now - o.expected >= line.daysLate * Day

\* Half a unit from the deepest discount the seller allows.
OfferIsClose ==
    subject.tool = "suggest_offer_amount" =>
        \A a \in Outcome(Data).answer,
           p \in FindProduct(Data, args.product_id) :
            a.available =>
                100 * a.offer - p.price * (100 - p.maxDiscount) \in -50..50

\* A call as the schema has it reaches its tool; a user_id does no harm
\* where there is one.
BySchema ==
    /\ Required(subject.tool) \subseteq DOMAIN args
    /\ \A a \in DOMAIN args \ Required(subject.tool) :
          \/ a \in Optional(subject.tool)
          \/ a = "user_id" /\ subject.tool \in NeedsUser
    /\ "kind" \in DOMAIN args => args.kind \in FollowKinds

SchemaIsAccepted == BySchema /\ Data.tagged => ~Outcome(Data).error

-----------------------------------------------------------------------------
(***************************************************************************)
(* Coupons.                                                                *)
(***************************************************************************)
Verdict ==
    CHOOSE v \in CheckCoupon([DB EXCEPT !.coupons = @ \union {subject.coupon}],
                             "late", "ann", subject.now, subject.total) : TRUE

Uses == Len(Only(subject.coupon.usedBy, {"ann"}))

\* Whatever stands against the coupon.
Objections ==
    LET c == subject.coupon
        When(fails, reason) == IF fails THEN {reason} ELSE {}
    IN  When(~c.active, "inactive")
          \union When(subject.now < c.start, "not_started_yet")
          \union When(c.end >= 0 /\ c.end < subject.now, "expired")
          \union When(subject.total >= 0 /\ c.minSpend > subject.total,
                      "min_spend_not_met")
          \union When(c.maxUse >= 0 /\ Uses >= c.maxUse,
                      "usage_limit_reached")

(* A coupon that is refused is refused for a reason that holds, so one     *)
(* that nothing stands against is said to be good; and what is said to be  *)
(* good has nothing against it, at the edges of its dates, its minimum and *)
(* a limit of at most one use (coupons_repo.py, lines 59-113).  Of a limit *)
(* of two or more, which is not kept, UsageLimitHolds speaks.              *)
CouponsAreJudged ==
    About("coupon") =>
        /\ ~Verdict.valid => Verdict.reason \in Objections
        /\ Verdict.valid =>
             Objections \subseteq IF subject.coupon.maxUse < 2 THEN {}
                                  ELSE {"usage_limit_reached"}

(* What the model is told of the shop is so: lists are short, for sale,    *)
(* without twins and in the order of their ranking; nothing is ranked by   *)
(* another model's vectors; the card has a photo, and no later one than    *)
(* the first the model is shown; the lines of a cart and their sum, late   *)
(* orders, offers and stock agree with the documents; a call by the schema *)
(* is not refused; and coupons are judged as CouponsAreJudged says         *)
(* (tool_executor.py, products_repo.py, bargains_repo.py, coupons_repo.py).*)
(* Of the discount of a cart it says only that none is made up.            *)
AnswersAreTrue ==
    /\ CouponsAreJudged
    /\ About("call") /\ subject.tool \in TOOLS =>
        /\ SchemaIsAccepted
        /\ Outcome(Data).answer # {} =>
            ShortLists /\ BrowsingIsTrue /\ CartAddsUp /\ LateIsLate
        /\ OfferIsClose

(* A coupon is good only if this user hasn't hit maxUsagePerUser           *)
(* (coupons_repo.py, lines 24-27).                                         *)
UsageLimitHolds ==
    About("coupon") /\ Verdict.valid /\ subject.coupon.maxUse >= 0 =>
        Uses < subject.coupon.maxUse
=============================================================================
