---- MODULE Endpoints ----
(***************************************************************************)
(* The requests the clients of the five hosts make: for every method, the  *)
(* verb and path it sends, how it proves who is asking, whether its        *)
(* listing goes by cursor, and what serving it does to the account.  Query *)
(* parameters and the fields of bodies and answers are left out.           *)
(***************************************************************************)
EXTENDS Sequences

Endpoint(method, path, auth, effect) ==
  [method |-> method, path |-> path, auth |-> auth, effect |-> effect, paged |-> FALSE]

Get(path) == Endpoint("GET", path, "none", "none")
GetL2(path) == Endpoint("GET", path, "L2", "none")
PostL2(path, effect) == Endpoint("POST", path, "L2", effect)
DeleteL2(path, effect) == Endpoint("DELETE", path, "L2", effect)

(* A POST that only reads: a list of tokens or a filter rides in its body. *)
Ask(path) == Endpoint("POST", path, "none", "none")

(* A listing served a page at a time, from the cursor in the query. *)
ByCursor(e) == [e EXCEPT !.paged = TRUE]
---------------------------------------------------------------------------
(* clob: the exchange *)

ClobService == [Ping |-> Get("/ok"), Time |-> Get("/time")]

ClobMarkets ==
  [Markets                   |-> ByCursor(Get("/markets")),
   Market                    |-> Get("/markets/:id"),
   SimplifiedMarkets         |-> ByCursor(Get("/simplified-markets")),
   SamplingMarkets           |-> ByCursor(Get("/sampling-markets")),
   SamplingSimplifiedMarkets |-> ByCursor(Get("/sampling-simplified-markets")),
   MarketByToken             |-> Get("/markets-by-token/:token")]

ClobSummaries ==
  [ClobMarket         |-> Get("/clob-markets/:id"),
   MarketTradesEvents |-> Get("/markets/live-activity/:id")]

ClobPrices ==
  [OrderBook      |-> Get("/book"),             Books            |-> Ask("/books"),
   Midpoint       |-> Get("/midpoint"),         Midpoints        |-> Ask("/midpoints"),
   Price          |-> Get("/price"),            Prices           |-> Ask("/prices"),
   Spread         |-> Get("/spread"),           Spreads          |-> Ask("/spreads"),
   LastTradePrice |-> Get("/last-trade-price"), LastTradesPrices |-> Ask("/last-trades-prices")]

ClobHistory == [PricesHistory |-> Get("/prices-history")]

ClobMarketFacts ==
  [TickSize |-> Get("/tick-size"), NegRisk |-> Get("/neg-risk"), FeeRate |-> Get("/fee-rate")]

(* Level 1 is for these two only: the wallet signs for a key by its nonce. *)
ClobKeys ==
  [CreateAPIKey |-> Endpoint("POST", "/auth/api-key", "L1", "key"),
   DeriveAPIKey |-> Endpoint("GET", "/auth/derive-api-key", "L1", "none")]

ClobAccount ==
  [APIKeys              |-> GetL2("/auth/api-keys"),
   DeleteAPIKey         |-> DeleteL2("/auth/api-key", "revoke"),
   ClosedOnly           |-> GetL2("/auth/ban-status/closed-only"),
   CreateReadonlyAPIKey |-> PostL2("/auth/readonly-api-key", "issue"),
   ReadonlyAPIKeys      |-> GetL2("/auth/readonly-api-keys"),
   DeleteReadonlyAPIKey |-> DeleteL2("/auth/readonly-api-key", "dismiss")]

(* A builder credential revokes itself, under its own signature alone. *)
ClobBuilderKeys ==
  [CreateBuilderAPIKey |-> PostL2("/auth/builder-api-key", "issue"),
   BuilderAPIKeys      |-> GetL2("/auth/builder-api-key"),
   RevokeBuilderAPIKey |-> Endpoint("DELETE", "/auth/builder-api-key", "builder", "dismiss")]

ClobOrders ==
  [PostOrder |-> PostL2("/order", "trade"), PostOrders |-> PostL2("/orders", "trade")]

ClobCancels ==
  [CancelOrder        |-> DeleteL2("/order", "cancel"),
   CancelOrders       |-> DeleteL2("/orders", "cancel"),
   CancelAll          |-> DeleteL2("/cancel-all", "cancel"),
   CancelMarketOrders |-> DeleteL2("/cancel-market-orders", "cancel")]

ClobHoldings ==
  [Order              |-> GetL2("/data/order/:id"),
   OpenOrders         |-> ByCursor(GetL2("/data/orders")),
   PreMigrationOrders |-> ByCursor(GetL2("/data/pre-migration-orders")),
   Trades             |-> ByCursor(GetL2("/data/trades"))]

ClobScoring ==
  [IsOrderScoring   |-> GetL2("/order-scoring"),
   AreOrdersScoring |-> PostL2("/orders-scoring", "none")]

(* The refresh is a GET. *)
ClobBalances ==
  [BalanceAllowance       |-> GetL2("/balance-allowance"),
   UpdateBalanceAllowance |-> Endpoint("GET", "/balance-allowance/update", "L2", "refresh"),
   Notifications          |-> GetL2("/notifications"),
   DropNotifications      |-> DeleteL2("/notifications", "dismiss")]

ClobVersion == [APIVersion |-> Get("/version"), Heartbeat |-> PostL2("/v1/heartbeats", "alive")]

ClobRewards ==
  [UserRewards            |-> ByCursor(GetL2("/rewards/user")),
   UserRewardsTotal       |-> GetL2("/rewards/user/total"),
   UserRewardsPercentages |-> GetL2("/rewards/user/percentages")]

ClobRewardMarkets ==
  [UserRewardsMarkets    |-> ByCursor(GetL2("/rewards/user/markets")),
   CurrentRewardsMarkets |-> ByCursor(Get("/rewards/markets/current")),
   RewardsMarkets        |-> ByCursor(Get("/rewards/markets/:id"))]

ClobBuilderFees == [BuilderFees |-> Get("/fees/builder-fees/:code")]
ClobBuilderTrades == [BuilderTrades |-> ByCursor(Get("/builder/trades"))]
---------------------------------------------------------------------------
(* gamma: events and markets, all of them public reads but the sign-in *)

GammaEvents ==
  [Events             |-> Get("/events"),
   Event              |-> Get("/events/:id"),
   EventBySlug        |-> Get("/events/slug/:slug"),
   EventTags          |-> Get("/events/:id/tags"),
   EventTweetCount    |-> Get("/events/:id/tweet-count"),
   EventCommentsCount |-> Get("/events/:id/comments/count"),
   EventsPagination   |-> Get("/events/pagination"),
   EventsKeyset       |-> Get("/events/keyset"),
   EventsResults      |-> Get("/events/results")]

GammaEventLookups ==
  [EventCreators         |-> Get("/events/creators"),
   EventCreator          |-> Get("/events/creators/:id"),
   SimilarEvents         |-> Get("/events/similar"),
   EventByPartner        |-> Get("/events/by-partner"),
   EventExternalPartners |-> Get("/events/:id/external-partners"),
   EventExternalPartner  |-> Get("/events/:id/external-partners/:slug")]

GammaMarkets ==
  [Markets            |-> Get("/markets"),
   Market             |-> Get("/markets/:id"),
   MarketBySlug       |-> Get("/markets/slug/:slug"),
   MarketTags         |-> Get("/markets/:id/tags"),
   MarketDescription  |-> Get("/markets/:id/description"),
   RelatedMarkets     |-> Get("/markets/:id/related-markets"),
   MarketsKeyset      |-> Get("/markets/keyset"),
   MarketsInformation |-> Ask("/markets/information"),
   MarketsAbridged    |-> Ask("/markets/abridged")]

GammaSeries ==
  [Series              |-> Get("/series"),
   SeriesByID          |-> Get("/series/:id"),
   SeriesCommentsCount |-> Get("/series/:id/comments/count"),
   SeriesSummaryByID   |-> Get("/series-summary/:id"),
   SeriesSummaryBySlug |-> Get("/series-summary/slug/:slug")]

GammaTags ==
  [Tags                         |-> Get("/tags"),
   Tag                          |-> Get("/tags/:id"),
   TagBySlug                    |-> Get("/tags/slug/:slug"),
   TagRelatedTags               |-> Get("/tags/:id/related-tags"),
   TagRelatedTagsBySlug         |-> Get("/tags/slug/:slug/related-tags"),
   TagRelatedTagsResolved       |-> Get("/tags/:id/related-tags/tags"),
   TagRelatedTagsResolvedBySlug |-> Get("/tags/slug/:slug/related-tags/tags")]

GammaComments ==
  [Comments              |-> Get("/comments"),
   CommentsByID          |-> Get("/comments/:id"),
   CommentsByUserAddress |-> Get("/comments/user_address/:address")]

GammaSearch == [PublicSearch |-> Get("/public-search")]
GammaProfiles ==
  [PublicProfile |-> Get("/public-profile"), PublicProfiles |-> Get("/public-profiles")]

GammaSports ==
  [Sports            |-> Get("/sports"),
   SportsMarketTypes |-> Get("/sports/market-types"),
   Teams             |-> Get("/teams"),
   Team              |-> Get("/teams/:id"),
   Status            |-> Get("/status"),
   Ready             |-> Get("/readyz")]

(* The login proves itself by a signed message, and is a GET. *)
GammaSignIn ==
  [Nonce |-> Endpoint("GET", "/nonce", "none", "none"),
   Login |-> Endpoint("GET", "/login", "bearer", "login")]
---------------------------------------------------------------------------
(* data: portfolios, all public reads *)

DataService == [DataHealth |-> Get("/")]
DataPositions == [Positions |-> Get("/positions")]
DataClosed == [ClosedPositions |-> Get("/closed-positions")]
DataFills == [Fills |-> Get("/trades")]
DataActivity == [Activity |-> Get("/activity")]
DataHolders == [Holders |-> Get("/holders")]
DataMarketPositions == [MarketPositions |-> Get("/v1/market-positions")]

DataTotals ==
  [Value        |-> Get("/value"),
   TradedCount  |-> Get("/traded"),
   OpenInterest |-> Get("/oi"),
   LiveVolume   |-> Get("/live-volume"),
   OtherSizes   |-> Get("/other")]

DataLeaders ==
  [Leaderboard        |-> Get("/v1/leaderboard"),
   BuilderLeaderboard |-> Get("/v1/builders/leaderboard"),
   BuilderVolume      |-> Get("/v1/builders/volume")]
---------------------------------------------------------------------------
(* bridge: unauthenticated; a deposit or a withdrawal opens an address *)

Bridge ==
  [SupportedAssets |-> Get("/supported-assets"),
   Quote           |-> Ask("/quote"),
   Deposit         |-> Endpoint("POST", "/deposit", "none", "bridge"),
   Withdraw        |-> Endpoint("POST", "/withdraw", "none", "bridge"),
   Status          |-> Get("/status/:address")]

(* relayer *)

Relayer ==
  [Nonce        |-> Get("/nonce"),
   RelayPayload |-> Get("/relay-payload"),
   Deployed     |-> Get("/deployed"),
   Transaction  |-> Get("/transaction"),
   Transactions |-> Endpoint("GET", "/transactions", "relayer", "none"),
   APIKeys      |-> Endpoint("GET", "/relayer/api/keys", "relayer", "none"),
   MintAPIKey   |-> Endpoint("POST", "/relayer/api/auth", "cookie", "issue")]

RelayerSubmit == [Submit |-> Endpoint("POST", "/submit", "relayer", "relay")]
---------------------------------------------------------------------------
Tables ==
  <<ClobService, ClobMarkets, ClobSummaries, ClobPrices, ClobHistory, ClobMarketFacts,
    ClobKeys, ClobAccount, ClobBuilderKeys, ClobOrders, ClobCancels, ClobHoldings,
    ClobScoring, ClobBalances, ClobVersion, ClobRewards, ClobRewardMarkets,
    ClobBuilderFees, ClobBuilderTrades,
    GammaEvents, GammaEventLookups, GammaMarkets, GammaSeries, GammaTags, GammaComments,
    GammaSearch, GammaProfiles, GammaSports, GammaSignIn,
    DataService, DataPositions, DataClosed, DataFills, DataActivity, DataHolders,
    DataMarketPositions, DataTotals, DataLeaders, Bridge, Relayer, RelayerSubmit>>

Endpoints == UNION {{t[m] : m \in DOMAIN t} : t \in {Tables[i] : i \in DOMAIN Tables}}
====
