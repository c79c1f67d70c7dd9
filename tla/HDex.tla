-------------------------------- MODULE HDex --------------------------------
(***************************************************************************)
(* The exchange of one coin pair on the chains of its two coins            *)
(* (storage/hdexdb.cpp: CHdexDB).  Each chain keeps the orders placed on   *)
(* it and those its blocks hold a proof of from the other chain, and       *)
(* matches them by itself; no chain is told what the other one matched.    *)
(*                                                                         *)
(* A block of a chain is one step: the records of the match over the book  *)
(* of the block before it (GetMatchDexData, turned into records as         *)
(* test/hdexdb_tests.cpp does), new orders, and a proof of blocks of the   *)
(* other chain not later than its predecessor                              *)
(* (GetCrosschainProveForPrevBlock).  Chains do not fork here: books are   *)
(* kept per block, so a branch has its own.                                *)
(*                                                                         *)
(* The order book of the pair (storage/matchdex.h, matchdex.cpp:           *)
(* CMatchTools, CCoinDexPair and the part of CMatchDex that reaches one    *)
(* pair) comes first, as operators on the record of a CCoinDexPair.  An    *)
(* order is a model value; what it asks for is constant, the height and    *)
(* slot of its block is known when it is added.  mapSellOrder, mapBuyOrder *)
(* and mapDexOrderIndex are one function `book`: AddOrder fills and        *)
(* UpdateCompleteOrder erases an order and its index entry together, and   *)
(* an order is added once (the amended order is discussed in README.md).   *)
(* A height and slot are one number, larger for a later block, 0 for none. *)
(***************************************************************************)
EXTENDS Naturals, Sequences, FiniteSets, SequencesExt

CONSTANTS Orders,       \* the orders of the pair
          SellOrders,   \* those that own the sell coin; the others own the buy coin
          Price,        \* order -> nOrderPrice, buy coins for COIN sell coins
          Amount,       \* order -> nOrderAmount, in coins the order owns
          Random,       \* order -> hashOrderRandom, different for different orders
          COIN,         \* nSellPriceAnchor of every pair
          SellChain,    \* nSellChainId
          BuyChain,     \* nBuyChainId
          MaxHeight     \* bound: the last block of a chain

MatchDexAssumption ==
    /\ SellOrders \subseteq Orders /\ IsFiniteSet(Orders)
    /\ \A o \in Orders : Price[o] \in Nat \ {0} /\ Amount[o] \in Nat \ {0} /\ Random[o] \in Nat
    /\ \A o, q \in Orders : Random[o] = Random[q] => o = q
    /\ COIN \in Nat \ {0}
    /\ MaxHeight \in Nat

OrderChain(o) == IF o \in SellOrders THEN SellChain ELSE BuyChain

----------------------------------------------------------------------------
(* CMatchTools.  The products stay far below 2^256 for amounts of coins.   *)

CalcCompletePrice(nBuyPrice, nSellPrice, nPrevCompletePrice) ==
    IF nSellPrice >= nPrevCompletePrice THEN nSellPrice
    ELSE IF nBuyPrice >= nPrevCompletePrice THEN nPrevCompletePrice
    ELSE nBuyPrice

CalcBuyAmount(nSellAmount, nCompletePrice) == (nSellAmount * nCompletePrice) \div COIN

CalcSellAmount(nBuyAmount, nCompletePrice) == (nBuyAmount * COIN) \div nCompletePrice

----------------------------------------------------------------------------
(* CCoinDexPair: book[o] has the height-slot of the order's key and its    *)
(* nCompleteAmount; `links` is the set of chains under which               *)
(* mapChainIdLinkCoinDexPair names the pair.                               *)

EmptyPair == [book |-> <<>>, nPrevCompletePrice |-> 0, nMatchHeightSlot |-> 0, links |-> {}]

IsOpen(pair, o) == Amount[o] > pair.book[o].done

\* CustomCompareSellOrder and CustomCompareBuyOrder.
KeyBefore(pair, o, q) ==
    \/ pair.book[o].at < pair.book[q].at
    \/ pair.book[o].at = pair.book[q].at /\ Random[o] < Random[q]

SellBefore(pair, o, q) == Price[o] < Price[q] \/ (Price[o] = Price[q] /\ KeyBefore(pair, o, q))

BuyBefore(pair, o, q) == Price[q] < Price[o] \/ (Price[q] = Price[o] /\ KeyBefore(pair, o, q))

Max2(a, b) == IF a > b THEN a ELSE b

AddOrder(pair, o, at) ==
    [pair EXCEPT !.book = (o :> [at |-> at, done |-> 0]) @@ @,
                 !.nMatchHeightSlot = IF SellChain = BuyChain THEN Max2(@, at) ELSE @]

\* The pair is created by its first order; an empty one stands for none.
AddMatchDexOrder(pair, o, at, nPrevCompletePrice) ==
    LET priced == IF nPrevCompletePrice # 0
                  THEN [pair EXCEPT !.nPrevCompletePrice = nPrevCompletePrice] ELSE pair
    IN  [AddOrder(priced, o, at) EXCEPT !.links = @ \union {OrderChain(o)}]

UpdateCompleteOrder(pair, o, nCompleteAmount) ==
    IF o \notin DOMAIN pair.book THEN pair
    ELSE IF nCompleteAmount >= Amount[o]
    THEN [pair EXCEPT !.book = [q \in DOMAIN @ \ {o} |-> @[q]]]
    ELSE [pair EXCEPT !.book[o].done = nCompleteAmount]

UpdatePeerProveLastBlock(pair, chain, at) ==
    IF chain \in pair.links
    THEN [pair EXCEPT !.nMatchHeightSlot = Max2(@, at)]
    ELSE pair

UpdateCompletePrice(pair, nCompletePrice) == [pair EXCEPT !.nPrevCompletePrice = nCompletePrice]

----------------------------------------------------------------------------
(* MatchOrder.  m is the state of its loops: the complete amounts of the   *)
(* orders, the last price, the records; `left` is nCalcSellOrderAmount and *)
(* `stop` says that the loop over the buy orders, or over the sell orders, *)
(* was left.                                                               *)

\* One round of the loop over the buy orders.
MatchBuy(m, s, b) ==
    LET rest  == Amount[b] - m.done[b]
        price == CalcCompletePrice(Price[b], Price[s], m.price)
        want  == CalcBuyAmount(m.left, price)
        buy   == IF want > rest THEN rest ELSE want
        sell  == IF want > rest THEN CalcSellAmount(buy, price) ELSE m.left
    IN  IF m.stop \/ Amount[b] <= m.done[b] THEN m
        ELSE IF Price[s] > Price[b] THEN [m EXCEPT !.stop = TRUE]
        ELSE [m EXCEPT !.records = Append(@, [sellOrder |-> s, sell |-> sell, buyOrder |-> b,
                                              buy |-> buy, price |-> price]),
                       !.left = @ - sell, !.done[s] = @ + sell, !.done[b] = @ + buy,
                       !.price = price,
                       !.stop = (m.left - sell = 0)]

\* One round of the loop over the sell orders.
MatchSell(m, s, buys) ==
    IF m.stop \/ Amount[s] <= m.done[s] THEN m
    ELSE LET e == FoldLeft(LAMBDA acc, b : MatchBuy(acc, s, b),
                           [m EXCEPT !.left = Amount[s] - m.done[s]], buys)
         IN  [e EXCEPT !.stop = (e.left # 0)]

\* The orders of one side, up to a height-slot, in the order of their map.
SellsUpTo(pair, end) ==
    SetToSortSeq({o \in DOMAIN pair.book \cap SellOrders : pair.book[o].at <= end},
                 LAMBDA o, q : SellBefore(pair, o, q))

BuysUpTo(pair, end) ==
    SetToSortSeq({o \in DOMAIN pair.book \ SellOrders : pair.book[o].at <= end},
                 LAMBDA o, q : BuyBefore(pair, o, q))

funcMatch(pair, m, end) ==
    LET buys == BuysUpTo(pair, end)
    IN  FoldLeft(LAMBDA acc, s : MatchSell(acc, s, buys),
                 [m EXCEPT !.stop = FALSE], SellsUpTo(pair, end))

\* setMatchHeightSlot, and a fault: everything up to the last one in a single round.
MatchHeightSlots_Last(pair) ==
    LET slots == {pair.book[o].at : o \in {q \in DOMAIN pair.book : IsOpen(pair, q)}}
    IN  {t \in slots : \A u \in slots : u <= t}

MatchHeightSlots(pair) ==
    {t \in {pair.book[o].at : o \in {q \in DOMAIN pair.book : IsOpen(pair, q)}} :
        pair.nMatchHeightSlot = 0 \/ t <= pair.nMatchHeightSlot}

MatchOrder(pair) ==
    FoldLeft(LAMBDA m, end : funcMatch(pair, m, end),
             [done |-> [o \in DOMAIN pair.book |-> pair.book[o].done],
              price |-> pair.nPrevCompletePrice, records |-> <<>>, left |-> 0, stop |-> FALSE],
             SetToSortSeq(MatchHeightSlots(pair), <))

----------------------------------------------------------------------------
(* The chains.                                                             *)

\* Per chain: nHeight of its last block, at[o] the block of an order it knows (0 if it does
\* not), done[o] its nCompleteOrderAmount, the pair's complete price, the last proved block of
\* the other chain, and the book cached for the last block.
VARIABLE chain

Chains == {SellChain, BuyChain}

PeerChain(c) == IF c = SellChain THEN BuyChain ELSE SellChain

Init ==
    chain = [c \in Chains |->
                [nHeight |-> 0, at |-> [o \in Orders |-> 0], done |-> [o \in Orders |-> 0],
                 nCompletePrice |-> 0, nLastProve |-> 0, pair |-> EmptyPair]]

\* What the records of a match add to the complete amount of an order.
RecordAmount(r, o) == IF r.sellOrder = o THEN r.sell ELSE IF r.buyOrder = o THEN r.buy ELSE 0

CompletedBy(records, o) == FoldLeft(LAMBDA sum, r : sum + RecordAmount(r, o), 0, records)

\* The orders of a proof: those the other chain placed after the last proved block and not
\* after the new one.
ProvedOrders(c, nProve) ==
    {o \in Orders : OrderChain(o) # c
                    /\ chain[PeerChain(c)].at[o] \in (chain[c].nLastProve + 1) .. nProve}

\* UpdateDexOrderCache, external: the calls its arguments are made for, in their order.
UpdateDexOrderCache(pair, added, at, price, completed, done, peer, nProve) ==
    LET withOrders == FoldLeft(LAMBDA p, o : AddMatchDexOrder(p, o, at[o], price),
                               pair, SetToSeq(added))
        priced     == IF completed = {} THEN withOrders ELSE UpdateCompletePrice(withOrders, price)
        updated    == FoldLeft(LAMBDA p, o : UpdateCompleteOrder(p, o, done[o]),
                               priced, SetToSeq(completed))
    IN  IF nProve = 0 THEN updated ELSE UpdatePeerProveLastBlock(updated, peer, nProve)

\* The block after the last one of chain c.
AddDexOrder(c, new, nProve) ==
    LET st        == chain[c]
        records   == MatchOrder(st.pair).records
        completed == UNION {{r.sellOrder, r.buyOrder} : r \in Range(records)}
        proved    == ProvedOrders(c, nProve)
        done      == [o \in Orders |-> st.done[o] + CompletedBy(records, o)]
        at        == [o \in Orders |-> IF o \in new THEN st.nHeight + 1
                                       ELSE IF o \in proved THEN chain[PeerChain(c)].at[o]
                                       ELSE st.at[o]]
        price     == IF records = <<>> THEN st.nCompletePrice ELSE Last(records).price
    IN  chain' = [chain EXCEPT ![c] =
            [nHeight |-> st.nHeight + 1, at |-> at, done |-> done, nCompletePrice |-> price,
             nLastProve |-> nProve,
             pair |-> UpdateDexOrderCache(st.pair, new \union proved, at, price, completed, done,
                                          PeerChain(c),
                                          IF nProve > st.nLastProve THEN nProve ELSE 0)]]

Unplaced(c) == {o \in Orders : OrderChain(o) = c /\ chain[c].at[o] = 0}

\* GetCrosschainProveForPrevBlock: blocks of the other chain that are there and are not later
\* than the block before the new one; the last proved one stands for no proof.
CanProve(c) ==
    IF PeerChain(c) = c THEN {0}
    ELSE {n \in chain[c].nLastProve .. chain[c].nHeight : n <= chain[PeerChain(c)].nHeight}

NewBlock(c) ==
    /\ chain[c].nHeight < MaxHeight
    /\ \E new \in SUBSET Unplaced(c), nProve \in CanProve(c) : AddDexOrder(c, new, nProve)

Next == \E c \in Chains : NewBlock(c)

Spec == Init /\ [][Next]_chain

----------------------------------------------------------------------------
(* The reference: what a slot-by-slot auction does with the orders, as it  *)
(* is meant to be rather than as the loops do it.                          *)

At(o) == chain[OrderChain(o)].at[o]

Distance(p, q) == IF p > q THEN p - q ELSE q - p

\* The trade of a pair of orders at the price nearest to the last one that both accept; all
\* that one of the two still has, and of the other as much as that is worth, rounded down.
Trade(r, s, b) ==
    LET left  == Amount[s] - r.done[s]
        rest  == Amount[b] - r.done[b]
        near  == CHOOSE p \in Price[s] .. Price[b] :
                    \A q \in Price[s] .. Price[b] : Distance(p, r.price) <= Distance(q, r.price)
        sell  == IF left * near < (rest + 1) * COIN THEN left
                 ELSE CHOOSE x \in 0 .. left : x * near <= rest * COIN /\ (x + 1) * near > rest * COIN
        buy   == IF left * near < (rest + 1) * COIN
                 THEN CHOOSE y \in 0 .. rest : y * COIN <= left * near /\ (y + 1) * COIN > left * near
                 ELSE rest
    IN  [r EXCEPT !.done[s] = @ + sell, !.done[b] = @ + buy, !.price = near]

\* The best pair of open orders of the blocks up to r.slot that accept a common price trades;
\* when there is none the next slot comes.
Round(r) ==
    LET open  == {o \in Orders : At(o) \in 1 .. r.slot /\ r.done[o] < Amount[o]}
        older(o, q) == At(o) < At(q) \/ (At(o) = At(q) /\ Random[o] <= Random[q])
        sells == {o \in open \cap SellOrders : \A q \in open \cap SellOrders :
                    Price[o] < Price[q] \/ (Price[o] = Price[q] /\ older(o, q))}
        buys  == {o \in open \ SellOrders : \A q \in open \ SellOrders :
                    Price[o] > Price[q] \/ (Price[o] = Price[q] /\ older(o, q))}
        pairs == {<<s, b>> \in sells \X buys : Price[s] <= Price[b]}
    IN  IF pairs = {} THEN [r EXCEPT !.slot = @ + 1]
        ELSE LET best == CHOOSE sb \in pairs : TRUE IN Trade(r, best[1], best[2])

\* Every round fills an order or goes on to the next slot.
Auction(last) ==
    LET start == [slot |-> 1, done |-> [o \in Orders |-> 0], price |-> 0]
    IN  FoldLeft(LAMBDA r, i : IF r.slot > last THEN r ELSE Round(r), start,
                 [i \in 1 .. Cardinality(Orders) + last |-> i])

----------------------------------------------------------------------------

\* What chain c has matched of an order once the records of its book are counted.
Filled(c, o) ==
    LET pair == chain[c].pair
    IN  IF o \in DOMAIN pair.book THEN MatchOrder(pair).done[o] ELSE chain[c].done[o]

\* What a chain matches depends on the orders alone, and not on which of its blocks brought the
\* other chain's proofs: MatchOrder over books that grow late or in one piece, with finished
\* orders erased by UpdateCompleteOrder, fills each order as the auction of all orders up to
\* nMatchHeightSlot does.
FillsFollowOrders ==
    \A c \in Chains :
        LET ref == Auction(chain[c].pair.nMatchHeightSlot)
        IN  \A o \in Orders : Filled(c, o) = ref.done[o]

\* No order is ever filled beyond its amount, however the divisions of CMatchTools round and
\* however often an order is matched in part before it is erased.
NeverOverfilled == \A c \in Chains, o \in Orders : chain[c].done[o] <= Amount[o]

\* Every record of a match keeps both limits and is off its price by less than one coin of
\* either kind, so that rounding never costs an order more than the smallest coin per record.
PricesKept ==
    \A c \in Chains : \A r \in Range(MatchOrder(chain[c].pair).records) :
        /\ Price[r.sellOrder] <= r.price /\ r.price <= Price[r.buyOrder]
        /\ r.sell * r.price < (r.buy + 1) * COIN
        /\ r.buy * COIN < (r.sell + 1) * r.price
=============================================================================
