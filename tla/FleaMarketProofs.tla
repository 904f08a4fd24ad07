-------------------------- MODULE FleaMarketProofs --------------------------
(***************************************************************************)
(* The flea market keeps the clans' goods, their coins and their booked     *)
(* purchases.  What the proofs rest on: an _id once known is never given to *)
(* another item, so that a request or a voting that comes back to its item  *)
(* later finds the same one on the market, in whatever state, or finds it   *)
(* gone; and the sum of what a clan pays for grows and shrinks by one price *)
(* at a time.                                                               *)
(***************************************************************************)
EXTENDS FleaMarket, FiniteSetTheorems, WellFoundedInduction, TLAPS

MarketItem == [clan : Clan, status : Status, price : Price]
StockItem == [clan : Clan \cup {Nil}, status : {Nil}, price : Price]

MarketPC == {"pay", "book", "price", "AVAILABLE", "SHIPPING", "move"}
JobPC == {"passed", "rejected", "refund", "credit", "finalize"}
OtherPC == {"idle", "unstock", "buy", "slot", "poster", "enqueue", "cast"}

RequestRecord ==
    [pc : Moving \cup MarketPC \cup JobPC \cup OtherPC,
     clan : Clan \cup {Nil}, item : ItemId \cup {Nil}, read : Item \cup {Nil},
     price : Price \cup Amount \cup {Nil}, coins : Int, slots : Nat, voting : VotingId \cup {Nil}]

\* What the request r of slot s has read, and which of the votings vs it is about.
Good(s, r, vs) ==
    /\ r.pc \in JobPC => s \in Worker /\ r.voting \in VotingId /\ vs[r.voting] # Nil
    /\ r.pc \in {"refund", "credit"} => vs[r.voting].type = "BUY"
    /\ r.pc \notin JobPC \cup {"idle"} => s \in Client
    /\ r.pc \in Moving \cup MarketPC \cup {"unstock", "buy"} => r.item \in ItemId
    /\ r.pc \in Moving \cup MarketPC \cup {"unstock", "buy", "slot", "poster"} => r.clan \in Clan
    /\ r.pc \in Moving \cup {"unstock", "pay", "book", "price"} => r.price \in Price
    /\ r.pc \in Moving \cup {"unstock"} => r.read \in StockItem
    /\ r.pc \in MarketPC => r.read \in MarketItem /\ r.read.status # "BOOKED"
    /\ r.pc \in {"pay", "book"} => r.read.status = "AVAILABLE"
    /\ r.pc = "slot" => r.price \in Amount
    /\ r.pc \in {"job", "book", "enqueue", "cast"} => r.voting \in VotingId /\ vs[r.voting] # Nil
    /\ r.pc \in {"book", "enqueue"} => vs[r.voting].type = "BUY"
    /\ r.pc = "job" => vs[r.voting].type = "SELL"
    /\ r.pc = "book" => LET v == vs[r.voting]
                        IN  v.clan = r.clan /\ v.item = r.item /\ v.price = r.price

Fit ==
    /\ items \in [ItemId -> MarketItem \cup StockItem \cup {Nil}]
    /\ gameCoins \in [Clan -> Int]
    /\ maxSlots \in [Clan -> Nat]
    /\ votings \in [VotingId -> VotingRecord \cup {Nil}]
    /\ passed \cup jobs \cup closed \cup untimed \subseteq Stored
    /\ req \in [Slot -> RequestRecord]
    /\ \A s \in Slot : Good(s, req[s], votings)
    /\ outcome \in [VotingId -> Outcome]
    /\ stale \subseteq Clan

\* A known _id is that of the same item or of none: one on the market for requests that
\* read it there and for votings, one in a stock for a sale.  The _id of an item on
\* its way is known to nobody else.
Kinds ==
    /\ \A s \in Slot : req[s].pc \in MarketPC /\ req[s].item \in Live => items[req[s].item] \in MarketItem
    /\ \A s \in Slot : req[s].pc = "unstock" /\ req[s].item \in Live => items[req[s].item] \in StockItem
    /\ \A v \in Stored : votings[v].item \in Live => items[votings[v].item] \in MarketItem
    /\ \A s \in Slot : req[s].pc \in Moving =>
           req[s].item \notin Live /\ \A t \in Slot \ {s} : req[t].item # req[s].item

\* Documents are not Nil, and those on the market not in a stock.
LEMMA Documents ==
    /\ Nil \notin MarketItem /\ Nil \notin StockItem /\ MarketItem \cap StockItem = {}
    /\ MarketItem \cup StockItem \subseteq Item
    /\ \A r \in MarketItem : r.status # Nil
    /\ \A r \in StockItem : r.status = Nil
  BY AbsentAssumption DEF MarketItem, StockItem, Item

\* New identities are new.
LEMMA New ==
    /\ Free # {} => NewItem \in Free
    /\ Stored # VotingId => NewVoting \in VotingId /\ NewVoting \notin Stored
  BY DEF NewItem, NewVoting, Stored

\* What is live and on the market.
LEMMA Lives ==
    ASSUME Fit
    PROVE  /\ \A i \in Live : i \in ItemId /\ items[i] \in MarketItem \cup StockItem
           /\ \A i \in OnMarket : i \in Live /\ items[i] \in MarketItem
           /\ \A i \in Live : items[i] \in MarketItem => i \in OnMarket
           /\ \A i \in Live \ OnMarket : items[i] \in StockItem
           /\ \A v \in Stored : v \in VotingId /\ votings[v] \in VotingRecord
  BY Documents DEF Fit, Live, OnMarket, Stored

\* A move between documents: the old one is gone, the new one is in a stock.
LEMMA Moved ==
    ASSUME Fit, NEW i \in Live, NEW c \in Clan \cup {Nil}, MoveToStock(i, c)
    PROVE  /\ NewItem \in Free /\ NewItem # i /\ items'[i] = Nil /\ items'[NewItem] \in StockItem
           /\ \A j \in ItemId \ {i, NewItem} : items'[j] = items[j]
           /\ items' \in [ItemId -> MarketItem \cup StockItem \cup {Nil}]
           /\ Live' = (Live \ {i}) \cup {NewItem}
  <1>1. NewItem \in Free /\ NewItem \in ItemId /\ NewItem \notin Live
    BY New DEF MoveToStock, Free
  <1>2. i \in ItemId /\ items[i] \in MarketItem \cup StockItem
    BY Lives
  <1>3. InStock(c, items[i].price) \in StockItem
    BY <1>2 DEF InStock, StockItem, MarketItem
  <1>4. /\ items'[i] = Nil /\ items'[NewItem] = InStock(c, items[i].price)
        /\ \A j \in ItemId \ {i, NewItem} : items'[j] = items[j]
        /\ items' \in [ItemId -> MarketItem \cup StockItem \cup {Nil}]
    BY <1>1, <1>2, <1>3 DEF MoveToStock, Fit
  <1>5. Live' = (Live \ {i}) \cup {NewItem}
    BY <1>1, <1>2, <1>3, <1>4, Documents DEF Live
  <1> QED BY <1>1, <1>3, <1>4, <1>5

\* An item on the market is written.
Writes(i, r) ==
    /\ i \in Live /\ items[i] \in MarketItem /\ r \in MarketItem
    /\ items' = [items EXCEPT ![i] = r]

LEMMA Written ==
    ASSUME Fit, NEW i, NEW r, Writes(i, r)
    PROVE  /\ items'[i] = r /\ \A j \in ItemId \ {i} : items'[j] = items[j]
           /\ items' \in [ItemId -> MarketItem \cup StockItem \cup {Nil}]
           /\ Live' = Live
  <1>1. i \in ItemId
    BY Lives DEF Writes
  <1>2. /\ items'[i] = r /\ \A j \in ItemId \ {i} : items'[j] = items[j]
        /\ items' \in [ItemId -> MarketItem \cup StockItem \cup {Nil}]
    BY <1>1 DEF Writes, Fit
  <1> QED BY <1>1, <1>2, Documents DEF Writes, Live

\* Giving an item on the market another status, or another price too.
LEMMA Restatused ==
    ASSUME Fit, NEW i \in Live, items[i] \in MarketItem, NEW status \in Status,
           items' = [items EXCEPT ![i].status = status]
    PROVE  \E r \in MarketItem : Writes(i, r) /\ r.status = status
  <1> DEFINE r == [items[i] EXCEPT !.status = status]
  <1>1. r \in MarketItem /\ r.status = status
    BY DEF MarketItem
  <1>2. Writes(i, r)
    BY <1>1 DEF Writes
  <1> QED BY <1>1, <1>2

LEMMA Repriced ==
    ASSUME Fit, NEW i \in Live, items[i] \in MarketItem, NEW status \in Status, NEW p \in Price,
           items' = [items EXCEPT ![i].status = status, ![i].price = p]
    PROVE  \E r \in MarketItem : Writes(i, r) /\ r.status = status
  <1> DEFINE r == [items[i] EXCEPT !.status = status, !.price = p]
  <1>1. r \in MarketItem /\ r.status = status
    BY DEF MarketItem
  <1>2. i \in ItemId
    BY Lives
  <1>3. items' = [items EXCEPT ![i] = r]
    BY <1>2 DEF Fit
  <1>4. Writes(i, r)
    BY <1>1, <1>3 DEF Writes
  <1> QED BY <1>1, <1>4
----------------------------------------------------------------------------
\* What a step does to the items.
Moves == \E i \in Live, c \in Clan \cup {Nil} : MoveToStock(i, c)

Takes(s) == At(s, "unstock") /\ req[s].item \in Live /\ unstock(s)

Books(i) == \E s \in Client : commitBooking(s) /\ req[s].item = i

ItemEffect ==
    \/ UNCHANGED items
    \/ Moves
    \/ \E i \in Live, r \in MarketItem : Writes(i, r) /\ (r.status = "BOOKED" => Books(i))
    \/ \E s \in Client : Takes(s)
    \/ \E s \in Client : commitSale(s)

\* A request about an item on the market finds it there, or gone.
LEMMA RequestEffects ==
    ASSUME Fit, Kinds, NEW s \in Client, Continue(s)
    PROVE  ItemEffect
  <1>0. s \in Slot /\ req[s] \in RequestRecord /\ Good(s, req[s], votings)
    BY DEF Fit, Slot
  <1>1. CASE unstock(s)
    BY <1>1 DEF unstock, ItemEffect, Takes
  <1>2. CASE commitSale(s)
    BY <1>2 DEF ItemEffect
  <1>3. CASE \/ startSellVoting(s) \/ addSellVotingJob(s) \/ cancelSale(s) \/ readToBuy(s)
             \/ handleBooking(s) \/ addVotingCheckJob(s) \/ buyStallSlot(s) \/ updateAdPosterByClanId(s) \/ cancelTransaction(s) \/ castVote(s)
    BY <1>3 DEF startSellVoting, addSellVotingJob, cancelSale, readToBuy, handleBooking,
                addVotingCheckJob, buyStallSlot, updateAdPosterByClanId, cancelTransaction, castVote, history, ItemEffect
  <1>4. CASE buyDirectly(s) \/ moveFleaMarketItemToStock(s)
    BY <1>0, <1>4 DEF buyDirectly, moveFleaMarketItemToStock, At, Good, MarketPC, ItemEffect, Moves
  <1>5. CASE commitBooking(s)
    <2>1. /\ req[s].item \in Live /\ items[req[s].item] \in MarketItem /\ req[s].read \in MarketItem
          /\ items' = [items EXCEPT ![req[s].item] = [req[s].read EXCEPT !.status = "BOOKED"]]
      BY <1>0, <1>5 DEF commitBooking, At, Good, MarketPC, Kinds
    <2>2. [req[s].read EXCEPT !.status = "BOOKED"] \in MarketItem
      BY <2>1 DEF MarketItem, Status
    <2> QED BY <1>5, <2>1, <2>2 DEF Writes, ItemEffect, Books
  <1>6. CASE changeItemPrice(s)
    <2>1. /\ req[s].item \in Live /\ items[req[s].item] \in MarketItem
          /\ items' = [items EXCEPT ![req[s].item].status = "SHIPPING"]
      BY <1>0, <1>6 DEF changeItemPrice, At, MarketPC, Kinds
    <2> QED BY <2>1, Restatused DEF ItemEffect, Status
  <1>7. CASE changeItemStatus(s)
    <2>1. CASE req[s].item \in Live
      <3>1. /\ req[s].item \in Live /\ items[req[s].item] \in MarketItem /\ req[s].pc \in Status \ {"BOOKED"}
            /\ items' = [items EXCEPT ![req[s].item].status = req[s].pc]
        BY <1>0, <1>7, <2>1 DEF changeItemStatus, At, MarketPC, Kinds, Status
      <3>2. \E r \in MarketItem : Writes(req[s].item, r) /\ r.status = req[s].pc
        BY <3>1, Restatused
      <3> QED BY <3>1, <3>2 DEF ItemEffect
    <2> QED BY <1>7, <2>1 DEF changeItemStatus, ItemEffect
  <1> QED BY <1>1, <1>2, <1>3, <1>4, <1>5, <1>6, <1>7 DEF Continue

\* So does a voting that passes or whose time is over.
LEMMA JobEffects ==
    ASSUME Fit, Kinds, NEW w \in Worker, Job(w)
    PROVE  ItemEffect
  <1> DEFINE v == req[w].voting
             i == votings[v].item
  <1>0. w \in Slot /\ req[w] \in RequestRecord /\ Good(w, req[w], votings)
    BY DEF Fit, Slot
  <1>1. ASSUME At(w, "passed") \/ At(w, "rejected"), i \in Live
        PROVE  v \in Stored /\ votings[v] \in VotingRecord /\ items[i] \in MarketItem
    BY <1>0, <1>1, Lives DEF At, Good, JobPC, Kinds, Stored
  <1>2. CASE handlePassedBuyVoting(w)
    <2>1. CASE i \in Live
      <3>1. MoveToStock(i, votings[v].clan) /\ votings[v].clan \in Clan
        BY <1>1, <1>2, <2>1 DEF handlePassedBuyVoting, Settles, VotingRecord
      <3> QED BY <2>1, <3>1 DEF ItemEffect, Moves
    <2> QED BY <1>2, <2>1 DEF handlePassedBuyVoting, ItemEffect
  <1>3. CASE handleRejectedBuyVoting(w)
    <2>1. CASE i \in Live
      <3>1. items' = [items EXCEPT ![i].status = "AVAILABLE"] /\ items[i] \in MarketItem
        BY <1>1, <1>3, <2>1 DEF handleRejectedBuyVoting, Settles
      <3> QED BY <2>1, <3>1, Restatused DEF ItemEffect, Status
    <2> QED BY <1>3, <2>1 DEF handleRejectedBuyVoting, ItemEffect
  <1>4. CASE settleSellVoting(w)
    <2>1. CASE i \in Live
      <3>1. /\ votings[v] \in VotingRecord /\ items[i] \in MarketItem
            /\ \/ items' = [items EXCEPT ![i].status = "AVAILABLE", ![i].price = votings[v].price]
               \/ MoveToStock(i, items[i].clan)
        BY <1>1, <1>4, <2>1 DEF settleSellVoting, Settles
      <3>2. votings[v].price \in Price /\ items[i].clan \in Clan
        BY <3>1 DEF VotingRecord, MarketItem
      <3>3. CASE items' = [items EXCEPT ![i].status = "AVAILABLE", ![i].price = votings[v].price]
        BY <2>1, <3>1, <3>2, <3>3, Repriced DEF ItemEffect, Status
      <3>4. CASE MoveToStock(i, items[i].clan)
        BY <2>1, <3>2, <3>4 DEF ItemEffect, Moves
      <3> QED BY <3>1, <3>3, <3>4
    <2> QED BY <1>4, <2>1 DEF settleSellVoting, ItemEffect
  <1>5. CASE settlePriceVoting(w)
    <2>1. CASE i \in Live
      <3> DEFINE p == IF At(w, "passed") THEN votings[v].price ELSE items[i].price
      <3>1. /\ votings[v] \in VotingRecord /\ items[i] \in MarketItem
            /\ items' = [items EXCEPT ![i].status = "AVAILABLE", ![i].price = p]
        BY <1>1, <1>5, <2>1, Lives DEF settlePriceVoting, MakeAvailable, Settles, Fit
      <3>2. p \in Price
        BY <3>1 DEF VotingRecord, MarketItem
      <3> HIDE DEF p
      <3> QED BY <2>1, <3>1, <3>2, Repriced DEF ItemEffect, Status
    <2> QED BY <1>5, <2>1 DEF settlePriceVoting, MakeAvailable, ItemEffect
  <1>6. CASE readToRefund(w) \/ refund(w) \/ finalizeVoting(w) \/ \E x \in VotingId : process(w, x)
    BY <1>6 DEF readToRefund, refund, finalizeVoting, process, ItemEffect
  <1> QED BY <1>2, <1>3, <1>4, <1>5, <1>6 DEF Job

LEMMA PassedEffects ==
    ASSUME Fit, Kinds, NEW v \in VotingId, handleVotingPassed(v)
    PROVE  ItemEffect
  <1> DEFINE i == votings[v].item
  <1>1. v \in Stored /\ votings[v] \in VotingRecord
    BY Lives DEF handleVotingPassed, Fit
  <1>2. ASSUME DeliverOnEvent(v) PROVE ItemEffect
    BY <1>2 DEF DeliverOnEvent, ItemEffect, Moves
  <1>3. ASSUME NEW p, i \in Live => p \in Price, MakeAvailable(i, p) PROVE ItemEffect
    <2>1. CASE i \in Live
      <3>1. items' = [items EXCEPT ![i].status = "AVAILABLE", ![i].price = p]
        BY <1>3, <2>1 DEF MakeAvailable
      <3>2. items[i] \in MarketItem
        BY <1>1, <2>1 DEF Kinds
      <3> QED BY <1>3, <2>1, <3>1, <3>2, Repriced DEF ItemEffect, Status
    <2> QED BY <1>3, <2>1 DEF MakeAvailable, ItemEffect
  <1>4. i \in Live => items[i].price \in Price
    BY Lives DEF MarketItem, StockItem
  <1>5. votings[v].price \in Price
    BY <1>1 DEF VotingRecord
  <1>6. ASSUME ReleaseOnEvent(v) PROVE ItemEffect
    BY <1>3, <1>4, <1>6 DEF ReleaseOnEvent
  <1>7. ASSUME NEW votePassed \in BOOLEAN,
               MakeAvailable(i, IF votePassed THEN votings[v].price ELSE items[i].price)
        PROVE  ItemEffect
    <2> DEFINE p == IF votePassed THEN votings[v].price ELSE items[i].price
    <2>1. i \in Live => p \in Price
      BY <1>4, <1>5
    <2>2. MakeAvailable(i, p)
      BY <1>7
    <2> HIDE DEF p
    <2> QED BY <1>3, <2>1, <2>2
  <1>8. CASE UNCHANGED items
    BY <1>8 DEF ItemEffect
  <1> QED BY <1>2, <1>6, <1>7, <1>8 DEF handleVotingPassed

LEMMA ItemEffects ==
    ASSUME Fit, Kinds, [Next]_vars
    PROVE  ItemEffect
  <1>1. ASSUME NEW s \in Client, Request(s) PROVE ItemEffect
    BY <1>1 DEF Request, handleSellItem, handleBuyItem, readToChangePrice, readToChangeStatus,
                readToMove, readToUpdateAdPoster, readToBuySlot, addVote, ItemEffect
  <1>2. CASE Stop \/ UNCHANGED vars
    BY <1>2 DEF Stop, vars, ItemEffect
  <1> QED BY <1>1, <1>2, RequestEffects, JobEffects, PassedEffects DEF Next

\* What became of one item.
LEMMA KindStep ==
    ASSUME Fit, Kinds, [Next]_vars
    PROVE  /\ items' \in [ItemId -> MarketItem \cup StockItem \cup {Nil}]
           /\ \A i \in ItemId :
                \/ items'[i] = items[i]
                \/ items'[i] = Nil
                \/ items[i] \in MarketItem /\ items'[i] \in MarketItem
                \/ i \in Free /\ items'[i] \in StockItem
                \/ \E s \in Client :
                     commitSale(s) /\ req[s].item = i /\ items[i] = Nil /\ items'[i] \in MarketItem
  <1>1. CASE UNCHANGED items
    BY <1>1 DEF Fit
  <1>2. CASE Moves
    BY <1>2, Moved DEF Moves
  <1>3. ASSUME NEW i \in Live, NEW r \in MarketItem, Writes(i, r)
        PROVE  /\ items' \in [ItemId -> MarketItem \cup StockItem \cup {Nil}]
               /\ \A j \in ItemId : items'[j] = items[j] \/ (items[j] \in MarketItem /\ items'[j] \in MarketItem)
    BY <1>3, Written DEF Writes
  <1>4. ASSUME NEW s \in Client, Takes(s)
        PROVE  /\ items' \in [ItemId -> MarketItem \cup StockItem \cup {Nil}]
               /\ \A j \in ItemId : items'[j] = items[j] \/ items'[j] = Nil
    BY <1>4, Lives DEF Takes, unstock, Fit
  <1>5. ASSUME NEW s \in Client, commitSale(s)
        PROVE  /\ req[s].item \in ItemId /\ items[req[s].item] = Nil /\ items'[req[s].item] \in MarketItem
               /\ items' \in [ItemId -> MarketItem \cup StockItem \cup {Nil}]
               /\ \A j \in ItemId \ {req[s].item} : items'[j] = items[j]
    <2> DEFINE r == ForSale(req[s].clan, "SHIPPING", IF At(s, "sell") THEN req[s].price ELSE req[s].read.price)
    <2>1. s \in Slot /\ req[s].pc \in Moving /\ Good(s, req[s], votings)
      BY <1>5 DEF commitSale, At, Moving, Slot, Fit
    <2>2. req[s].item \in ItemId /\ items[req[s].item] = Nil
      BY <2>1 DEF Good, Kinds, Live
    <2>3. r \in MarketItem
      BY <2>1 DEF Good, ForSale, MarketItem, StockItem, Status
    <2>4. items' = [items EXCEPT ![req[s].item] = r]
      BY <1>5 DEF commitSale
    <2> HIDE DEF r
    <2> QED BY <2>2, <2>3, <2>4 DEF Fit
  <1>6. CASE \E s \in Client : commitSale(s)
    BY <1>5, <1>6
  <1> QED BY <1>1, <1>2, <1>3, <1>4, <1>6, ItemEffects DEF ItemEffect
----------------------------------------------------------------------------
\* Votings stay what they are about; a new one is about the item of a request.
VotingsGrow ==
    /\ votings' \in [VotingId -> VotingRecord \cup {Nil}]
    /\ \A v \in Stored :
         /\ votings'[v] # Nil
         /\ \A field \in {"type", "clan", "item", "price"} : votings'[v][field] = votings[v][field]

LEMMA Started ==
    ASSUME Fit, NEW type \in VotingType, NEW c \in Clan, NEW i \in ItemId, NEW p \in Price,
           Stored # VotingId, startVoting(type, c, i, p)
    PROVE  /\ VotingsGrow /\ NewVoting \in VotingId /\ NewVoting \notin Stored
           /\ votings'[NewVoting].type = type /\ votings'[NewVoting].item = i
           /\ votings'[NewVoting].clan = c /\ votings'[NewVoting].price = p
           /\ Stored' = Stored \cup {NewVoting}
           /\ \A v \in VotingId \ {NewVoting} : votings'[v] = votings[v]
  <1> DEFINE record == [type |-> type, clan |-> c, item |-> i, price |-> p, ended |-> FALSE]
  <1>1. record \in VotingRecord /\ record # Nil
    <2>1. record \in VotingRecord
      BY DEF VotingRecord
    <2> QED BY <2>1, AbsentAssumption
  <1>2. NewVoting \in VotingId /\ NewVoting \notin Stored
    BY New
  <1>3. votings' = [votings EXCEPT ![NewVoting] = record]
    BY DEF startVoting
  <1>4. votings'[NewVoting] = record /\ \A v \in VotingId \ {NewVoting} : votings'[v] = votings[v]
    BY <1>2, <1>3 DEF Fit
  <1>5. votings' \in [VotingId -> VotingRecord \cup {Nil}]
    BY <1>1, <1>2, <1>3 DEF Fit
  <1> HIDE DEF record
  <1>6. Stored' = Stored \cup {NewVoting}
    BY <1>1, <1>2, <1>4 DEF Stored
  <1>7. VotingsGrow
    BY <1>2, <1>4, <1>5 DEF VotingsGrow, Stored
  <1> QED BY <1>2, <1>4, <1>6, <1>7 DEF record

LEMMA EndedVoting ==
    ASSUME Fit, NEW v \in Stored, votings' = [votings EXCEPT ![v].ended = TRUE]
    PROVE  VotingsGrow /\ Stored' = Stored
  <1>1. v \in VotingId /\ votings[v] \in VotingRecord
    BY Lives
  <1> DEFINE r == [votings[v] EXCEPT !.ended = TRUE]
  <1>2. /\ r \in VotingRecord /\ r # Nil
        /\ \A field \in {"type", "clan", "item", "price"} : r[field] = votings[v][field]
    BY <1>1, AbsentAssumption DEF VotingRecord
  <1>3. votings'[v] = r /\ \A u \in VotingId \ {v} : votings'[u] = votings[u]
    BY <1>1 DEF Fit
  <1>4. votings' \in [VotingId -> VotingRecord \cup {Nil}]
    BY <1>1, <1>2 DEF Fit
  <1> HIDE DEF r
  <1> QED BY <1>1, <1>2, <1>3, <1>4 DEF VotingsGrow, Stored

\* A new voting is about an item on its way to the market, or on it.
VotingsStep ==
    /\ VotingsGrow
    /\ \A v \in Stored' \ Stored : \E s \in Client :
         /\ votings'[v].item = req[s].item
         /\ \/ req[s].pc \in Moving
            \/ req[s].pc \in MarketPC /\ req[s].item \in Live
    /\ passed' \cup jobs' \cup closed' \cup untimed' \subseteq Stored'

LEMMA VotingSteps ==
    ASSUME Fit, [Next]_vars
    PROVE  VotingsStep
  <1>0. ASSUME UNCHANGED votings PROVE VotingsGrow /\ Stored' = Stored
    BY <1>0 DEF VotingsGrow, Stored, Fit
  <1>1. ASSUME NEW s \in Client, startSellVoting(s) PROVE VotingsStep
    <2>1. s \in Slot /\ req[s].pc = "vote" /\ Good(s, req[s], votings)
      BY <1>1 DEF startSellVoting, At, Slot, Fit
    <2>2. req[s].item \in ItemId /\ req[s].clan \in Clan /\ req[s].price \in Price
      BY <2>1 DEF Good, Moving
    <2>3. /\ VotingsGrow /\ votings'[NewVoting].item = req[s].item
          /\ NewVoting \in VotingId /\ Stored' = Stored \cup {NewVoting}
      <3>1. startVoting("SELL", req[s].clan, req[s].item, req[s].price) /\ Stored # VotingId
        BY <1>1 DEF startSellVoting
      <3>2. "SELL" \in VotingType
        BY DEF VotingType
      <3> QED BY <2>2, <3>1, <3>2, Started
    <2> QED BY <1>1, <2>1, <2>3 DEF startSellVoting, Fit, VotingsStep, history, Moving
  <1>2. ASSUME NEW s \in Client, handleBooking(s) \/ changeItemPrice(s) PROVE VotingsStep
    <2>1. s \in Slot /\ req[s].pc \in {"pay", "price"} /\ Good(s, req[s], votings) /\ req[s].item \in Live
      BY <1>2 DEF handleBooking, changeItemPrice, At, Slot, Fit
    <2>2. req[s].item \in ItemId /\ req[s].clan \in Clan /\ req[s].price \in Price
      BY <2>1 DEF Good, MarketPC
    <2>3. /\ VotingsGrow /\ votings'[NewVoting].item = req[s].item
          /\ NewVoting \in VotingId /\ Stored' = Stored \cup {NewVoting}
      <3>1. /\ \E type \in VotingType : startVoting(type, req[s].clan, req[s].item, req[s].price)
            /\ Stored # VotingId
        BY <1>2 DEF handleBooking, changeItemPrice, VotingType
      <3> QED BY <2>2, <3>1, Started
    <2> QED BY <1>2, <2>1, <2>3 DEF handleBooking, changeItemPrice, Fit, VotingsStep, MarketPC, history
  <1>3. ASSUME NEW s \in Slot, castVote(s) \/ finalizeVoting(s) PROVE VotingsStep
    <2>1. req[s].voting \in Stored
      BY <1>3 DEF castVote, finalizeVoting, At, Fit, Good, JobPC, Stored
    <2>2. VotingsGrow /\ Stored' = Stored
      BY <1>3, <2>1, EndedVoting DEF castVote, finalizeVoting
    <2> QED BY <1>3, <2>1, <2>2 DEF castVote, finalizeVoting, Fit, VotingsStep, history
  <1>4. ASSUME NEW s \in Client, addVotingCheckJob(s) \/ addSellVotingJob(s) PROVE VotingsStep
    <2>1. req[s].voting \in Stored
      BY <1>4 DEF addVotingCheckJob, addSellVotingJob, At, Fit, Good, Stored, Slot
    <2> QED BY <1>0, <1>4, <2>1 DEF addVotingCheckJob, addSellVotingJob, Fit, VotingsStep, history
  <1>5. ASSUME NEW w \in Worker, NEW v \in VotingId, process(w, v) PROVE VotingsStep
    BY <1>0, <1>5 DEF process, Fit, VotingsStep, history
  <1>6. CASE Stop
    <2>1. /\ {req[w].voting : w \in {w \in Worker : ~At(w, "idle")}} \subseteq Stored
          /\ {req[s].voting : s \in {s \in Client : At(s, "enqueue")}} \subseteq Stored
      BY SlotsAssumption DEF At, Fit, Good, Slot, Stored, JobPC
    <2> QED BY <1>0, <1>6, <2>1 DEF Stop, Fit, VotingsStep
  <1>7. ASSUME NEW v \in VotingId, handleVotingPassed(v) PROVE VotingsStep
    <2>1. UNCHANGED <<votings, jobs, closed, untimed>> /\ passed' = passed \ {v}
      BY <1>7 DEF handleVotingPassed
    <2> QED BY <1>0, <2>1 DEF Fit, VotingsStep
  <1>8. CASE UNCHANGED <<votings, passed, jobs, closed, untimed>>
    BY <1>0, <1>8 DEF Fit, VotingsStep
  <1>9. ASSUME NEW s \in Client, Request(s) PROVE UNCHANGED <<votings, passed, jobs, closed, untimed>>
    BY <1>9 DEF Request, handleSellItem, handleBuyItem, readToChangePrice, readToChangeStatus,
                readToMove, readToUpdateAdPoster, readToBuySlot, addVote, history
  <1>10. ASSUME NEW s \in Client, Continue(s) PROVE VotingsStep
    BY <1>1, <1>2, <1>3, <1>4, <1>8, <1>10
       DEF Continue, Slot, unstock, commitSale, cancelSale, readToBuy, buyDirectly, commitBooking,
           changeItemStatus, moveFleaMarketItemToStock, buyStallSlot, updateAdPosterByClanId, cancelTransaction, history
  <1>11. ASSUME NEW w \in Worker, Job(w) PROVE VotingsStep
    BY <1>3, <1>5, <1>8, <1>11
       DEF Job, Slot, handlePassedBuyVoting, handleRejectedBuyVoting, readToRefund, refund,
           settleSellVoting, settlePriceVoting, history
  <1>12. CASE UNCHANGED vars
    BY <1>8, <1>12 DEF vars, history
  <1> QED BY <1>6, <1>7, <1>8, <1>9, <1>10, <1>11, <1>12 DEF Next
----------------------------------------------------------------------------
\* How a slot that turns to r comes to hold the job of a voting, or to owe one.
Holds(s, r) ==
    r.pc \in JobPC \cup {"job", "book", "enqueue"} =>
       \/ r.pc \in JobPC /\ req[s].pc \in JobPC /\ r.voting = req[s].voting
       \/ r.pc \in {"passed", "rejected"} /\ process(s, r.voting)
       \/ r.pc \in {"job", "book"} /\ r.voting = NewVoting /\ (startSellVoting(s) \/ handleBooking(s))
       \/ r.pc = "enqueue" /\ req[s].pc = "book" /\ r.voting = req[s].voting /\ commitBooking(s)

\* A slot turns to the request r: about the same item, about none, about a live one
\* it has just read, or about the new one of a sale.
Turns(s, r) ==
    /\ r \in RequestRecord /\ Good(s, r, votings') /\ Holds(s, r)
    /\ req' = [req EXCEPT ![s] = r]
    /\ \/ /\ r.item = req[s].item
          /\ r.pc \in MarketPC => req[s].pc \in MarketPC
          /\ r.pc = "unstock" => req[s].pc = "unstock"
          /\ r.pc \in Moving => req[s].pc \in Moving
       \/ r.item = Nil /\ r.pc \notin MarketPC \cup Moving \cup {"unstock"}
       \/ /\ UNCHANGED items /\ r.item \in Live /\ r.pc \notin Moving
          /\ r.pc \in MarketPC => items[r.item] \in MarketItem
          /\ r.pc = "unstock" => items[r.item] \in StockItem
       \/ Takes(s) /\ r.item = NewItem /\ r.pc \in Moving

Turn(s) == \E r \in RequestRecord : Turns(s, r)

LEMMA IdleRequest == Idle \in RequestRecord /\ Idle.item = Nil /\ Idle.pc = "idle"
  BY DEF Idle, RequestRecord, OtherPC

LEMMA Finishes ==
    ASSUME NEW s \in Slot, Finish(s)
    PROVE  Turn(s)
  <1>1. Idle \in RequestRecord /\ Idle.item = Nil /\ Idle.pc = "idle"
    BY IdleRequest
  <1>2. Good(s, Idle, votings')
    BY <1>1 DEF Good, JobPC, Moving, MarketPC
  <1>3. Turns(s, Idle)
    BY <1>1, <1>2 DEF Finish, Turns, Holds, MarketPC, Moving, JobPC
  <1> QED BY <1>1, <1>3 DEF Turn

\* The votings a request is about are still there.
LEMMA StillGood ==
    ASSUME Fit, VotingsGrow, NEW s \in Slot
    PROVE  req[s] \in RequestRecord /\ Good(s, req[s], votings) /\ Good(s, req[s], votings')
  <1>1. req[s] \in RequestRecord /\ Good(s, req[s], votings)
    BY DEF Fit
  <1>2. \A v \in VotingId : votings[v] # Nil =>
           /\ votings'[v] # Nil /\ votings'[v].type = votings[v].type /\ votings'[v].clan = votings[v].clan
           /\ votings'[v].item = votings[v].item /\ votings'[v].price = votings[v].price
    <2>1. \A v \in Stored :
             /\ votings'[v] # Nil
             /\ votings'[v]["type"] = votings[v]["type"] /\ votings'[v]["clan"] = votings[v]["clan"]
             /\ votings'[v]["item"] = votings[v]["item"] /\ votings'[v]["price"] = votings[v]["price"]
      BY DEF VotingsGrow
    <2> QED BY <2>1 DEF Stored
  <1>3. Good(s, req[s], votings')
    BY <1>1, <1>2 DEF Good, JobPC
  <1> QED BY <1>1, <1>3

\* A slot goes on to another step of the same request.
LEMMA GoesOn ==
    ASSUME Fit, VotingsGrow, NEW s \in Slot, NEW pc,
           \/ req[s].pc \in Moving /\ pc = "list"
           \/ req[s].pc \in JobPC /\ pc = "finalize"
           \/ req[s].pc \in JobPC /\ pc \in {"refund", "credit"} /\ votings[req[s].voting].type = "BUY",
           \/ req' = [req EXCEPT ![s].pc = pc]
           \/ \E coins \in Int : req' = [req EXCEPT ![s].pc = pc, ![s].coins = coins]
    PROVE  Turn(s)
  <1>1. req[s] \in RequestRecord /\ Good(s, req[s], votings')
    BY StillGood
  <1>2. PICK coins \in Int : req' = [req EXCEPT ![s] = [req[s] EXCEPT !.pc = pc, !.coins = coins]]
    <2>1. CASE req' = [req EXCEPT ![s].pc = pc]
      <3>1. [req[s] EXCEPT !.pc = pc] = [req[s] EXCEPT !.pc = pc, !.coins = req[s].coins] /\ req[s].coins \in Int
        BY <1>1 DEF RequestRecord
      <3> QED BY <2>1, <3>1
    <2>2. ASSUME NEW coins \in Int, req' = [req EXCEPT ![s].pc = pc, ![s].coins = coins]
          PROVE  req' = [req EXCEPT ![s] = [req[s] EXCEPT !.pc = pc, !.coins = coins]]
      BY <2>2 DEF Fit
    <2> QED BY <2>1, <2>2
  <1> DEFINE r == [req[s] EXCEPT !.pc = pc, !.coins = coins]
  <1>3. pc \in Moving \cup JobPC
    BY DEF Moving, JobPC
  <1>4. /\ r \in RequestRecord /\ r.pc = pc
        /\ r.clan = req[s].clan /\ r.item = req[s].item /\ r.read = req[s].read
        /\ r.price = req[s].price /\ r.voting = req[s].voting
    BY <1>1, <1>3 DEF RequestRecord
  <1> HIDE DEF r
  <1>5. req[s].pc \in JobPC => votings'[req[s].voting].type = votings[req[s].voting].type
    <2>1. \A v \in Stored : votings'[v]["type"] = votings[v]["type"]
      BY DEF VotingsGrow
    <2> QED BY <2>1 DEF Fit, Good, Stored
  <1>6. Good(s, r, votings')
    BY <1>1, <1>4, <1>5 DEF Good, Moving, JobPC, MarketPC
  <1>7. Turns(s, r)
    BY <1>2, <1>4, <1>6 DEF Turns, Holds, r, Moving, JobPC, MarketPC
  <1> QED BY <1>4, <1>7 DEF Turn

\* A request reads an item, a clan or a voting.
LEMMA Reads ==
    ASSUME Fit, NEW s \in Client, Request(s)
    PROVE  Turn(s)
  <1>0. s \in Slot
    BY DEF Slot
  <1>1. ASSUME NEW c \in Clan, NEW i \in ItemId, NEW p \in Price, handleSellItem(s, c, i, p) PROVE Turn(s)
    <2> DEFINE r == [Idle EXCEPT !.pc = "unstock", !.clan = c, !.item = i, !.read = items[i], !.price = p]
    <2>1. i \in Live /\ items[i] \in StockItem /\ UNCHANGED items
      BY <1>1, Lives DEF handleSellItem
    <2>2. r \in RequestRecord /\ r.pc = "unstock" /\ r.clan = c /\ r.item = i /\ r.read = items[i] /\ r.price = p
      BY <2>1, Documents, IdleRequest DEF RequestRecord, OtherPC
    <2>3. req' = [req EXCEPT ![s] = r]
      BY <1>1 DEF handleSellItem
    <2> HIDE DEF r
    <2>4. Turns(s, r)
      BY <2>1, <2>2, <2>3 DEF Turns, Holds, Good, JobPC, MarketPC, Moving
    <2> QED BY <2>2, <2>4 DEF Turn
  <1>2. ASSUME NEW c \in Clan, NEW i \in ItemId \cup {Nil}, NEW p \in Amount \cup {Nil},
               NEW pc \in {"buy", "slot", "poster"}, ReadClan(s, pc, c, i, p), UNCHANGED items,
               pc = "buy" => i \in Live, pc = "slot" => p \in Amount, pc # "buy" => i = Nil
        PROVE  Turn(s)
    <2> DEFINE r == [Idle EXCEPT !.pc = pc, !.clan = c, !.item = i, !.price = p,
                                 !.coins = gameCoins[c], !.slots = maxSlots[c]]
    <2>1. gameCoins[c] \in Int /\ maxSlots[c] \in Nat
      BY DEF Fit
    <2>2. r \in RequestRecord /\ r.pc = pc /\ r.clan = c /\ r.item = i /\ r.price = p
      BY <2>1 DEF Idle, RequestRecord, OtherPC
    <2>3. req' = [req EXCEPT ![s] = r]
      BY <1>2 DEF ReadClan
    <2>4. i \in Live => i \in ItemId
      BY Lives
    <2> HIDE DEF r
    <2>5. Turns(s, r)
      BY <1>2, <2>2, <2>3, <2>4 DEF Turns, Holds, Good, JobPC, MarketPC, Moving
    <2> QED BY <2>2, <2>5 DEF Turn
  <1>3. ASSUME NEW i \in OnMarket, NEW pc \in MarketPC \ {"pay", "book"}, NEW p \in Price \cup {Nil},
               ReadOwn(s, i, pc, p), items[i].status # "BOOKED", pc = "price" => p \in Price,
               UNCHANGED items
        PROVE  Turn(s)
    <2> DEFINE r == [Idle EXCEPT !.pc = pc, !.clan = items[i].clan, !.item = i, !.read = items[i], !.price = p]
    <2>1. i \in Live /\ i \in ItemId /\ items[i] \in MarketItem /\ items[i].clan \in Clan
      BY Lives DEF MarketItem
    <2>2. r \in RequestRecord /\ r.pc = pc /\ r.clan = items[i].clan /\ r.item = i /\ r.read = items[i] /\ r.price = p
      BY <2>1, Documents, IdleRequest, ZenonT(40) DEF RequestRecord
    <2>3. req' = [req EXCEPT ![s] = r]
      BY <1>3 DEF ReadOwn
    <2> HIDE DEF r
    <2>4. Turns(s, r)
      BY <1>3, <2>1, <2>2, <2>3 DEF Turns, Holds, Good, JobPC, MarketPC, Moving
    <2> QED BY <2>2, <2>4 DEF Turn
  <1>4. ASSUME NEW v \in VotingId, addVote(s, v) PROVE Turn(s)
    <2> DEFINE r == [Idle EXCEPT !.pc = "cast", !.voting = v]
    <2>1. v \in Stored /\ UNCHANGED votings /\ req' = [req EXCEPT ![s] = r]
      BY <1>4 DEF addVote
    <2>2. r \in RequestRecord /\ r.pc = "cast" /\ r.item = Nil /\ r.voting = v
      BY IdleRequest DEF RequestRecord, OtherPC
    <2> HIDE DEF r
    <2>3. Turns(s, r)
      BY <2>1, <2>2 DEF Turns, Holds, Good, JobPC, MarketPC, Moving, Stored
    <2> QED BY <2>2, <2>3 DEF Turn
  <1>5. ASSUME NEW c \in Clan, NEW i \in ItemId, handleBuyItem(s, c, i) PROVE Turn(s)
    BY <1>2, <1>5, Lives DEF handleBuyItem
  <1>6. ASSUME NEW i \in ItemId, NEW p \in Price, readToChangePrice(s, i, p) PROVE Turn(s)
    BY <1>3, <1>6 DEF readToChangePrice, MarketPC
  <1>7. ASSUME NEW i \in ItemId, NEW status \in {"AVAILABLE", "SHIPPING"}, readToChangeStatus(s, i, status)
        PROVE  Turn(s)
    BY <1>3, <1>7 DEF readToChangeStatus, MarketPC
  <1>8. ASSUME NEW i \in ItemId, readToMove(s, i) PROVE Turn(s)
    BY <1>3, <1>8 DEF readToMove, MarketPC
  <1>9. ASSUME NEW c \in Clan, readToUpdateAdPoster(s, c) PROVE Turn(s)
    BY <1>2, <1>9 DEF readToUpdateAdPoster
  <1>10. ASSUME NEW c \in Clan, NEW amount \in Amount, readToBuySlot(s, c, amount) PROVE Turn(s)
    BY <1>2, <1>10 DEF readToBuySlot
  <1> QED BY <1>1, <1>4, <1>5, <1>6, <1>7, <1>8, <1>9, <1>10 DEF Request

\* A request goes on.
LEMMA Continues ==
    ASSUME Fit, VotingsGrow, NEW s \in Client, Continue(s)
    PROVE  Turn(s)
  <1>0. s \in Slot /\ req[s] \in RequestRecord /\ Good(s, req[s], votings) /\ Good(s, req[s], votings')
    BY StillGood DEF Slot
  <1>1. CASE unstock(s)
    <2>1. CASE req[s].item \in Live
      <3>1. Takes(s) /\ Free # {} /\ UNCHANGED votings
        BY <1>1, <2>1 DEF unstock, Takes
      <3>2. NewItem \in ItemId
        BY <3>1, New DEF Free
      <3>3. PICK pc \in {"sell", "vote"} : req' = [req EXCEPT ![s].pc = pc, ![s].item = NewItem]
        BY <1>1, <2>1 DEF unstock
      <3> DEFINE r == [req[s] EXCEPT !.pc = pc, !.item = NewItem]
      <3>4. req' = [req EXCEPT ![s] = r]
        BY <1>0, <3>3 DEF Fit
      <3>5. /\ r \in RequestRecord /\ r.pc = pc /\ r.item = NewItem
            /\ r.clan = req[s].clan /\ r.read = req[s].read /\ r.price = req[s].price
        BY <1>0, <3>2, ZenonT(40) DEF RequestRecord, Moving
      <3> HIDE DEF r
      <3>6. req[s].pc = "unstock"
        BY <3>1 DEF Takes, At
      <3>7. Good(s, r, votings')
        BY <1>0, <3>2, <3>5, <3>6 DEF Good, Moving, JobPC, MarketPC
      <3>8. Turns(s, r)
        BY <3>1, <3>4, <3>5, <3>7 DEF Turns, Holds, Moving, JobPC
      <3> QED BY <3>5, <3>8 DEF Turn
    <2>2. CASE Finish(s)
      BY <1>0, <2>2, Finishes
    <2> QED BY <1>1, <2>1, <2>2 DEF unstock
  <1>2. CASE startSellVoting(s)
    <2> DEFINE r == [req[s] EXCEPT !.pc = "job", !.voting = NewVoting]
    <2>1. /\ req[s].pc = "vote" /\ Stored # VotingId
          /\ req' = [req EXCEPT ![s].pc = "job", ![s].voting = NewVoting]
          /\ startVoting("SELL", req[s].clan, req[s].item, req[s].price)
      BY <1>2 DEF startSellVoting, At
    <2>2. req' = [req EXCEPT ![s] = r]
      BY <1>0, <2>1 DEF Fit
    <2>3. NewVoting \in VotingId /\ votings'[NewVoting] # Nil /\ votings'[NewVoting].type = "SELL"
      <3>1. "SELL" \in VotingType /\ req[s].clan \in Clan /\ req[s].item \in ItemId /\ req[s].price \in Price
        BY <1>0, <2>1 DEF Good, Moving, VotingType
      <3>2. NewVoting \in Stored' /\ NewVoting \in VotingId /\ votings'[NewVoting].type = "SELL"
        BY <2>1, <3>1, Started
      <3> QED BY <3>2 DEF Stored
    <2>4. /\ r \in RequestRecord /\ r.pc = "job" /\ r.item = req[s].item /\ r.voting = NewVoting
          /\ r.clan = req[s].clan /\ r.read = req[s].read /\ r.price = req[s].price
      BY <1>0, <2>3 DEF RequestRecord, Moving
    <2> HIDE DEF r
    <2>5. Good(s, r, votings')
      BY <1>0, <2>1, <2>3, <2>4 DEF Good, Moving, JobPC, MarketPC
    <2>6. Turns(s, r)
      BY <1>2, <2>1, <2>2, <2>4, <2>5 DEF Turns, Holds, Moving, MarketPC, JobPC
    <2> QED BY <2>4, <2>6 DEF Turn
  <1>6. CASE addSellVotingJob(s)
    <2>1. req[s].pc \in Moving /\ req' = [req EXCEPT ![s].pc = "list"]
      BY <1>6 DEF addSellVotingJob, At, Moving
    <2> QED BY <1>0, <2>1, GoesOn
  <1>3. CASE readToBuy(s)
    <2>1. CASE Finish(s)
      BY <1>0, <2>1, Finishes
    <2>2. CASE ~Finish(s)
      <3> DEFINE i == req[s].item
                 r == [req[s] EXCEPT !.pc = "pay", !.read = items[i], !.price = items[i].price]
      <3>1. /\ i \in Live /\ items[i].status = "AVAILABLE" /\ req[s].pc = "buy" /\ UNCHANGED <<items, votings>>
            /\ req' = [req EXCEPT ![s].pc = "pay", ![s].read = items[i], ![s].price = items[i].price]
        BY <1>3, <2>2 DEF readToBuy, At
      <3>2. items[i] \in MarketItem /\ items[i].price \in Price
        <4>1. items[i] \in MarketItem
          BY <3>1, Lives, AbsentAssumption DEF OnMarket, Status
        <4> QED BY <4>1 DEF MarketItem
      <3>3. req' = [req EXCEPT ![s] = r]
        BY <1>0, <3>1 DEF Fit
      <3>4. /\ r \in RequestRecord /\ r.pc = "pay" /\ r.item = i /\ r.read = items[i]
            /\ r.price = items[i].price /\ r.clan = req[s].clan
        BY <1>0, <3>2, Documents DEF RequestRecord, MarketPC
      <3> HIDE DEF r
      <3>5. Good(s, r, votings')
        BY <1>0, <3>1, <3>2, <3>4 DEF Good, Moving, JobPC, MarketPC
      <3>6. Turns(s, r)
        BY <3>1, <3>2, <3>3, <3>4, <3>5 DEF Turns, Holds, Moving, JobPC
      <3> QED BY <3>4, <3>6 DEF Turn
    <2> QED BY <2>1, <2>2
  <1>4. CASE handleBooking(s)
    <2> DEFINE r == [req[s] EXCEPT !.pc = "book", !.voting = NewVoting]
    <2>1. /\ req[s].pc = "pay" /\ Stored # VotingId
          /\ req' = [req EXCEPT ![s].pc = "book", ![s].voting = NewVoting]
          /\ startVoting("BUY", req[s].clan, req[s].item, req[s].price)
      BY <1>4 DEF handleBooking, At
    <2>2. req' = [req EXCEPT ![s] = r]
      BY <1>0, <2>1 DEF Fit
    <2>3. /\ NewVoting \in VotingId /\ votings'[NewVoting] # Nil /\ votings'[NewVoting].type = "BUY"
          /\ votings'[NewVoting].clan = req[s].clan /\ votings'[NewVoting].item = req[s].item
          /\ votings'[NewVoting].price = req[s].price
      <3>1. "BUY" \in VotingType /\ req[s].clan \in Clan /\ req[s].item \in ItemId /\ req[s].price \in Price
        BY <1>0, <2>1 DEF Good, MarketPC, VotingType
      <3>2. /\ NewVoting \in Stored' /\ NewVoting \in VotingId
            /\ votings'[NewVoting].type = "BUY" /\ votings'[NewVoting].item = req[s].item
            /\ votings'[NewVoting].clan = req[s].clan /\ votings'[NewVoting].price = req[s].price
        BY <2>1, <3>1, Started
      <3> QED BY <3>2 DEF Stored
    <2>4. /\ r \in RequestRecord /\ r.pc = "book" /\ r.item = req[s].item /\ r.voting = NewVoting
          /\ r.clan = req[s].clan /\ r.read = req[s].read /\ r.price = req[s].price
      BY <1>0, <2>3 DEF RequestRecord, MarketPC
    <2> HIDE DEF r
    <2>5. Good(s, r, votings')
      BY <1>0, <2>1, <2>3, <2>4 DEF Good, Moving, JobPC, MarketPC
    <2>6. Turns(s, r)
      BY <1>4, <2>1, <2>2, <2>4, <2>5 DEF Turns, Holds, Moving, MarketPC, JobPC
    <2> QED BY <2>4, <2>6 DEF Turn
  <1>7. CASE commitBooking(s)
    <2> DEFINE r == [req[s] EXCEPT !.pc = "enqueue"]
    <2>1. req[s].pc = "book" /\ req' = [req EXCEPT ![s].pc = "enqueue"]
      BY <1>7 DEF commitBooking, At
    <2>2. req' = [req EXCEPT ![s] = r]
      BY <1>0, <2>1 DEF Fit
    <2>3. r \in RequestRecord /\ r.pc = "enqueue" /\ r.item = req[s].item /\ r.voting = req[s].voting
      BY <1>0 DEF RequestRecord, OtherPC
    <2> HIDE DEF r
    <2>4. Good(s, r, votings')
      BY <1>0, <2>1, <2>3 DEF Good, Moving, JobPC, MarketPC
    <2>5. Turns(s, r)
      BY <1>7, <2>1, <2>2, <2>3, <2>4 DEF Turns, Holds, Moving, MarketPC, JobPC
    <2> QED BY <2>3, <2>5 DEF Turn
  <1>5. CASE Finish(s)
    BY <1>0, <1>5, Finishes
  <1> QED BY <1>1, <1>2, <1>3, <1>4, <1>5, <1>6, <1>7
          DEF Continue, commitSale, cancelSale, buyDirectly, addVotingCheckJob, changeItemPrice,
              changeItemStatus, moveFleaMarketItemToStock, buyStallSlot, updateAdPosterByClanId,
              cancelTransaction, castVote

\* A job takes up a voting and goes on with it.
LEMMA JobTurns ==
    ASSUME Fit, VotingsGrow, NEW w \in Worker, Job(w)
    PROVE  Turn(w)
  <1>0. w \in Slot /\ req[w] \in RequestRecord /\ Good(w, req[w], votings)
    BY StillGood DEF Slot
  <1>1. ASSUME NEW v \in VotingId, process(w, v) PROVE Turn(w)
    <2>1. PICK pc \in {"passed", "rejected"} : req' = [req EXCEPT ![w] = [Idle EXCEPT !.pc = pc, !.voting = v]]
      BY <1>1 DEF process
    <2> DEFINE r == [Idle EXCEPT !.pc = pc, !.voting = v]
    <2>2. v \in Stored /\ UNCHANGED votings /\ req' = [req EXCEPT ![w] = r]
      BY <1>1, <2>1 DEF process, Fit
    <2>3. r \in RequestRecord /\ r.pc = pc /\ r.item = Nil /\ r.voting = v
      BY IdleRequest, ZenonT(40) DEF RequestRecord, JobPC
    <2> HIDE DEF r
    <2>4. Turns(w, r)
      BY <1>1, <2>2, <2>3 DEF Turns, Holds, Good, JobPC, MarketPC, Moving, Stored
    <2> QED BY <2>3, <2>4 DEF Turn
  <1>2. CASE \/ handlePassedBuyVoting(w) \/ handleRejectedBuyVoting(w) \/ refund(w)
             \/ settleSellVoting(w) /\ ~Finish(w)
             \/ settlePriceVoting(w)
    <2>1. req[w].pc \in JobPC
      BY <1>2 DEF handlePassedBuyVoting, handleRejectedBuyVoting, refund, settleSellVoting,
                  settlePriceVoting, Settles, At, JobPC
    <2>2. \/ req' = [req EXCEPT ![w].pc = "finalize"]
          \/ req' = [req EXCEPT ![w].pc = "refund"] /\ votings[req[w].voting].type = "BUY"
      BY <1>2 DEF handlePassedBuyVoting, handleRejectedBuyVoting, refund, settleSellVoting,
                  settlePriceVoting, Settles, Then
    <2> QED BY <1>0, <2>1, <2>2, GoesOn
  <1>3. CASE readToRefund(w)
    <2> DEFINE coins == gameCoins[votings[req[w].voting].clan]
    <2>1. /\ req[w].pc = "refund" /\ votings[req[w].voting].type = "BUY" /\ req[w].voting \in Stored
          /\ req' = [req EXCEPT ![w].pc = "credit", ![w].coins = coins]
      BY <1>0, <1>3 DEF readToRefund, At, Good, JobPC, Stored
    <2>2. coins \in Int
      BY <2>1, Lives DEF Fit, VotingRecord
    <2> HIDE DEF coins
    <2>3. req[w].pc \in JobPC
      BY <2>1 DEF JobPC
    <2> QED BY <1>0, <2>1, <2>2, <2>3, GoesOn
  <1>4. CASE Finish(w)
    BY <1>0, <1>4, Finishes
  <1> QED BY <1>1, <1>2, <1>3, <1>4 DEF Job, finalizeVoting, settleSellVoting

LEMMA RequestSteps ==
    ASSUME Fit, [Next]_vars
    PROVE  \/ UNCHANGED req
           \/ Stop /\ req' = [s \in Slot |-> Idle]
           \/ \E s \in Slot : Turn(s)
  <1>1. VotingsGrow
    BY VotingSteps DEF VotingsStep
  <1>2. CASE Stop
    BY <1>2 DEF Stop
  <1> QED BY <1>1, <1>2, Reads, Continues, JobTurns DEF Next, Slot, handleVotingPassed, vars
----------------------------------------------------------------------------
LEMMA Noted ==
    ASSUME outcome \in [VotingId -> Outcome], NEW v, NEW result \in Outcome, NoteOutcome(v, result)
    PROVE  outcome' \in [VotingId -> Outcome]
  BY DEF NoteOutcome

\* Coins, stalls and outcomes.
LEMMA CoinsFit ==
    ASSUME Fit, [Next]_vars
    PROVE  /\ gameCoins' \in [Clan -> Int] /\ maxSlots' \in [Clan -> Nat]
           /\ outcome' \in [VotingId -> Outcome] /\ stale' \subseteq Clan
  <1> DEFINE CoinsGoal == /\ gameCoins' \in [Clan -> Int] /\ maxSlots' \in [Clan -> Nat]
                          /\ outcome' \in [VotingId -> Outcome] /\ stale' \subseteq Clan
  <1> SUFFICES CoinsGoal
    OBVIOUS
  <1>0. \A s \in Slot : req[s] \in RequestRecord /\ Good(s, req[s], votings) /\ req[s].coins \in Int /\ req[s].slots \in Nat
    BY DEF Fit, RequestRecord
  <1>1. CASE UNCHANGED <<gameCoins, maxSlots, outcome, stale>>
    BY <1>1 DEF Fit
  <1>2. ASSUME NEW s \in Client, buyDirectly(s) \/ commitBooking(s) PROVE CoinsGoal
    <2>1. s \in Slot /\ req[s].pc \in {"pay", "book"} /\ reserveFunds(s)
          /\ (UNCHANGED outcome \/ outcome' = [outcome EXCEPT ![req[s].voting] = "open"])
          /\ (stale' = stale \/ stale' = stale \cup {req[s].clan})
      BY <1>2 DEF buyDirectly, commitBooking, At, Slot, Overwrites, NoteStale
    <2>2. req[s].clan \in Clan /\ req[s].price \in Price /\ req[s].coins \in Int /\ req[s].slots \in Nat
      BY <1>0, <2>1 DEF Good, MarketPC
    <2>3. req[s].coins - req[s].price \in Int
      BY <2>2, PriceAssumption
    <2>4. outcome' \in [VotingId -> Outcome]
      BY <2>1 DEF Outcome, Fit
    <2> QED BY <2>1, <2>2, <2>3, <2>4 DEF reserveFunds, Fit
  <1>3. ASSUME NEW s \in Client, buyStallSlot(s) PROVE CoinsGoal
    <2>1. s \in Slot /\ req[s].pc = "slot" /\ UNCHANGED outcome
          /\ (stale' = stale \/ stale' = stale \cup {req[s].clan})
      BY <1>3 DEF buyStallSlot, At, Slot, NoteStale
    <2>2. req[s].clan \in Clan /\ req[s].price \in Nat /\ req[s].coins \in Int /\ req[s].slots \in Nat
      BY <1>0, <2>1, SlotPriceAssumption DEF Good
    <2>3. req[s].coins - SlotPrice * req[s].price \in Int /\ req[s].slots + req[s].price \in Nat
      BY <2>2, SlotPriceAssumption
    <2> QED BY <1>3, <2>1, <2>2, <2>3 DEF buyStallSlot, Fit
  <1>4. ASSUME NEW s \in Client, updateAdPosterByClanId(s) PROVE CoinsGoal
    <2>1. s \in Slot /\ req[s].pc = "poster" /\ UNCHANGED <<gameCoins, outcome>>
          /\ (stale' = stale \/ stale' = stale \cup {req[s].clan})
      BY <1>4 DEF updateAdPosterByClanId, At, Slot, NoteStale
    <2>2. req[s].clan \in Clan /\ req[s].slots \in Nat
      BY <1>0, <2>1 DEF Good
    <2> QED BY <1>4, <2>1, <2>2 DEF updateAdPosterByClanId, Fit
  <1>5. ASSUME NEW w \in Worker, refund(w) PROVE CoinsGoal
    <2> DEFINE v == req[w].voting
               c == votings[v].clan
    <2>1. w \in Slot /\ req[w].pc = "credit" /\ UNCHANGED maxSlots
          /\ gameCoins' = [gameCoins EXCEPT ![c] = req[w].coins + votings[v].price]
          /\ NoteOutcome(v, "refunded")
          /\ (stale' = stale \/ stale' = stale \cup {c})
      BY <1>5 DEF refund, At, Slot
    <2>2. v \in Stored
      BY <1>0, <2>1 DEF Good, JobPC, Stored
    <2>3. c \in Clan /\ votings[v].price \in Price /\ req[w].coins \in Int
      BY <1>0, <2>1, <2>2, Lives DEF VotingRecord
    <2>4. req[w].coins + votings[v].price \in Int
      <3> DEFINE p == votings[v].price
                 n == req[w].coins
      <3>1. p \in Price /\ n \in Int
        BY <2>3
      <3> HIDE DEF p, n
      <3>2. n + p \in Int
        BY <3>1, PriceAssumption
      <3> QED BY <3>2 DEF p, n
    <2>5. outcome' \in [VotingId -> Outcome]
      <3> HIDE DEF v
      <3> QED BY <2>1, Noted DEF Outcome, Fit
    <2> QED BY <2>1, <2>3, <2>4, <2>5 DEF Fit
  <1>6. ASSUME NEW w \in Worker, handlePassedBuyVoting(w) \/ handleRejectedBuyVoting(w) PROVE CoinsGoal
    <2>1. /\ UNCHANGED <<gameCoins, maxSlots, stale>>
          /\ \/ UNCHANGED outcome
             \/ NoteOutcome(req[w].voting, "void") \/ NoteOutcome(req[w].voting, "delivered")
      BY <1>6 DEF handlePassedBuyVoting, handleRejectedBuyVoting, clans
    <2> QED BY <2>1 DEF NoteOutcome, Outcome, Fit
  <1>7. ASSUME NEW v \in VotingId, handleVotingPassed(v) PROVE CoinsGoal
    <2>1. /\ UNCHANGED <<gameCoins, maxSlots, stale>>
          /\ UNCHANGED outcome \/ NoteOutcome(v, "adrift")
      BY <1>7 DEF handleVotingPassed, DeliverOnEvent, ReleaseOnEvent, clans
    <2> QED BY <2>1 DEF NoteOutcome, Outcome, Fit
  <1>8. ASSUME NEW s \in Client, Request(s) PROVE UNCHANGED <<gameCoins, maxSlots, outcome, stale>>
    BY <1>8 DEF Request, handleSellItem, handleBuyItem, readToChangePrice, readToChangeStatus,
                readToMove, readToUpdateAdPoster, readToBuySlot, addVote, history, clans
  <1>9. ASSUME NEW s \in Client, Continue(s) PROVE CoinsGoal
    BY <1>1, <1>2, <1>3, <1>4, <1>9
       DEF Continue, unstock, startSellVoting, addSellVotingJob, commitSale, cancelSale, readToBuy,
           handleBooking, addVotingCheckJob, changeItemPrice, changeItemStatus, moveFleaMarketItemToStock, cancelTransaction, castVote,
           history, clans
  <1>10. ASSUME NEW w \in Worker, Job(w) PROVE CoinsGoal
    BY <1>1, <1>5, <1>6, <1>10
       DEF Job, process, readToRefund, settleSellVoting, settlePriceVoting, finalizeVoting, history, clans
  <1>11. CASE Stop \/ UNCHANGED vars
    BY <1>1, <1>11 DEF Stop, vars, history, clans
  <1> QED BY <1>1, <1>7, <1>8, <1>9, <1>10, <1>11 DEF Next

\* The types, and what requests and jobs have read, are kept.
LEMMA FitStep ==
    ASSUME Fit, Kinds, [Next]_vars
    PROVE  Fit'
  <1>1. items' \in [ItemId -> MarketItem \cup StockItem \cup {Nil}]
    BY KindStep
  <1>2. VotingsGrow /\ passed' \cup jobs' \cup closed' \cup untimed' \subseteq Stored'
    BY VotingSteps DEF VotingsStep
  <1>3. req' \in [Slot -> RequestRecord] /\ \A s \in Slot : Good(s, req'[s], votings')
    <2>1. CASE UNCHANGED req
      BY <1>2, <2>1, StillGood DEF Fit
    <2>2. CASE req' = [s \in Slot |-> Idle]
      BY <2>2, IdleRequest DEF Good, JobPC, Moving, MarketPC
    <2>3. ASSUME NEW s \in Slot, NEW r \in RequestRecord, Turns(s, r)
          PROVE  req' \in [Slot -> RequestRecord] /\ \A t \in Slot : Good(t, req'[t], votings')
      BY <1>2, <2>3, StillGood DEF Turns, Fit
    <2> QED BY <2>1, <2>2, <2>3, RequestSteps DEF Turn
  <1> QED BY <1>1, <1>2, <1>3, CoinsFit DEF Fit, VotingsGrow

\* Known items stay what they are, or go; new ones are known to nobody.
LEMMA KnownStay ==
    ASSUME Fit, Kinds, [Next]_vars, NEW i \in ItemId, i \notin Free
    PROVE  /\ (i \in Live => items[i] \in MarketItem) => (i \in Live' => items'[i] \in MarketItem)
           /\ \/ i \in Live' => i \in Live /\ (items[i] \in StockItem => items'[i] \in StockItem)
              \/ \E s \in Client : commitSale(s) /\ req[s].item = i
  <1>1. i \in Live <=> items[i] # Nil
    BY DEF Live
  <1>2. i \in Live' <=> items'[i] # Nil
    BY DEF Live
  <1>3. \/ items'[i] = items[i] \/ items'[i] = Nil
        \/ items[i] \in MarketItem /\ items'[i] \in MarketItem
        \/ \E s \in Client : commitSale(s) /\ req[s].item = i /\ items[i] = Nil /\ items'[i] \in MarketItem
    BY KindStep
  <1> QED BY <1>1, <1>2, <1>3, Documents

\* A request that may turn: what it was about before.
LEMMA Turned ==
    ASSUME Fit, [Next]_vars, NEW t \in Slot, req'[t].pc \notin OtherPC \ {"unstock"}
    PROVE  \/ /\ req'[t].item = req[t].item
              /\ req'[t].pc \in MarketPC => req[t].pc \in MarketPC
              /\ req'[t].pc = "unstock" => req[t].pc = "unstock"
              /\ req'[t].pc \in Moving => req[t].pc \in Moving
           \/ req'[t].pc \in JobPC
           \/ /\ UNCHANGED items /\ req'[t].item \in Live /\ req'[t].pc \notin Moving
              /\ req'[t].pc \in MarketPC => items[req'[t].item] \in MarketItem
              /\ req'[t].pc = "unstock" => items[req'[t].item] \in StockItem
           \/ /\ Takes(t) /\ req'[t].item = NewItem
              /\ req'[t].pc \in Moving /\ \A u \in Slot \ {t} : req'[u] = req[u]
  <1>1. req'[t] = req[t] \/ req'[t] = Idle \/ \E r \in RequestRecord : Turns(t, r) /\ req'[t] = r
    BY RequestSteps DEF Turn, Turns, Fit
  <1>2. CASE req'[t] = req[t]
    BY <1>2
  <1>3. CASE req'[t] = Idle
    BY <1>3, IdleRequest DEF OtherPC
  <1>4. ASSUME NEW r \in RequestRecord, Turns(t, r), req'[t] = r, r.pc \notin JobPC, r.item # Nil
        PROVE  \/ /\ r.item = req[t].item
                  /\ r.pc \in MarketPC => req[t].pc \in MarketPC
                  /\ r.pc = "unstock" => req[t].pc = "unstock"
                  /\ r.pc \in Moving => req[t].pc \in Moving
               \/ /\ UNCHANGED items /\ r.item \in Live /\ r.pc \notin Moving
                  /\ r.pc \in MarketPC => items[r.item] \in MarketItem
                  /\ r.pc = "unstock" => items[r.item] \in StockItem
               \/ /\ Takes(t) /\ r.item = NewItem
                  /\ r.pc \in Moving /\ \A u \in Slot \ {t} : req'[u] = req[u]
    BY <1>4 DEF Turns, Fit
  <1>5. ASSUME NEW r \in RequestRecord, Turns(t, r), req'[t] = r, r.item = Nil
        PROVE  r.pc \in JobPC
    <2>1. r.pc \notin OtherPC \ {"unstock"} /\ r.pc \in Moving \cup MarketPC \cup JobPC \cup OtherPC
      BY <1>5 DEF RequestRecord
    <2>2. r.pc \notin Moving \cup MarketPC \cup {"unstock"}
      BY <1>5, NilAssumption DEF Turns, Good
    <2> QED BY <2>1, <2>2
  <1> QED BY <1>1, <1>2, <1>3, <1>4, <1>5

LEMMA KindsStep ==
    ASSUME Fit, Kinds, [Next]_vars
    PROVE  Kinds'
  <1>0. Fit' /\ \A t \in Slot : Good(t, req[t], votings) /\ Good(t, req'[t], votings')
    BY FitStep DEF Fit
  <1>1. \A t \in Slot : req[t].item \notin Free
    BY DEF Free
  <1>2. \A v \in Stored : votings[v].item \notin Free /\ votings[v].item \in ItemId
    BY Lives DEF Free, VotingRecord
  <1>3. \A t \in Slot : /\ req[t].pc \in MarketPC \cup Moving \cup {"unstock"} => req[t].item \in ItemId
                        /\ req'[t].pc \in MarketPC \cup Moving \cup {"unstock"} => req'[t].item \in ItemId
    BY <1>0 DEF Good
  <1>4. \A s \in Client : commitSale(s) => s \in Slot /\ req[s].pc \in Moving /\ Finish(s)
    BY DEF commitSale, At, Moving, Slot
  <1>5. ASSUME NEW t \in Slot, req'[t].pc \in MarketPC, req'[t].item \in Live'
        PROVE  items'[req'[t].item] \in MarketItem
    <2>1. req'[t].pc \notin (OtherPC \ {"unstock"}) \cup JobPC \cup Moving
      BY <1>5 DEF MarketPC, OtherPC, JobPC, Moving
    <2>2. CASE req'[t].item = req[t].item /\ req[t].pc \in MarketPC
      <3>1. req[t].item \in Live => items[req[t].item] \in MarketItem
        BY <2>2 DEF Kinds
      <3> QED BY <1>1, <1>3, <1>5, <2>2, <3>1, KnownStay
    <2>3. CASE UNCHANGED items /\ items[req'[t].item] \in MarketItem
      BY <2>3
    <2> QED BY <1>5, <2>1, <2>2, <2>3, Turned
  <1>6. ASSUME NEW t \in Slot, req'[t].pc = "unstock", req'[t].item \in Live'
        PROVE  items'[req'[t].item] \in StockItem
    <2>1. req'[t].pc \notin (OtherPC \ {"unstock"}) \cup JobPC \cup Moving
      BY <1>6 DEF OtherPC, JobPC, Moving
    <2>2. CASE req'[t].item = req[t].item /\ req[t].pc = "unstock"
      <3>1. req[t].item \in Live => items[req[t].item] \in StockItem
        BY <2>2 DEF Kinds
      <3>2. \A s \in Client : commitSale(s) => req[s].item # req[t].item
        BY <1>4, <2>2 DEF Kinds, Moving
      <3> QED BY <1>1, <1>3, <1>6, <2>2, <3>1, <3>2, KnownStay
    <2>3. CASE UNCHANGED items /\ items[req'[t].item] \in StockItem
      BY <2>3
    <2> QED BY <1>6, <2>1, <2>2, <2>3, Turned
  <1>7. ASSUME NEW v \in Stored', votings'[v].item \in Live'
        PROVE  items'[votings'[v].item] \in MarketItem
    <2>1. CASE v \in Stored
      <3>1. votings'[v]["item"] = votings[v]["item"]
        BY <2>1, VotingSteps DEF VotingsStep, VotingsGrow
      <3>2. votings[v].item \in Live => items[votings[v].item] \in MarketItem
        BY <2>1 DEF Kinds
      <3> QED BY <1>2, <1>7, <2>1, <3>1, <3>2, KnownStay
    <2>2. CASE v \notin Stored
      <3>1. PICK s \in Client : /\ votings'[v].item = req[s].item
                                /\ req[s].pc \in Moving \/ (req[s].pc \in MarketPC /\ req[s].item \in Live)
        BY <2>2, VotingSteps DEF VotingsStep
      <3>2. s \in Slot /\ (req[s].item \in Live => items[req[s].item] \in MarketItem)
        BY <3>1 DEF Slot, Kinds
      <3> QED BY <1>1, <1>3, <1>7, <3>1, <3>2, KnownStay
    <2> QED BY <2>1, <2>2
  <1>8. ASSUME NEW t \in Slot, req'[t].pc \in Moving
        PROVE  req'[t].item \notin Live' /\ \A u \in Slot \ {t} : req'[u].item # req'[t].item
    <2>1. req'[t].pc \notin (OtherPC \ {"unstock"}) \cup JobPC
      BY <1>8 DEF OtherPC, JobPC, Moving
    <2>2. CASE req'[t].item = req[t].item /\ req[t].pc \in Moving
      <3> DEFINE i == req[t].item
      <3>1. i \notin Live /\ i \in ItemId /\ i \notin Free /\ \A u \in Slot \ {t} : req[u].item # i
        BY <1>1, <1>3, <2>2 DEF Kinds
      <3>2. \A s \in Client : commitSale(s) => req[s].item # i
        <4>1. ASSUME NEW s \in Client, commitSale(s), req[s].item = i PROVE FALSE
          <5>1. s = t /\ Finish(t)
            BY <1>4, <3>1, <4>1
          <5>2. req'[t].pc = "idle"
            BY <5>1, IdleRequest DEF Finish, Fit
          <5> QED BY <1>8, <5>2 DEF Moving
        <4> QED BY <4>1
      <3>3. i \notin Live'
        BY <3>1, <3>2, KnownStay
      <3>4. ASSUME NEW u \in Slot \ {t} PROVE req'[u].item # i
        <4>1. \/ req'[u] = req[u] \/ req'[u] = Idle \/ req'[u].item \in {req[u].item, Nil}
              \/ req'[u].item \in Live \/ (Takes(u) /\ req'[u].item = NewItem)
          BY RequestSteps DEF Turn, Turns, Fit
        <4>2. Takes(u) => NewItem \in Free
          BY New DEF Takes, unstock
        <4> QED BY <3>1, <4>1, <4>2, IdleRequest, NilAssumption
      <3> QED BY <2>2, <3>3, <3>4
    <2>3. CASE Takes(t) /\ req'[t].item = NewItem /\ \A u \in Slot \ {t} : req'[u] = req[u]
      <3>1. Free # {} /\ items' = [items EXCEPT ![req[t].item] = Nil]
        BY <2>3 DEF Takes, unstock
      <3>2. NewItem \in ItemId /\ items[NewItem] = Nil /\ \A u \in Slot : req[u].item # NewItem
        BY <3>1, New DEF Free, Live
      <3>3. items'[NewItem] = Nil
        BY <3>1, <3>2 DEF Fit
      <3> QED BY <2>3, <3>2, <3>3 DEF Live
    <2> QED BY <1>8, <2>1, <2>2, <2>3, Turned
  <1> QED BY <1>5, <1>6, <1>7, <1>8 DEF Kinds

LEMMA InitFit == Init => Fit /\ Kinds
  <1> SUFFICES ASSUME Init PROVE Fit /\ Kinds
    OBVIOUS
  <1>1. items \in [ItemId -> MarketItem \cup StockItem \cup {Nil}]
    <2>1. \A r \in [clan : Clan, status : {"AVAILABLE", Nil}, price : Price] : r \in MarketItem \cup StockItem
      BY DEF MarketItem, StockItem, Status
    <2> QED BY <2>1 DEF Init
  <1>2. req \in [Slot -> RequestRecord] /\ \A s \in Slot : req[s] = Idle
    BY IdleRequest DEF Init
  <1>3. \A s \in Slot : Good(s, req[s], votings)
    BY <1>2, IdleRequest DEF Good, Moving, MarketPC, JobPC
  <1>4. Stored = {}
    BY DEF Init, Stored
  <1>5. gameCoins \in [Clan -> Int] /\ maxSlots \in [Clan -> Nat] /\ outcome \in [VotingId -> Outcome]
    BY PriceAssumption, BoundsAssumption DEF Init, Outcome
  <1>6. passed \cup jobs \cup closed \cup untimed \subseteq Stored /\ stale \subseteq Clan
        /\ votings \in [VotingId -> VotingRecord \cup {Nil}]
    BY DEF Init
  <1>7. Kinds
    BY <1>2, <1>4, IdleRequest DEF Kinds, MarketPC, Moving
  <1> QED BY <1>1, <1>2, <1>3, <1>5, <1>6, <1>7 DEF Fit

LEMMA FitAlways == Spec => [](Fit /\ Kinds)
  <1>1. Fit /\ Kinds /\ [Next]_vars => (Fit /\ Kinds)'
    BY FitStep, KindsStep
  <1> QED BY <1>1, InitFit, PTL DEF Spec

\* Documents of the flea market have their types, and what is pending about votings is
\* about votings that are stored.
THEOREM FleaMarketTypeOK == Spec => []TypeOK
  <1>1. Fit => TypeOK
    BY Lives, Documents DEF Fit, TypeOK
  <1> QED BY <1>1, FitAlways, PTL
----------------------------------------------------------------------------
\* Sales: who has taken an item from its stock and not put it on the market.
LEMMA WaysStay ==
    ASSUME Fit, NEW s \in Slot, NEW r, req' = [req EXCEPT ![s] = r],
           s \in Client => (r.pc \in Moving <=> req[s].pc \in Moving)
    PROVE  OnTheirWay' = OnTheirWay
  BY DEF OnTheirWay, Moving, Slot, Fit

LEMMA Ways ==
    ASSUME Fit, [Next]_vars
    PROVE  \/ OnTheirWay' = OnTheirWay /\ UNCHANGED lost
           \/ \E s \in Client : Takes(s) \/ commitSale(s) \/ cancelSale(s)
           \/ Stop
  <1>1. ASSUME UNCHANGED <<req, lost>> PROVE OnTheirWay' = OnTheirWay /\ UNCHANGED lost
    BY <1>1 DEF OnTheirWay
  <1>2. ASSUME NEW s \in Client, Request(s) PROVE OnTheirWay' = OnTheirWay /\ UNCHANGED lost
    <2>1. s \in Slot /\ req[s].pc = "idle" /\ UNCHANGED lost
      BY <1>2 DEF Request, handleSellItem, handleBuyItem, readToChangePrice, readToChangeStatus,
                  readToMove, readToUpdateAdPoster, readToBuySlot, addVote, At, Moving, Slot, history
    <2>2. \E r \in RequestRecord : Turns(s, r)
      BY <1>2, Reads DEF Turn
    <2>3. req[s].pc \notin Moving \cup {"unstock"}
      BY <2>1 DEF Moving
    <2> QED BY <2>1, <2>2, <2>3, WaysStay DEF Turns, Takes, At
  <1>3. ASSUME NEW s \in Client, Continue(s), ~(Takes(s) \/ commitSale(s) \/ cancelSale(s))
        PROVE  OnTheirWay' = OnTheirWay /\ UNCHANGED lost
    <2>0. s \in Slot /\ UNCHANGED lost
      BY <1>3 DEF Continue, Slot, Takes, unstock, startSellVoting, addSellVotingJob, readToBuy, buyDirectly,
                  handleBooking, commitBooking, addVotingCheckJob, changeItemPrice, changeItemStatus, moveFleaMarketItemToStock,
                  buyStallSlot, updateAdPosterByClanId, cancelTransaction, castVote, history
    <2>1. CASE req[s].pc \notin Moving /\ Finish(s)
      BY <2>0, <2>1, WaysStay, IdleRequest DEF Finish, Moving
    <2>2. CASE startSellVoting(s)
      <3> DEFINE r == [req[s] EXCEPT !.pc = "job", !.voting = NewVoting]
      <3>1. req' = [req EXCEPT ![s] = r] /\ req[s].pc = "vote" /\ r.pc = "job"
        BY <2>0, <2>2 DEF startSellVoting, At, Fit, RequestRecord
      <3> HIDE DEF r
      <3> QED BY <2>0, <3>1, WaysStay DEF Moving
    <2>7. CASE addSellVotingJob(s)
      <3>1. req' = [req EXCEPT ![s] = [req[s] EXCEPT !.pc = "list"]] /\ req[s].pc = "job"
            /\ [req[s] EXCEPT !.pc = "list"].pc = "list"
        BY <2>0, <2>7 DEF addSellVotingJob, At, Fit, RequestRecord
      <3> QED BY <2>0, <3>1, WaysStay DEF Moving
    <2>8. CASE commitBooking(s)
      <3>1. req' = [req EXCEPT ![s] = [req[s] EXCEPT !.pc = "enqueue"]] /\ req[s].pc = "book"
            /\ [req[s] EXCEPT !.pc = "enqueue"].pc = "enqueue"
        BY <2>0, <2>8 DEF commitBooking, At, Fit, RequestRecord
      <3> QED BY <2>0, <3>1, WaysStay DEF Moving
    <2>3. CASE readToBuy(s) /\ ~Finish(s)
      <3> DEFINE r == [req[s] EXCEPT !.pc = "pay", !.read = items[req[s].item], !.price = items[req[s].item].price]
      <3>1. req' = [req EXCEPT ![s] = r] /\ req[s].pc = "buy" /\ r.pc = "pay"
        <4>1. req' = [req EXCEPT ![s] = r] /\ req[s].pc = "buy"
          BY <2>3, Zenon DEF readToBuy, At
        <4>2. r.pc = "pay"
          BY <2>0 DEF Fit, RequestRecord
        <4> QED BY <4>1, <4>2
      <3> HIDE DEF r
      <3> QED BY <2>0, <3>1, WaysStay DEF Moving
    <2>4. CASE handleBooking(s)
      <3> DEFINE r == [req[s] EXCEPT !.pc = "book", !.voting = NewVoting]
      <3>1. req' = [req EXCEPT ![s] = r] /\ req[s].pc = "pay" /\ r.pc = "book"
        BY <2>0, <2>4 DEF handleBooking, At, Fit, RequestRecord
      <3> HIDE DEF r
      <3> QED BY <2>0, <3>1, WaysStay DEF Moving
    <2>5. CASE \/ unstock(s) \/ addVotingCheckJob(s) \/ buyDirectly(s) \/ changeItemPrice(s)
               \/ changeItemStatus(s) \/ moveFleaMarketItemToStock(s) \/ buyStallSlot(s)
               \/ updateAdPosterByClanId(s) \/ cancelTransaction(s) \/ castVote(s)
      <3>1. req[s].pc \notin Moving
        BY <2>5 DEF unstock, addVotingCheckJob, buyDirectly, changeItemPrice, changeItemStatus,
                    moveFleaMarketItemToStock, buyStallSlot, updateAdPosterByClanId,
                    cancelTransaction, castVote, At, Moving
      <3>2. Finish(s)
        BY <1>3, <2>5 DEF Takes, unstock, addVotingCheckJob, buyDirectly, changeItemPrice, changeItemStatus,
                    moveFleaMarketItemToStock, buyStallSlot, updateAdPosterByClanId,
                    cancelTransaction, castVote
      <3> QED BY <2>1, <3>1, <3>2
    <2>6. CASE readToBuy(s) /\ Finish(s)
      BY <2>1, <2>6 DEF readToBuy, At, Moving
    <2> QED BY <1>3, <2>2, <2>3, <2>4, <2>5, <2>6, <2>7, <2>8 DEF Continue
  <1>4. ASSUME NEW w \in Worker, Job(w) PROVE OnTheirWay' = OnTheirWay /\ UNCHANGED lost
    <2>1. w \in Slot /\ w \notin Client /\ UNCHANGED lost
      BY <1>4, SlotsAssumption
         DEF Slot, Job, process, handlePassedBuyVoting, handleRejectedBuyVoting, readToRefund, refund,
             settleSellVoting, settlePriceVoting, finalizeVoting, history
    <2>2. \E s \in Slot, r \in RequestRecord : Turns(s, r) /\ s = w
      <3>1. VotingsGrow
        BY VotingSteps DEF VotingsStep
      <3> QED BY <1>4, <2>1, <3>1, JobTurns DEF Turn
    <2> QED BY <2>1, <2>2, WaysStay DEF Turns
  <1> QED BY <1>1, <1>2, <1>3, <1>4 DEF Next, handleVotingPassed, vars, history

\* The count of the goods, and that there is one.
Counted ==
    /\ IsFiniteSet(Live) /\ IsFiniteSet(OnTheirWay) /\ lost \in Nat
    /\ GoodsKept

LEMMA CountedStep ==
    ASSUME Fit, Kinds, Counted, [Next]_vars
    PROVE  Counted'
  <1>0. /\ IsFiniteSet(Live) /\ Cardinality(Live) \in Nat
        /\ IsFiniteSet(OnTheirWay) /\ Cardinality(OnTheirWay) \in Nat /\ lost \in Nat
        /\ Cardinality(Live) + Cardinality(OnTheirWay) + lost = Cardinality(Goods)
    BY FS_CardinalityType DEF Counted, GoodsKept
  <1>1. ASSUME NEW s \in Client, Takes(s) PROVE Counted'
    <2> DEFINE i == req[s].item
    <2>1. i \in Live /\ i \in ItemId /\ s \in Slot /\ s \notin OnTheirWay /\ UNCHANGED lost
      BY <1>1, Lives DEF Takes, unstock, At, OnTheirWay, Slot, history, Moving
    <2>2. items' = [items EXCEPT ![i] = Nil]
      BY <1>1 DEF Takes, unstock
    <2>3. Live' = Live \ {i}
      BY <2>1, <2>2 DEF Live, Fit
    <2>4. PICK pc \in Moving : req' = [req EXCEPT ![s].pc = pc, ![s].item = NewItem]
      BY <1>1 DEF Takes, unstock, Moving
    <2>5. req'[s].pc = pc /\ \A t \in Slot \ {s} : req'[t] = req[t]
      BY <2>1, <2>4 DEF Fit, RequestRecord
    <2>6. OnTheirWay' = OnTheirWay \cup {s}
      BY <2>5 DEF OnTheirWay, Moving, Slot
    <2>7. IsFiniteSet(Live') /\ Cardinality(Live') = Cardinality(Live) - 1
      BY <1>0, <2>1, <2>3, FS_RemoveElement
    <2>8. IsFiniteSet(OnTheirWay') /\ Cardinality(OnTheirWay') = Cardinality(OnTheirWay) + 1
      BY <1>0, <2>1, <2>6, FS_AddElement
    <2> QED BY <1>0, <2>1, <2>7, <2>8 DEF Counted, GoodsKept
  <1>2. ASSUME NEW s \in Client, s \in OnTheirWay, Finish(s)
        PROVE  IsFiniteSet(OnTheirWay') /\ Cardinality(OnTheirWay') = Cardinality(OnTheirWay) - 1
    <2>1. s \in Slot /\ req' = [req EXCEPT ![s] = Idle]
      BY <1>2 DEF Finish, Slot
    <2>2. req'[s].pc = "idle" /\ \A t \in Slot \ {s} : req'[t] = req[t]
      BY <2>1, IdleRequest DEF Fit
    <2>3. OnTheirWay' = OnTheirWay \ {s}
      BY <2>2 DEF OnTheirWay, Slot, Moving
    <2> QED BY <1>0, <1>2, <2>3, FS_RemoveElement
  <1>3. ASSUME NEW s \in Client, commitSale(s) PROVE Counted'
    <2> DEFINE i == req[s].item
    <2>1. s \in OnTheirWay /\ s \in Slot /\ req[s].pc \in Moving /\ Finish(s) /\ UNCHANGED lost
      BY <1>3 DEF commitSale, At, OnTheirWay, Moving, Slot, history
    <2>2. i \in ItemId /\ i \notin Live
      BY <2>1 DEF Fit, Good, Kinds
    <2>3. items'[i] # Nil /\ \A j \in ItemId \ {i} : items'[j] = items[j]
      <3> DEFINE r == ForSale(req[s].clan, "SHIPPING", IF At(s, "sell") THEN req[s].price ELSE req[s].read.price)
      <3>1. items' = [items EXCEPT ![i] = r]
        BY <1>3 DEF commitSale
      <3>2. r \in MarketItem
        BY <2>1 DEF Fit, Good, ForSale, MarketItem, StockItem, Status
      <3> HIDE DEF r
      <3> QED BY <2>2, <3>1, <3>2, Documents DEF Fit
    <2>4. Live' = Live \cup {i}
      BY <2>2, <2>3 DEF Live
    <2>5. IsFiniteSet(Live') /\ Cardinality(Live') = Cardinality(Live) + 1
      BY <1>0, <2>2, <2>4, FS_AddElement
    <2> QED BY <1>0, <1>2, <2>1, <2>5 DEF Counted, GoodsKept
  <1>4. ASSUME NEW s \in Client, cancelSale(s) PROVE Counted'
    <2>1. s \in OnTheirWay /\ Finish(s) /\ lost' = lost + 1 /\ UNCHANGED items
      BY <1>4 DEF cancelSale, At, OnTheirWay
    <2>2. Live' = Live
      BY <2>1 DEF Live
    <2> QED BY <1>0, <1>2, <2>1, <2>2 DEF Counted, GoodsKept
  <1>5. CASE Stop
    <2>1. /\ UNCHANGED items /\ lost' = lost + Cardinality(OnTheirWay)
          /\ \A s \in Slot : req'[s] = Idle
      BY <1>5 DEF Stop, OnTheirWay
    <2>2. Live' = Live /\ OnTheirWay' = {}
      BY <2>1, IdleRequest DEF Live, OnTheirWay, Slot, Moving
    <2>3. IsFiniteSet(OnTheirWay') /\ Cardinality(OnTheirWay') = 0
      BY <2>2, FS_EmptySet
    <2> QED BY <1>0, <2>1, <2>2, <2>3 DEF Counted, GoodsKept
  <1>6. ASSUME OnTheirWay' = OnTheirWay, UNCHANGED lost, UNCHANGED items \/ Moves \/ \E i \in Live, r \in MarketItem : Writes(i, r)
        PROVE  Counted'
    <2>1. IsFiniteSet(Live') /\ Cardinality(Live') = Cardinality(Live)
      <3>1. CASE UNCHANGED items
        BY <1>0, <3>1 DEF Live
      <3>2. ASSUME NEW i \in Live, NEW c \in Clan \cup {Nil}, MoveToStock(i, c)
            PROVE  IsFiniteSet(Live') /\ Cardinality(Live') = Cardinality(Live)
        <4>1. Live' = (Live \ {i}) \cup {NewItem} /\ NewItem \notin Live
          BY <3>2, Moved DEF Free
        <4>2. IsFiniteSet(Live \ {i}) /\ Cardinality(Live \ {i}) = Cardinality(Live) - 1
          BY <1>0, FS_RemoveElement
        <4>3. /\ IsFiniteSet((Live \ {i}) \cup {NewItem})
              /\ Cardinality((Live \ {i}) \cup {NewItem}) = Cardinality(Live \ {i}) + 1
          BY <4>1, <4>2, FS_AddElement
        <4> QED BY <1>0, <4>1, <4>2, <4>3
      <3>3. CASE \E i \in Live, r \in MarketItem : Writes(i, r)
        BY <1>0, <3>3, Written
      <3> QED BY <1>6, <3>1, <3>2, <3>3 DEF Moves
    <2> QED BY <1>0, <1>6, <2>1 DEF Counted, GoodsKept
  <1> QED BY <1>1, <1>3, <1>4, <1>5, <1>6, Ways, ItemEffects DEF ItemEffect

\* No request, settlement, cancelled sale or stop duplicates an item, nor loses one that
\* was not on its way to the market.
THEOREM GoodsAreKept == Spec => []GoodsKept
  <1>1. Init => Counted
    <2> SUFFICES ASSUME Init PROVE Counted
      OBVIOUS
    <2>1. Live = Goods /\ lost = 0 /\ \A s \in Slot : req[s] = Idle
      BY DEF Init
    <2>2. OnTheirWay = {}
      BY <2>1, IdleRequest DEF OnTheirWay, Slot, Moving
    <2> QED BY <2>1, <2>2, GoodsAssumption, FS_EmptySet, FS_CardinalityType DEF Counted, GoodsKept
  <1>2. Fit /\ Kinds /\ Counted /\ [Next]_vars => Counted'
    BY CountedStep
  <1>3. Counted => GoodsKept
    BY DEF Counted
  <1> QED BY <1>1, <1>2, <1>3, FitAlways, PTL DEF Spec
----------------------------------------------------------------------------
\* Only a booking books an item.
LEMMA Booked ==
    ASSUME Fit, Kinds, [Next]_vars, NEW i \in OnMarket', items'[i].status = "BOOKED"
    PROVE  (i \in OnMarket /\ items'[i] = items[i]) \/ Books(i)
  <1>1. i \in ItemId /\ items'[i] # Nil /\ items'[i] \notin StockItem
    BY AbsentAssumption DEF OnMarket, Live, StockItem, Status
  <1>2. CASE items'[i] = items[i]
    BY <1>1, <1>2 DEF OnMarket, Live
  <1>3. ASSUME NEW j \in Live, NEW c \in Clan \cup {Nil}, MoveToStock(j, c) PROVE items'[i] = items[i]
    BY <1>1, <1>3, Moved
  <1>4. ASSUME NEW j \in Live, NEW r \in MarketItem, Writes(j, r), r.status = "BOOKED" => Books(j)
        PROVE  items'[i] = items[i] \/ Books(i)
    BY <1>1, <1>4, Written
  <1>5. ASSUME NEW s \in Client, Takes(s) PROVE items'[i] = items[i]
    BY <1>1, <1>5 DEF Takes, unstock, Fit
  <1>6. ASSUME NEW s \in Client, commitSale(s) PROVE items'[i] = items[i]
    BY <1>1, <1>6 DEF commitSale, ForSale, Fit
  <1> QED BY <1>1, <1>2, <1>3, <1>4, <1>5, <1>6, ItemEffects DEF ItemEffect, Moves

\* Who is about to settle the purchase v, or to have it settled.
Settling(s, v) == req[s].voting = v /\ req[s].pc \in {"enqueue", "passed", "rejected"}

\* A purchase whose settlement is under way stays so until it is settled.
LEMMA TimedStays ==
    ASSUME Fit, [Next]_vars, NEW v \in Stored, votings[v].type = "BUY", Timed(v)
    PROVE  \/ Timed(v)'
           \/ \E w \in Worker : req[w].voting = v /\ (handlePassedBuyVoting(w) \/ handleRejectedBuyVoting(w))
  <1>0. VotingsGrow
    BY VotingSteps DEF VotingsStep
  <1>1. CASE v \in untimed
    BY <1>1, ZenonT(40) DEF Timed, Next, Request, handleSellItem, handleBuyItem, readToChangePrice, readToChangeStatus,
                readToMove, readToUpdateAdPoster, readToBuySlot, addVote,
                Continue, unstock, startSellVoting, addSellVotingJob, commitSale, cancelSale, readToBuy, buyDirectly,
                handleBooking, commitBooking, addVotingCheckJob, changeItemPrice, changeItemStatus, moveFleaMarketItemToStock,
                buyStallSlot, updateAdPosterByClanId, cancelTransaction, castVote, handleVotingPassed,
                Job, process, handlePassedBuyVoting, handleRejectedBuyVoting, readToRefund, refund,
                settleSellVoting, settlePriceVoting, finalizeVoting, Stop, history, vars
  <1>2. ASSUME NEW w \in Worker, NEW u \in VotingId, process(w, u), v \in jobs PROVE Timed(v)'
    <2>1. CASE u # v
      BY <1>2, <2>1 DEF process, Timed
    <2>2. CASE u = v
      <3>1. PICK pc \in {"passed", "rejected"} : req' = [req EXCEPT ![w] = [Idle EXCEPT !.pc = pc, !.voting = v]]
        BY <1>2, <2>2 DEF process
      <3>2. req'[w].pc = pc /\ req'[w].voting = v /\ w \in Slot
        BY <3>1 DEF Fit, Slot, Idle
      <3> QED BY <3>2 DEF Timed
    <2> QED BY <2>1, <2>2
  <1>3. ASSUME v \in jobs, ~\E w \in Worker, u \in VotingId : process(w, u)
        PROVE  Timed(v)'
    BY <1>3, ZenonT(40) DEF Timed, Next, Request, handleSellItem, handleBuyItem, readToChangePrice, readToChangeStatus,
                readToMove, readToUpdateAdPoster, readToBuySlot, addVote,
                Continue, unstock, startSellVoting, addSellVotingJob, commitSale, cancelSale, readToBuy, buyDirectly,
                handleBooking, commitBooking, addVotingCheckJob, changeItemPrice, changeItemStatus, moveFleaMarketItemToStock,
                buyStallSlot, updateAdPosterByClanId, cancelTransaction, castVote, handleVotingPassed,
                Job, handlePassedBuyVoting, handleRejectedBuyVoting, readToRefund, refund,
                settleSellVoting, settlePriceVoting, finalizeVoting, Stop, history, vars
  <1>4. ASSUME NEW s \in Slot, Settling(s, v)
        PROVE  \/ Timed(v)'
               \/ \E w \in Worker : req[w].voting = v /\ (handlePassedBuyVoting(w) \/ handleRejectedBuyVoting(w))
    <2>1. CASE req'[s] = req[s]
      BY <1>4, <2>1 DEF Settling, Timed
    <2>2. CASE Stop
      <3>1. s \in Client => req[s].pc = "enqueue"
        BY <1>4, SlotsAssumption DEF Settling, Fit, Good, JobPC, Slot
      <3> QED BY <1>4, <2>2, <3>1 DEF Stop, Timed, Settling, At, Slot
    <2>3. CASE addVotingCheckJob(s)
      BY <1>4, <2>3 DEF addVotingCheckJob, Timed, Settling
    <2>4. ASSUME req'[s] # req[s], ~Stop, ~addVotingCheckJob(s)
          PROVE  s \in Worker /\ (handlePassedBuyVoting(s) \/ handleRejectedBuyVoting(s))
      <3>1. ASSUME NEW t \in Slot, NEW r \in RequestRecord, Turns(t, r) PROVE s = t
        BY <2>4, <3>1 DEF Turns, Fit
      <3>2. ASSUME NEW t \in Client, Request(t) PROVE FALSE
        <4>1. s = t
          BY <3>1, <3>2, Reads DEF Turn, Slot
        <4>2. req[t].pc = "idle"
          BY <3>2 DEF Request, handleSellItem, handleBuyItem, readToChangePrice, readToChangeStatus,
                      readToMove, readToUpdateAdPoster, readToBuySlot, addVote, At
        <4> QED BY <1>4, <4>1, <4>2 DEF Settling
      <3>3. ASSUME NEW t \in Client, Continue(t) PROVE FALSE
        <4>1. s = t
          BY <1>0, <3>1, <3>3, Continues DEF Turn, Slot
        <4>2. s \notin Worker
          BY <4>1, SlotsAssumption
        <4>3. req[s].pc = "enqueue"
          BY <1>4, <4>2 DEF Settling, Fit, Good, JobPC
        <4> QED BY <2>4, <3>3, <4>1, <4>3
                DEF Continue, At, unstock, startSellVoting, addSellVotingJob, commitSale, cancelSale, Moving,
                    readToBuy, buyDirectly, handleBooking, commitBooking, changeItemPrice, changeItemStatus, moveFleaMarketItemToStock,
                    buyStallSlot, updateAdPosterByClanId, cancelTransaction, castVote
      <3>4. ASSUME NEW t \in Worker, Job(t)
            PROVE  s = t /\ (handlePassedBuyVoting(s) \/ handleRejectedBuyVoting(s))
        <4>1. s = t
          BY <1>0, <3>1, <3>4, JobTurns DEF Turn, Slot
        <4> QED BY <1>4, <3>4, <4>1
                DEF Job, Settling, process, readToRefund, refund, settleSellVoting, settlePriceVoting,
                    finalizeVoting, Settles, At
      <3> QED BY <2>4, <3>2, <3>3, <3>4 DEF Next, handleVotingPassed, vars
    <2> QED BY <1>4, <2>1, <2>2, <2>3, <2>4 DEF Settling
  <1> QED BY <1>1, <1>2, <1>3, <1>4 DEF Timed, Settling

LEMMA BookedStep ==
    ASSUME Fit, Kinds, BookedIsTimed, [Next]_vars
    PROVE  BookedIsTimed'
  <1> SUFFICES ASSUME NEW i \in OnMarket', items'[i].status = "BOOKED"
               PROVE  \E v \in Stored' : votings'[v].type = "BUY" /\ votings'[v].item = i /\ Timed(v)'
    BY DEF BookedIsTimed
  <1>0. VotingsGrow
    BY VotingSteps DEF VotingsStep
  <1>1. ASSUME NEW s \in Client, commitBooking(s), req[s].item = i
        PROVE  \E v \in Stored' : votings'[v].type = "BUY" /\ votings'[v].item = i /\ Timed(v)'
    <2> DEFINE v == req[s].voting
    <2>1. s \in Slot /\ req[s].pc = "book" /\ UNCHANGED votings /\ req' = [req EXCEPT ![s].pc = "enqueue"]
      BY <1>1 DEF Slot, commitBooking, At
    <2>2. v \in Stored' /\ votings'[v].type = "BUY" /\ votings'[v].item = i
      BY <1>1, <2>1 DEF Fit, Good, Stored
    <2>3. req'[s].pc = "enqueue" /\ req'[s].voting = v
      BY <2>1 DEF Fit, RequestRecord
    <2> QED BY <2>1, <2>2, <2>3 DEF Timed
  <1>2. ASSUME i \in OnMarket, items'[i] = items[i]
        PROVE  \E v \in Stored' : votings'[v].type = "BUY" /\ votings'[v].item = i /\ Timed(v)'
    <2>1. PICK v \in Stored : votings[v].type = "BUY" /\ votings[v].item = i /\ Timed(v)
      BY <1>2 DEF BookedIsTimed
    <2>2. /\ v \in Stored'
          /\ votings'[v]["type"] = votings[v]["type"] /\ votings'[v]["item"] = votings[v]["item"]
      BY <1>0 DEF VotingsGrow, Stored
    <2>3. ASSUME NEW w \in Worker, req[w].voting = v, handlePassedBuyVoting(w) \/ handleRejectedBuyVoting(w)
          PROVE  items'[i] # items[i]
      <3>1. i \in Live /\ i \in ItemId /\ items[i] # Nil /\ items[i] \in MarketItem
        BY <1>2, Lives DEF OnMarket, Live
      <3>2. CASE handlePassedBuyVoting(w)
        <4>1. MoveToStock(i, votings[v].clan) /\ votings[v].clan \in Clan
          BY <2>1, <2>3, <3>1, <3>2, Lives DEF handlePassedBuyVoting, VotingRecord
        <4> QED BY <3>1, <4>1, Moved
      <3>3. CASE handleRejectedBuyVoting(w)
        <4>1. items' = [items EXCEPT ![i].status = "AVAILABLE"]
          BY <2>1, <2>3, <3>1, <3>3 DEF handleRejectedBuyVoting
        <4>2. items'[i].status = "AVAILABLE"
          BY <3>1, <4>1 DEF Fit, MarketItem
        <4> QED BY <4>2
      <3> QED BY <2>3, <3>2, <3>3
    <2> QED BY <1>2, <2>1, <2>2, <2>3, TimedStays
  <1> QED BY <1>1, <1>2, Booked DEF Books

\* An item that is booked has a purchase the clan's voting will settle, or whose job a
\* stop of the server lost.
THEOREM BookedAreTimed == Spec => []BookedIsTimed
  <1>1. Init => BookedIsTimed
    BY AbsentAssumption DEF Init, BookedIsTimed, OnMarket, Live
  <1>2. Fit /\ Kinds /\ BookedIsTimed /\ [Next]_vars => BookedIsTimed'
    BY BookedStep
  <1> QED BY <1>1, <1>2, FitAlways, PTL DEF Spec
----------------------------------------------------------------------------
\* A slot holds a voting when it runs the voting's job or has yet to add it.
HolderPC == JobPC \cup {"job", "book", "enqueue"}

Holder(s) == req[s].pc \in HolderPC

\* The job of a voting is pending, run by one worker or not added yet, and never two of
\* these; nothing is paid before the booking commits.
OneHolder ==
    /\ \A s \in Slot : Holder(s) => req[s].voting \notin jobs
    /\ \A s, t \in Slot : s # t /\ Holder(s) /\ Holder(t) => req[s].voting # req[t].voting
    /\ \A s \in Slot : req[s].pc \in JobPC => req[s].voting \in closed
    /\ \A s \in Slot : req[s].pc = "book" => outcome[req[s].voting] = "unpaid"
    /\ \A v \in VotingId \ Stored : outcome[v] = "unpaid"

\* Who settles the voting v, with which result.
Answered(v, result) ==
    \/ \E w \in Worker : /\ req[w].voting = v /\ votings[v].type = "BUY"
                         /\ \/ handlePassedBuyVoting(w) /\ result = "delivered" /\ votings[v].item \in Live
                            \/ /\ handlePassedBuyVoting(w) \/ handleRejectedBuyVoting(w)
                               /\ result = "void" /\ votings[v].item \notin Live
                            \/ refund(w) /\ result = "refunded"
    \/ handleVotingPassed(v) /\ result = "adrift"

\* What becomes of the purchase v in a step: nothing, it is answered, or it is paid.
OutcomeChange(v) ==
    \/ outcome'[v] = outcome[v]
    \/ outcome[v] = "open" /\ v \in Stored /\ Answered(v, outcome'[v])
    \/ outcome'[v] = "open" /\ \E s \in Client : commitBooking(s) /\ req[s].voting = v

LEMMA OutcomeStep ==
    ASSUME Fit, [Next]_vars
    PROVE  \A v \in VotingId : OutcomeChange(v)
  <1>1. ASSUME NEW v \in VotingId, NEW result, NoteOutcome(v, result)
        PROVE  /\ \A u \in VotingId \ {v} : outcome'[u] = outcome[u]
               /\ outcome'[v] = outcome[v] \/ (outcome[v] = "open" /\ outcome'[v] = result)
    BY <1>1 DEF NoteOutcome, Fit
  <1>2. ASSUME NEW w \in Worker, handlePassedBuyVoting(w) \/ handleRejectedBuyVoting(w) \/ refund(w)
        PROVE  \A v \in VotingId : OutcomeChange(v)
    <2> DEFINE u == req[w].voting
    <2>1. u \in VotingId /\ u \in Stored /\ votings[u].type = "BUY"
      <3>1. w \in Slot /\ req[w].pc \in {"passed", "rejected", "credit"}
        BY <1>2 DEF handlePassedBuyVoting, handleRejectedBuyVoting, refund, Settles, At, Slot
      <3>2. req[w].pc # "credit" => votings[u].type = "BUY"
        BY <1>2 DEF handlePassedBuyVoting, handleRejectedBuyVoting, refund, Settles, At
      <3> QED BY <3>1, <3>2 DEF Fit, Good, JobPC, Stored
    <2>2. \/ UNCHANGED outcome
          \/ NoteOutcome(u, "delivered") /\ handlePassedBuyVoting(w) /\ votings[u].item \in Live
          \/ NoteOutcome(u, "void") /\ (handlePassedBuyVoting(w) \/ handleRejectedBuyVoting(w))
             /\ votings[u].item \notin Live
          \/ NoteOutcome(u, "refunded") /\ refund(w)
      BY <1>2 DEF handlePassedBuyVoting, handleRejectedBuyVoting, refund
    <2> HIDE DEF u
    <2>3. CASE UNCHANGED outcome
      BY <2>3 DEF OutcomeChange
    <2>4. ASSUME NEW result, NoteOutcome(u, result), Answered(u, result)
          PROVE  \A v \in VotingId : OutcomeChange(v)
      BY <1>1, <2>1, <2>4 DEF OutcomeChange
    <2>5. UNCHANGED outcome \/ \E result : NoteOutcome(u, result) /\ Answered(u, result)
      BY <2>1, <2>2 DEF Answered, u
    <2> QED BY <2>3, <2>4, <2>5
  <1>3. ASSUME NEW v \in VotingId, handleVotingPassed(v)
        PROVE  \A u \in VotingId : OutcomeChange(u)
    <2>1. v \in Stored /\ (UNCHANGED outcome \/ NoteOutcome(v, "adrift"))
      BY <1>3 DEF handleVotingPassed, DeliverOnEvent, ReleaseOnEvent, Fit
    <2>2. Answered(v, "adrift")
      BY <1>3 DEF Answered
    <2> QED BY <1>1, <2>1, <2>2 DEF OutcomeChange
  <1>4. ASSUME NEW s \in Client, commitBooking(s)
        PROVE  \A v \in VotingId : OutcomeChange(v)
    <2>1. outcome' = [outcome EXCEPT ![req[s].voting] = "open"]
      BY <1>4 DEF commitBooking
    <2>2. \A v \in VotingId : v = req[s].voting \/ outcome'[v] = outcome[v]
      BY <2>1 DEF Fit
    <2>3. \A v \in VotingId : v = req[s].voting => outcome'[v] = "open"
      BY <2>1 DEF Fit
    <2> QED BY <1>4, <2>2, <2>3 DEF OutcomeChange
  <1>5. ASSUME NEW s \in Client, Request(s) PROVE UNCHANGED outcome
    BY <1>5 DEF Request, handleSellItem, handleBuyItem, readToChangePrice, readToChangeStatus,
                readToMove, readToUpdateAdPoster, readToBuySlot, addVote, history
  <1>6. ASSUME NEW s \in Client, Continue(s), ~commitBooking(s) PROVE UNCHANGED outcome
    BY <1>6 DEF Continue, unstock, startSellVoting, addSellVotingJob, commitSale, cancelSale, readToBuy,
                buyDirectly, handleBooking, addVotingCheckJob, changeItemPrice, changeItemStatus,
                moveFleaMarketItemToStock, buyStallSlot, updateAdPosterByClanId, cancelTransaction,
                castVote, history
  <1>7. ASSUME NEW w \in Worker, Job(w), ~(handlePassedBuyVoting(w) \/ handleRejectedBuyVoting(w) \/ refund(w))
        PROVE  UNCHANGED outcome
    BY <1>7 DEF Job, process, readToRefund, settleSellVoting, settlePriceVoting, finalizeVoting, history
  <1>8. ASSUME UNCHANGED outcome PROVE \A v \in VotingId : OutcomeChange(v)
    BY <1>8 DEF OutcomeChange
  <1> QED BY <1>2, <1>3, <1>4, <1>5, <1>6, <1>7, <1>8 DEF Next, Stop, vars, history

\* How the slot s comes to hold a voting, x being the slot that takes the step.
Held(s, x) ==
    \/ req'[s] = req[s]
    \/ req'[s].voting = req[s].voting /\ req'[s].pc \in JobPC /\ req[s].pc \in JobPC
    \/ s = x /\ req'[s].pc \in JobPC /\ process(s, req'[s].voting)
    \/ /\ s = x /\ req'[s].pc \in {"job", "book"} /\ req'[s].voting = NewVoting
       /\ startSellVoting(s) \/ handleBooking(s)
    \/ /\ s = x /\ req'[s].pc = "enqueue" /\ req[s].pc = "book" /\ req'[s].voting = req[s].voting
       /\ commitBooking(s)

LEMMA HolderStep ==
    ASSUME Fit, [Next]_vars, ~Stop
    PROVE  \E x : \A s \in Slot : req'[s].pc \in HolderPC => Held(s, x)
  <1>1. CASE UNCHANGED req
    BY <1>1 DEF Held
  <1>2. ASSUME NEW x \in Slot, NEW r \in RequestRecord, Turns(x, r)
        PROVE  \A s \in Slot : req'[s].pc \in HolderPC => Held(s, x)
    <2>1. req'[x] = r /\ \A s \in Slot \ {x} : req'[s] = req[s]
      BY <1>2 DEF Turns, Fit
    <2>2. r.pc \in HolderPC => Held(x, x)
      BY <1>2, <2>1 DEF Turns, Holds, Held, HolderPC
    <2> QED BY <2>1, <2>2 DEF Held
  <1> QED BY <1>1, <1>2, RequestSteps DEF Turn

\* Who adds the job of the voting v: a request that stored it, or stores it now.
Adds(v) ==
    \/ \E s \in Client : (addVotingCheckJob(s) \/ addSellVotingJob(s)) /\ req[s].voting = v
    \/ v \notin Stored /\ votings'[v].type = "PRICE"

\* How jobs are added, and how votings come to an end.
JobsGrow ==
    /\ \A v \in jobs' \ jobs : Adds(v)
    /\ closed \subseteq closed'
    /\ \A v \in VotingId :
          v \in (closed' \ closed) \cup (jobs \ jobs') => \E w \in Worker : process(w, v)

LEMMA JobsStep ==
    ASSUME Fit, [Next]_vars, ~Stop
    PROVE  JobsGrow
  <1>1. CASE UNCHANGED <<jobs, closed>>
    BY <1>1 DEF JobsGrow
  <1>2. ASSUME NEW s \in Client, addVotingCheckJob(s) \/ addSellVotingJob(s) PROVE JobsGrow
    <2>1. jobs' = jobs \cup {req[s].voting} /\ UNCHANGED closed
      BY <1>2 DEF addVotingCheckJob, addSellVotingJob
    <2> QED BY <1>2, <2>1 DEF JobsGrow, Adds
  <1>3. ASSUME NEW s \in Client, changeItemPrice(s) PROVE JobsGrow
    <2>1. /\ startVoting("PRICE", req[s].clan, req[s].item, req[s].price) /\ Stored # VotingId
          /\ req[s].pc = "price" /\ jobs' = jobs \cup {NewVoting} /\ UNCHANGED closed
      BY <1>3 DEF changeItemPrice, At
    <2>2. req[s].clan \in Clan /\ req[s].item \in ItemId /\ req[s].price \in Price /\ "PRICE" \in VotingType
      BY <2>1 DEF Fit, Good, Slot, MarketPC, VotingType
    <2>3. NewVoting \notin Stored /\ votings'[NewVoting].type = "PRICE"
      BY <2>1, <2>2, Started
    <2> QED BY <2>1, <2>3 DEF JobsGrow, Adds
  <1>4. ASSUME NEW s \in Client, Continue(s) PROVE JobsGrow
    BY <1>1, <1>2, <1>3, <1>4
       DEF Continue, unstock, startSellVoting, commitSale, cancelSale, readToBuy, buyDirectly, handleBooking,
           commitBooking, changeItemStatus, moveFleaMarketItemToStock, buyStallSlot,
           updateAdPosterByClanId, cancelTransaction, castVote
  <1>5. ASSUME NEW s \in Client, Request(s) PROVE UNCHANGED <<jobs, closed>>
    BY <1>5 DEF Request, handleSellItem, handleBuyItem, readToChangePrice, readToChangeStatus,
                readToMove, readToUpdateAdPoster, readToBuySlot, addVote
  <1>6. ASSUME NEW w \in Worker, NEW v \in VotingId, process(w, v) PROVE JobsGrow
    <2>1. jobs' = jobs \ {v} /\ closed' = closed \cup {v}
      BY <1>6 DEF process
    <2> QED BY <1>6, <2>1 DEF JobsGrow
  <1>7. ASSUME NEW w \in Worker, Job(w), ~\E v \in VotingId : process(w, v) PROVE UNCHANGED <<jobs, closed>>
    BY <1>7 DEF Job, handlePassedBuyVoting, handleRejectedBuyVoting, readToRefund, refund,
                settleSellVoting, settlePriceVoting, finalizeVoting
  <1> QED BY <1>1, <1>4, <1>5, <1>6, <1>7 DEF Next, handleVotingPassed, vars

LEMMA HoldersAtFirst == Init => OneHolder
  <1> SUFFICES ASSUME Init PROVE OneHolder
    OBVIOUS
  <1>1. \A s \in Slot : req[s].pc = "idle"
    BY IdleRequest DEF Init
  <1>2. \A v \in VotingId : outcome[v] = "unpaid"
    BY DEF Init
  <1> QED BY <1>1, <1>2 DEF OneHolder, Holder, HolderPC, JobPC

LEMMA OneHolderStep ==
    ASSUME Fit, OneHolder, [Next]_vars
    PROVE  OneHolder'
  <1>0. VotingsGrow /\ Stored \subseteq Stored'
    <2>1. VotingsGrow
      BY VotingSteps DEF VotingsStep
    <2> QED BY <2>1 DEF VotingsGrow, Stored
  <1>1. \A v \in VotingId \ Stored' : outcome'[v] = "unpaid"
    <2>1. ASSUME NEW s \in Client, commitBooking(s) PROVE req[s].voting \in Stored
      BY <2>1 DEF commitBooking, At, Fit, Good, Stored, Slot
    <2> QED BY <1>0, <2>1, OutcomeStep DEF OneHolder, OutcomeChange
  <1>2. CASE Stop
    <2>1. \A s \in Slot : req'[s].pc = "idle"
      BY <1>2, IdleRequest DEF Stop
    <2> QED BY <1>1, <2>1 DEF OneHolder, Holder, HolderPC, JobPC
  <1>3. CASE ~Stop
    <2>0. \A s \in Slot : Holder(s) => req[s].voting \in Stored /\ req[s].voting \notin jobs
      BY DEF Fit, Good, Stored, Holder, HolderPC, JobPC, OneHolder
    <2>1. PICK x : \A s \in Slot : req'[s].pc \in HolderPC => Held(s, x)
      BY <1>3, HolderStep
    <2>2. ASSUME NEW s, NEW v, process(s, v)
          PROVE  v \in jobs /\ v \notin jobs' /\ v \in closed'
      BY <2>2 DEF process
    <2>3. ASSUME NEW s, startSellVoting(s) \/ handleBooking(s)
          PROVE  NewVoting \notin Stored /\ NewVoting \notin jobs' /\ UNCHANGED outcome
      BY <2>3, New DEF startSellVoting, handleBooking, Fit, history
    <2>4. ASSUME NEW s \in Slot, req'[s].pc \in HolderPC
          PROVE  \/ Holder(s) /\ req'[s].voting = req[s].voting
                 \/ s = x /\ process(s, req'[s].voting)
                 \/ s = x /\ req'[s].voting = NewVoting /\ (startSellVoting(s) \/ handleBooking(s))
      BY <2>1, <2>4 DEF Held, Holder, HolderPC
    <2>5. ASSUME NEW s \in Slot, req'[s].pc \in HolderPC PROVE req'[s].voting \notin jobs'
      <3>1. CASE Holder(s) /\ req'[s].voting = req[s].voting
        <4>1. ASSUME NEW t \in Client, addVotingCheckJob(t) \/ addSellVotingJob(t),
                     req[t].voting = req[s].voting
              PROVE  FALSE
          <5>1. /\ t \in Slot /\ Holder(t)
                /\ \/ req' = [req EXCEPT ![t] = Idle]
                   \/ req' = [req EXCEPT ![t].pc = "list"]
            BY <4>1 DEF addVotingCheckJob, addSellVotingJob, At, Holder, HolderPC, Slot, Finish
          <5>2. t = s
            BY <3>1, <4>1, <5>1 DEF OneHolder
          <5>3. req'[s].pc \in {"idle", "list"}
            BY <5>1, <5>2, IdleRequest DEF Fit, RequestRecord
          <5> QED BY <2>5, <5>3 DEF HolderPC, JobPC
        <4> QED BY <1>3, <2>0, <3>1, <4>1, JobsStep DEF JobsGrow, Adds
      <3> QED BY <2>2, <2>3, <2>4, <2>5, <3>1
    <2>6. ASSUME NEW s \in Slot, NEW t \in Slot, s # t,
                 req'[s].pc \in HolderPC, req'[t].pc \in HolderPC
          PROVE  req'[s].voting # req'[t].voting
      <3>1. CASE req'[s].voting = req[s].voting /\ Holder(s) /\ req'[t].voting = req[t].voting /\ Holder(t)
        BY <2>6, <3>1 DEF OneHolder
      <3>2. ASSUME NEW u \in Slot, Holder(u), NEW y \in Slot, process(y, req'[y].voting)
            PROVE  req[u].voting # req'[y].voting
        BY <2>0, <2>2, <3>2
      <3>3. ASSUME NEW u \in Slot, Holder(u), NEW y \in Slot, startSellVoting(y) \/ handleBooking(y),
                   req'[y].voting = NewVoting
            PROVE  req[u].voting # req'[y].voting
        BY <2>0, <2>3, <3>3
      <3> QED BY <2>4, <2>6, <3>1, <3>2, <3>3
    <2>7. ASSUME NEW s \in Slot, req'[s].pc \in JobPC PROVE req'[s].voting \in closed'
      <3>1. req'[s].pc \in HolderPC /\ Held(s, x)
        BY <2>1, <2>7 DEF HolderPC
      <3> QED BY <1>3, <2>2, <2>7, <3>1, JobsStep DEF JobsGrow, OneHolder, Held, JobPC
    <2>8. ASSUME NEW s \in Slot, req'[s].pc = "book" PROVE outcome'[req'[s].voting] = "unpaid"
      <3>1. Held(s, x)
        BY <2>1, <2>8 DEF HolderPC
      <3>2. CASE req'[s] = req[s]
        <4>1. /\ Holder(s) /\ outcome[req[s].voting] = "unpaid" /\ req[s].voting \in VotingId
          BY <2>8, <3>2 DEF OneHolder, Holder, HolderPC, Fit, Good
        <4>2. ASSUME NEW t \in Client, commitBooking(t), req[t].voting = req[s].voting PROVE FALSE
          <5>1. t \in Slot /\ Holder(t) /\ req' = [req EXCEPT ![t].pc = "enqueue"]
            BY <4>2 DEF commitBooking, At, Holder, HolderPC, Slot
          <5>2. t = s
            BY <4>1, <4>2, <5>1 DEF OneHolder
          <5>3. req'[s].pc = "enqueue"
            BY <5>1, <5>2 DEF Fit, RequestRecord
          <5> QED BY <2>8, <5>3
        <4> QED BY <3>2, <4>1, <4>2, OutcomeStep DEF OutcomeChange
      <3>3. CASE req'[s].voting = NewVoting /\ (startSellVoting(s) \/ handleBooking(s))
        <4>1. NewVoting \in VotingId
          BY <3>3, New DEF startSellVoting, handleBooking
        <4> QED BY <2>3, <3>3, <4>1 DEF OneHolder
      <3> QED BY <2>8, <3>1, <3>2, <3>3 DEF Held, JobPC
    <2> QED BY <1>1, <2>5, <2>6, <2>7, <2>8 DEF OneHolder, Holder
  <1> QED BY <1>2, <1>3
----------------------------------------------------------------------------
\* What is outdated stays so.
LEMMA OutdatedStays ==
    ASSUME [Next]_vars, ~outdated'
    PROVE  ~outdated
  <1>1. ASSUME NEW s \in Client, Request(s) PROVE UNCHANGED outdated
    BY <1>1 DEF Request, handleSellItem, handleBuyItem, readToChangePrice, readToChangeStatus,
                readToMove, readToUpdateAdPoster, readToBuySlot, addVote, history
  <1>2. ASSUME NEW s \in Client, Continue(s) PROVE UNCHANGED outdated \/ outdated' = (outdated \/ Changed(s))
    BY <1>2 DEF Continue, unstock, startSellVoting, addSellVotingJob, commitSale, cancelSale, readToBuy, buyDirectly,
                handleBooking, commitBooking, addVotingCheckJob, changeItemPrice, changeItemStatus, moveFleaMarketItemToStock, Overwrites,
                buyStallSlot, updateAdPosterByClanId, cancelTransaction, castVote, history
  <1>3. ASSUME NEW w \in Worker, Job(w)
        PROVE  UNCHANGED outdated \/ outdated' = (outdated \/ Unexpected(req[w].voting))
    BY <1>3 DEF Job, process, handlePassedBuyVoting, handleRejectedBuyVoting, readToRefund, refund,
                settleSellVoting, settlePriceVoting, finalizeVoting, history
  <1>4. ASSUME NEW v \in VotingId, handleVotingPassed(v) PROVE ~outdated
    BY <1>4 DEF handleVotingPassed
  <1>5. CASE Stop
    BY <1>5 DEF Stop
  <1>6. CASE UNCHANGED vars
    BY <1>6 DEF vars, history
  <1> QED BY <1>1, <1>2, <1>3, <1>4, <1>5, <1>6 DEF Next

\* A purchase of the item j is decided: by its job, or by its voting before its time.
Decided(j) ==
    \E v \in Stored :
       /\ votings[v].type = "BUY" /\ votings[v].item = j /\ outcome[v] = "open"
       /\ \/ \E w \in Worker : req[w].voting = v /\ (handlePassedBuyVoting(w) \/ handleRejectedBuyVoting(w))
          \/ handleVotingPassed(v) /\ v \notin closed

\* A booked item is left alone until then.
LEMMA BookedKept ==
    ASSUME Fit, Kinds, [Next]_vars, ~outdated', NEW j \in OnMarket, items[j].status = "BOOKED"
    PROVE  items'[j] = items[j] \/ Decided(j)
  <1>0. j \in Live /\ j \in ItemId /\ items[j] # Nil
    BY Lives DEF OnMarket, Live
  <1>1. ASSUME NEW i \in Live, NEW c \in Clan \cup {Nil}, MoveToStock(i, c), i # j
        PROVE  items'[j] = items[j]
    BY <1>0, <1>1, Moved DEF Free
  <1>2. CASE UNCHANGED items
    BY <1>2
  <1>3. ASSUME NEW s \in Client, req[s].pc \in MarketPC, ~Changed(s) PROVE req[s].item # j /\ req[s].clan \in Clan
    BY <1>3 DEF Changed, Fit, Good, Slot, MarketPC
  <1>4. ASSUME NEW s \in Client, Continue(s) PROVE items'[j] = items[j]
    <2>1. CASE buyDirectly(s) \/ moveFleaMarketItemToStock(s)
      <3>1. /\ req[s].pc \in MarketPC /\ ~Changed(s) /\ req[s].item \in Live
            /\ MoveToStock(req[s].item, req[s].clan)
        BY <2>1 DEF buyDirectly, moveFleaMarketItemToStock, At, MarketPC, Overwrites
      <3> QED BY <1>1, <1>3, <3>1
    <2>2. CASE commitBooking(s) \/ changeItemPrice(s)
      <3>1. req[s].pc \in MarketPC /\ ~Changed(s) /\ \E r : items' = [items EXCEPT ![req[s].item] = r]
        BY <2>2 DEF commitBooking, changeItemPrice, At, MarketPC, Overwrites
      <3> QED BY <1>0, <1>3, <3>1 DEF Fit
    <2>3. CASE changeItemStatus(s)
      <3>1. CASE req[s].item \in Live
        <4>1. req[s].pc \in MarketPC /\ ~Changed(s) /\ \E r : items' = [items EXCEPT ![req[s].item] = r]
          BY <2>3, <3>1 DEF changeItemStatus, At, MarketPC
        <4> QED BY <1>0, <1>3, <4>1 DEF Fit
      <3> QED BY <1>2, <2>3, <3>1 DEF changeItemStatus
    <2>4. CASE unstock(s)
      <3>1. CASE req[s].item \in Live
        <4>1. items' = [items EXCEPT ![req[s].item] = Nil] /\ items[req[s].item] \in StockItem
          BY <2>4, <3>1 DEF unstock, At, Kinds, Slot
        <4>2. req[s].item # j
          BY <4>1, Lives, Documents
        <4> QED BY <1>0, <4>1, <4>2 DEF Fit
      <3> QED BY <1>2, <2>4, <3>1 DEF unstock
    <2>5. CASE commitSale(s)
      <3>1. req[s].pc \in Moving /\ s \in Slot /\ \E r : items' = [items EXCEPT ![req[s].item] = r]
        BY <2>5 DEF commitSale, At, Moving, Slot
      <3>2. req[s].item # j
        BY <1>0, <3>1 DEF Kinds
      <3> QED BY <1>0, <3>1, <3>2 DEF Fit
    <2>6. CASE \/ startSellVoting(s) \/ addSellVotingJob(s) \/ cancelSale(s) \/ readToBuy(s)
               \/ handleBooking(s) \/ addVotingCheckJob(s) \/ buyStallSlot(s) \/ updateAdPosterByClanId(s) \/ cancelTransaction(s) \/ castVote(s)
      BY <2>6 DEF startSellVoting, addSellVotingJob, cancelSale, readToBuy, handleBooking,
                  addVotingCheckJob, buyStallSlot,
                  updateAdPosterByClanId, cancelTransaction, castVote
    <2> QED BY <1>4, <2>1, <2>2, <2>3, <2>4, <2>5, <2>6 DEF Continue
  <1>5. ASSUME NEW v \in Stored, votings[v].item = j, ~Unexpected(v)
        PROVE  votings[v].type = "BUY" /\ outcome[v] = "open"
    BY <1>5 DEF Unexpected, StatusSet
  <1>6. ASSUME NEW w \in Worker, Job(w) PROVE items'[j] = items[j] \/ Decided(j)
    <2> DEFINE v == req[w].voting
               i == votings[v].item
    <2>1. CASE handlePassedBuyVoting(w) \/ handleRejectedBuyVoting(w) \/ settleSellVoting(w) \/ settlePriceVoting(w)
      <3>1. w \in Slot /\ req[w].pc \in JobPC /\ ~Unexpected(v)
        BY <2>1 DEF handlePassedBuyVoting, handleRejectedBuyVoting, settleSellVoting, settlePriceVoting,
                    Settles, At, JobPC, Slot
      <3>2. v \in Stored /\ votings[v] \in VotingRecord
        BY <3>1, Lives DEF Fit, Good, Stored
      <3>3. CASE i = j
        <4>1. votings[v].type = "BUY" /\ outcome[v] = "open"
          BY <1>5, <3>1, <3>2, <3>3
        <4>2. handlePassedBuyVoting(w) \/ handleRejectedBuyVoting(w)
          BY <2>1, <4>1 DEF settleSellVoting, settlePriceVoting, Settles
        <4> QED BY <3>2, <3>3, <4>1, <4>2 DEF Decided
      <3>4. CASE i # j
        <4>1. CASE i \in Live
          <5>1. i \in ItemId /\ items[i].clan \in Clan \cup {Nil} /\ votings[v].clan \in Clan
            BY <3>2, <4>1, Lives DEF MarketItem, StockItem, VotingRecord
          <5>2. \/ \E r : items' = [items EXCEPT ![i] = r]
                \/ MoveToStock(i, votings[v].clan) \/ MoveToStock(i, items[i].clan)
            <6>1. CASE handlePassedBuyVoting(w)
              BY <4>1, <6>1 DEF handlePassedBuyVoting
            <6>2. CASE handleRejectedBuyVoting(w)
              BY <4>1, <6>2 DEF handleRejectedBuyVoting
            <6>3. ASSUME NEW p, items' = [items EXCEPT ![i].status = "AVAILABLE", ![i].price = p]
                  PROVE  \E r : items' = [items EXCEPT ![i] = r]
              <7>1. items' = [items EXCEPT ![i] = [items[i] EXCEPT !.status = "AVAILABLE", !.price = p]]
                BY <5>1, <6>3 DEF Fit
              <7> QED BY <7>1
            <6>4. CASE settleSellVoting(w)
              BY <4>1, <6>3, <6>4 DEF settleSellVoting
            <6>5. CASE settlePriceVoting(w)
              <7> DEFINE p == IF At(w, "passed") THEN votings[v].price ELSE items[i].price
              <7>1. items' = [items EXCEPT ![i].status = "AVAILABLE", ![i].price = p]
                BY <4>1, <5>1, <6>5 DEF settlePriceVoting, MakeAvailable, Fit
              <7> HIDE DEF p
              <7> QED BY <6>3, <7>1
            <6> QED BY <2>1, <6>1, <6>2, <6>4, <6>5
          <5> QED BY <1>0, <1>1, <3>4, <4>1, <5>1, <5>2 DEF Fit
        <4>2. CASE i \notin Live
          BY <2>1, <4>2 DEF handlePassedBuyVoting, handleRejectedBuyVoting, settleSellVoting,
                            settlePriceVoting, MakeAvailable
        <4> QED BY <4>1, <4>2
      <3> QED BY <3>3, <3>4
    <2>2. CASE readToRefund(w) \/ refund(w) \/ finalizeVoting(w) \/ \E u \in VotingId : process(w, u)
      BY <2>2 DEF readToRefund, refund, finalizeVoting, process
    <2> QED BY <1>6, <2>1, <2>2 DEF Job
  <1>7. ASSUME NEW v \in VotingId, handleVotingPassed(v) PROVE items'[j] = items[j] \/ Decided(j)
    <2> DEFINE i == votings[v].item
    <2>1. v \in Stored
      BY <1>7 DEF handleVotingPassed, Fit
    <2>2. CASE UNCHANGED items
      BY <2>2
    <2>3. CASE ~UNCHANGED items
      <3>1. /\ i \in Live /\ votings[v].type # "SELL"
            /\ \/ MoveToStock(i, Nil)
               \/ \E p : items' = [items EXCEPT ![i].status = "AVAILABLE", ![i].price = p]
        BY <1>7, <2>3 DEF handleVotingPassed, DeliverOnEvent, ReleaseOnEvent, MakeAvailable
      <3>2. v \notin closed /\ ~Unexpected(v)
        BY <1>7, <3>1 DEF handleVotingPassed
      <3>3. CASE i = j
        BY <1>5, <1>7, <2>1, <3>2, <3>3 DEF Decided
      <3>4. CASE i # j
        <4>1. i \in ItemId
          BY <3>1, Lives
        <4> QED BY <1>0, <1>1, <3>1, <3>4, <4>1 DEF Fit
      <3> QED BY <3>3, <3>4
    <2> QED BY <2>2, <2>3
  <1>8. ASSUME NEW s \in Client, Request(s) PROVE UNCHANGED items
    BY <1>8 DEF Request, handleSellItem, handleBuyItem, readToChangePrice, readToChangeStatus,
                readToMove, readToUpdateAdPoster, readToBuySlot, addVote
  <1> QED BY <1>2, <1>4, <1>6, <1>7, <1>8 DEF Next, Stop, vars

\* A worker that has released an item gives the coins back.
LEMMA RefundGoesOn ==
    ASSUME Fit, [Next]_vars, ~outdated', NEW w \in Worker, req[w].pc \in {"refund", "credit"}
    PROVE  refund(w) \/ (req'[w].pc \in {"refund", "credit"} /\ req'[w].voting = req[w].voting)
  <1>0. w \in Slot /\ w \notin Client /\ VotingsGrow
    BY SlotsAssumption, VotingSteps DEF Slot, VotingsStep
  <1>1. CASE UNCHANGED req
    BY <1>1
  <1>2. CASE Stop
    BY <1>2 DEF Stop, At
  <1>3. ASSUME NEW t \in Slot, Turn(t), t # w PROVE req'[w] = req[w]
    BY <1>0, <1>3 DEF Turn, Turns, Fit
  <1>4. ASSUME NEW t \in Client, Request(t) \/ Continue(t) PROVE req'[w] = req[w]
    BY <1>0, <1>3, <1>4, Reads, Continues DEF Slot
  <1>5. ASSUME NEW t \in Worker, Job(t) PROVE req'[w] = req[w] \/ Job(w)
    BY <1>0, <1>3, <1>5, JobTurns DEF Slot
  <1>6. CASE Job(w)
    <2>1. readToRefund(w) \/ refund(w)
      BY <1>6 DEF Job, process, handlePassedBuyVoting, handleRejectedBuyVoting, readToRefund, refund,
                  settleSellVoting, settlePriceVoting, finalizeVoting, Settles, At
    <2>2. CASE readToRefund(w)
      BY <1>0, <2>2 DEF readToRefund, Fit, RequestRecord
    <2> QED BY <2>1, <2>2
  <1> QED BY <1>1, <1>2, <1>4, <1>5, <1>6 DEF Next, handleVotingPassed, vars

\* The purchases that hold their item.
Pending ==
    {v \in Stored : /\ votings[v].type = "BUY" /\ outcome[v] = "open"
                    /\ ~\E w \in Worker : req[w].voting = v /\ req[w].pc \in {"refund", "credit"}}

\* Each of them has booked an item of its own, and none has failed, while nothing is
\* outdated.
Purchases ==
    ~outdated =>
       /\ \A v \in Pending : votings[v].item \in OnMarket /\ items[votings[v].item].status = "BOOKED"
       /\ \A u, v \in Pending : u # v => votings[u].item # votings[v].item
       /\ \A v \in VotingId : outcome[v] # "void"

LEMMA PendingStep ==
    ASSUME Fit, OneHolder, [Next]_vars, ~outdated', NEW v \in Pending'
    PROVE  \/ v \in Pending /\ votings'[v].item = votings[v].item
           \/ \E s \in Client : /\ commitBooking(s) /\ req[s].voting = v
                              /\ votings'[v].item = req[s].item
  <1>0. v \in VotingId /\ v \in Stored' /\ votings'[v].type = "BUY" /\ outcome'[v] = "open"
    BY DEF Pending, Stored
  <1>1. ASSUME NEW s \in Client, commitBooking(s), req[s].voting = v
        PROVE  votings'[v].item = req[s].item
    <2>1. req[s].pc = "book" /\ s \in Slot /\ UNCHANGED votings
      BY <1>1 DEF commitBooking, At, Slot
    <2> QED BY <1>1, <2>1 DEF Fit, Good
  <1>2. CASE outcome[v] = "open" /\ v \in Stored
    <2>1. votings'[v]["type"] = votings[v]["type"] /\ votings'[v]["item"] = votings[v]["item"]
      BY <1>2, VotingSteps DEF VotingsStep, VotingsGrow
    <2>3. ASSUME NEW w \in Worker, req[w].voting = v, req[w].pc \in {"refund", "credit"} PROVE FALSE
      <3>1. CASE refund(w)
        <4>1. outcome'[v] = "refunded"
          BY <1>0, <1>2, <2>3, <3>1 DEF refund, NoteOutcome, Fit
        <4> QED BY <1>0, <4>1
      <3> QED BY <2>3, <3>1, RefundGoesOn DEF Pending
    <2> QED BY <1>0, <1>2, <2>1, <2>3 DEF Pending
  <1>3. ~(outcome'[v] = outcome[v] /\ v \notin Stored)
    BY <1>0 DEF OneHolder
  <1>4. OutcomeChange(v)
    BY <1>0, OutcomeStep
  <1> QED BY <1>0, <1>1, <1>2, <1>3, <1>4 DEF OutcomeChange

LEMMA PurchasesStep ==
    ASSUME Fit, Kinds, OneHolder, Purchases, [Next]_vars
    PROVE  Purchases'
  <1> SUFFICES ASSUME ~outdated'
               PROVE  /\ \A v \in Pending' : votings'[v].item \in OnMarket' /\ items'[votings'[v].item].status = "BOOKED"
                      /\ \A u, v \in Pending' : u # v => votings'[u].item # votings'[v].item
                      /\ \A v \in VotingId : outcome'[v] # "void"
    BY DEF Purchases
  <1>0. /\ \A v \in Pending : votings[v].item \in OnMarket /\ items[votings[v].item].status = "BOOKED"
        /\ \A u, v \in Pending : u # v => votings[u].item # votings[v].item
        /\ \A v \in VotingId : outcome[v] # "void"
    BY OutdatedStays DEF Purchases
  <1>1. ASSUME NEW w \in Worker, handlePassedBuyVoting(w) \/ handleRejectedBuyVoting(w),
               outcome[req[w].voting] = "open"
        PROVE  req[w].voting \in Pending
    <2>1. w \in Slot /\ req[w].pc \in {"passed", "rejected"} /\ votings[req[w].voting].type = "BUY"
      BY <1>1 DEF handlePassedBuyVoting, handleRejectedBuyVoting, Settles, At, Slot
    <2>2. req[w].voting \in Stored
      BY <2>1 DEF Fit, Good, JobPC, Stored
    <2>3. \A x \in Worker : req[x].pc \in {"refund", "credit"} => req[x].voting # req[w].voting
      BY <2>1 DEF OneHolder, Holder, HolderPC, JobPC, Slot
    <2> QED BY <1>1, <2>1, <2>2, <2>3 DEF Pending
  <1>2. ASSUME NEW v \in Pending, v \in Pending', votings'[v].item = votings[v].item
        PROVE  items'[votings[v].item] = items[votings[v].item]
    <2> DEFINE j == votings[v].item
    <2>1. j \in OnMarket /\ items[j].status = "BOOKED" /\ j \in Live
      BY <1>0, Lives
    <2>2. ASSUME NEW u \in Stored, votings[u].type = "BUY", votings[u].item = j, outcome[u] = "open", u \in Pending
          PROVE  u = v
      BY <1>0, <2>2
    <2>3. v \in VotingId /\ outcome[v] = "open" /\ outcome'[v] = "open"
      BY <1>2 DEF Pending, Stored
    <2>4. ASSUME NEW w \in Worker, req[w].voting = v, handlePassedBuyVoting(w) PROVE FALSE
      <3>1. outcome'[v] = "delivered"
        BY <2>1, <2>3, <2>4 DEF handlePassedBuyVoting, NoteOutcome, Fit
      <3> QED BY <2>3, <3>1
    <2>5. ASSUME NEW w \in Worker, req[w].voting = v, handleRejectedBuyVoting(w) PROVE FALSE
      <3>1. w \in Slot /\ req' = [req EXCEPT ![w].pc = "refund"]
        BY <2>1, <2>5 DEF handleRejectedBuyVoting, Then, Slot
      <3>2. req'[w].pc = "refund" /\ req'[w].voting = v
        BY <2>5, <3>1 DEF Fit, RequestRecord
      <3> QED BY <1>2, <3>2 DEF Pending
    <2>6. ASSUME handleVotingPassed(v), v \notin closed PROVE FALSE
      <3>1. votings[v].type = "BUY"
        BY DEF Pending
      <3>2. ~Locked(v)
        BY <2>3 DEF Locked, At, OneHolder, Slot
      <3>3. DeliverOnEvent(v)
        BY <2>6, <3>1 DEF handleVotingPassed
      <3>4. outcome'[v] = "adrift"
        BY <2>1, <2>3, <3>2, <3>3 DEF DeliverOnEvent, NoteOutcome, Fit
      <3> QED BY <2>3, <3>4
    <2>7. ASSUME NEW u \in Stored, votings[u].type = "BUY", votings[u].item = j, outcome[u] = "open",
                 \/ \E w \in Worker : req[w].voting = u /\ (handlePassedBuyVoting(w) \/ handleRejectedBuyVoting(w))
                 \/ handleVotingPassed(u) /\ u \notin closed
          PROVE  u \in Pending
      <3>1. CASE u \notin closed
        BY <2>7, <3>1 DEF Pending, OneHolder, JobPC, Slot
      <3>2. CASE \E w \in Worker : req[w].voting = u /\ (handlePassedBuyVoting(w) \/ handleRejectedBuyVoting(w))
        BY <1>1, <2>7, <3>2
      <3> QED BY <2>7, <3>1, <3>2
    <2>8. ~Decided(j)
      BY <2>2, <2>4, <2>5, <2>6, <2>7 DEF Decided
    <2> QED BY <2>1, <2>8, BookedKept
  <1>3. ASSUME NEW s \in Client, commitBooking(s)
        PROVE  /\ req[s].item \in OnMarket' /\ items'[req[s].item].status = "BOOKED"
               /\ \A v \in Pending : votings[v].item # req[s].item
    <2> DEFINE i == req[s].item
               r == [req[s].read EXCEPT !.status = "BOOKED"]
    <2>1. /\ s \in Slot /\ i \in Live /\ req[s].pc = "book" /\ items[i] = req[s].read
          /\ items' = [items EXCEPT ![i] = r]
      BY <1>3 DEF commitBooking, At, Overwrites, Changed, Slot
    <2>2. i \in ItemId /\ req[s].read \in MarketItem /\ req[s].read.status = "AVAILABLE"
      BY <2>1 DEF Fit, Good, MarketPC
    <2>3. r.status = "BOOKED" /\ r \in MarketItem
      BY <2>2 DEF MarketItem, Status
    <2> HIDE DEF r
    <2>4. items'[i] = r /\ r # Nil /\ r.status # Nil
      BY <2>1, <2>2, <2>3, Documents DEF Fit
    <2> QED BY <1>0, <2>1, <2>2, <2>3, <2>4 DEF OnMarket, Live
  <1>4. ASSUME NEW v \in Pending' PROVE votings'[v].item \in OnMarket' /\ items'[votings'[v].item].status = "BOOKED"
    <2>1. CASE v \in Pending /\ votings'[v].item = votings[v].item
      BY <1>0, <1>2, <1>4, <2>1 DEF OnMarket, Live
    <2> QED BY <1>3, <2>1, PendingStep
  <1>5. ASSUME NEW u \in Pending', NEW v \in Pending', u # v PROVE votings'[u].item # votings'[v].item
    <2>1. ASSUME NEW x \in Pending', NEW y \in Pending', x \in Pending, votings'[x].item = votings[x].item,
                 NEW s \in Client, commitBooking(s), votings'[y].item = req[s].item
          PROVE  votings'[x].item # votings'[y].item
      BY <1>3, <2>1
    <2>2. ASSUME NEW s \in Client, commitBooking(s), req[s].voting = u,
                 NEW z \in Client, commitBooking(z), req[z].voting = v
          PROVE  FALSE
      <3>1. outcome'[u] = "open" /\ outcome'[v] = "open" /\ outcome[u] = "unpaid" /\ outcome[v] = "unpaid"
        BY <2>2 DEF Pending, commitBooking, At, OneHolder, Slot
      <3>2. outcome' = [outcome EXCEPT ![u] = "open"]
        BY <2>2 DEF commitBooking
      <3> QED BY <1>5, <3>1, <3>2 DEF Fit, Pending
    <2> QED BY <1>0, <1>5, <2>1, <2>2, PendingStep
  <1>6. ASSUME NEW v \in VotingId, outcome'[v] = "void" PROVE FALSE
    <2>1. outcome[v] = "open" /\ v \in Stored /\ Answered(v, "void")
      BY <1>0, <1>6, OutcomeStep DEF OutcomeChange
    <2>2. PICK w \in Worker : /\ req[w].voting = v
                              /\ handlePassedBuyVoting(w) \/ handleRejectedBuyVoting(w)
                              /\ votings[v].item \notin Live
      BY <2>1 DEF Answered
    <2>3. votings[v].item \in Live
      BY <1>0, <1>1, <2>1, <2>2, Lives
    <2> QED BY <2>2, <2>3
  <1> QED BY <1>4, <1>5, <1>6

\* What is due is paid: a settlement is of a purchase that was paid, and one whose time is
\* over is settled or being settled.
Due(v) == votings[v].type = "BUY" /\ outcome[v] = "open"

Paid ==
    /\ \A s \in Slot : req[s].pc = "enqueue" => outcome[req[s].voting] # "unpaid"
    /\ \A v \in jobs \cup closed : votings[v].type = "BUY" => outcome[v] # "unpaid"
    /\ \A v \in closed \ jobs : Due(v) =>
          \E w \in Worker : req[w].voting = v /\ req[w].pc \in JobPC \ {"finalize"}

\* A worker that has still to settle a purchase does it, or still has to.
LEMMA SettlesOn ==
    ASSUME Fit, [Next]_vars, ~Stop, NEW w \in Worker, req[w].pc \in JobPC \ {"finalize"},
           Due(req[w].voting), outcome'[req[w].voting] = "open"
    PROVE  req'[w].voting = req[w].voting /\ req'[w].pc \in JobPC \ {"finalize"}
  <1> DEFINE v == req[w].voting
  <1>0. w \in Slot /\ w \notin Client /\ VotingsGrow /\ v \in VotingId
    BY SlotsAssumption, VotingSteps DEF Slot, VotingsStep, Fit, Good
  <1>1. CASE UNCHANGED req
    BY <1>1
  <1>2. ASSUME NEW t \in Slot, Turn(t), t # w PROVE req'[w] = req[w]
    BY <1>0, <1>2 DEF Turn, Turns, Fit
  <1>3. ASSUME NEW t \in Client, Request(t) \/ Continue(t) PROVE req'[w] = req[w]
    BY <1>0, <1>2, <1>3, Reads, Continues DEF Slot
  <1>4. ASSUME NEW t \in Worker, Job(t) PROVE req'[w] = req[w] \/ Job(w)
    BY <1>0, <1>2, <1>4, JobTurns DEF Slot
  <1>5. CASE Job(w)
    <2>1. ASSUME NEW result, NoteOutcome(v, result) PROVE result = "open"
      BY <1>0, <2>1 DEF NoteOutcome, Due, Fit
    <2>2. ~refund(w) /\ ~handlePassedBuyVoting(w)
      BY <2>1 DEF refund, handlePassedBuyVoting
    <2>3. handleRejectedBuyVoting(w) \/ readToRefund(w)
      BY <1>5, <2>2 DEF Job, Due, process, settleSellVoting, settlePriceVoting, finalizeVoting, Settles, At, JobPC
    <2>4. CASE handleRejectedBuyVoting(w)
      <3>1. req' = [req EXCEPT ![w].pc = "refund"]
        BY <2>1, <2>4 DEF handleRejectedBuyVoting, Then
      <3> QED BY <1>0, <3>1 DEF Fit, RequestRecord, JobPC
    <2>5. CASE readToRefund(w)
      BY <1>0, <2>5 DEF readToRefund, Fit, RequestRecord, JobPC
    <2> QED BY <2>3, <2>4, <2>5
  <1> QED BY <1>1, <1>3, <1>4, <1>5 DEF Next, handleVotingPassed, vars

LEMMA PaidStep ==
    ASSUME Fit, OneHolder, Paid, [Next]_vars
    PROVE  Paid'
  <1>0. \A v \in VotingId : outcome[v] # "unpaid" => outcome'[v] # "unpaid"
    BY OutcomeStep DEF OutcomeChange, Answered
  <1>1. /\ \A s \in Slot : req[s].pc \in HolderPC => req[s].voting \in Stored
        /\ jobs \cup closed \subseteq Stored /\ Stored \subseteq VotingId
    BY DEF Fit, Good, HolderPC, JobPC, Stored
  <1>2. \A v \in Stored : votings'[v].type = votings[v].type
    <2>1. \A v \in Stored : votings'[v]["type"] = votings[v]["type"]
      BY VotingSteps DEF VotingsStep, VotingsGrow
    <2> QED BY <2>1
  <1>3. CASE Stop
    <2>1. /\ UNCHANGED <<closed, outcome, votings>>
          /\ \A v \in jobs' : v \in jobs \/ \E w \in Worker : ~At(w, "idle") /\ req[w].voting = v
          /\ \A w \in Worker : ~At(w, "idle") => req[w].voting \in jobs'
          /\ jobs \subseteq jobs' /\ \A s \in Slot : req'[s].pc = "idle"
      BY <1>3, IdleRequest DEF Stop
    <2>2. \A w \in Worker : ~At(w, "idle") => req[w].voting \in closed
      BY SlotsAssumption DEF Fit, Good, OneHolder, At, Slot
    <2> QED BY <2>1, <2>2 DEF Paid, Due, At, JobPC
  <1>4. CASE ~Stop
    <2>1. PICK x : \A s \in Slot : req'[s].pc \in HolderPC => Held(s, x)
      BY <1>4, HolderStep
    <2>2. ASSUME NEW s \in Slot, req'[s].pc = "enqueue" PROVE outcome'[req'[s].voting] # "unpaid"
      <3>1. Held(s, x)
        BY <2>1, <2>2 DEF HolderPC
      <3>2. CASE req'[s] = req[s]
        BY <1>0, <1>1, <2>2, <3>2 DEF Paid, HolderPC
      <3>3. CASE req[s].pc = "book" /\ req'[s].voting = req[s].voting /\ commitBooking(s)
        <4>1. req[s].voting \in VotingId /\ outcome' = [outcome EXCEPT ![req[s].voting] = "open"]
          BY <1>1, <3>3 DEF commitBooking, HolderPC
        <4> QED BY <3>3, <4>1 DEF Fit
      <3> QED BY <2>2, <3>1, <3>2, <3>3 DEF Held, JobPC
    <2>3. JobsGrow
      BY <1>4, JobsStep
    <2>4. ASSUME NEW v \in jobs' \cup closed', votings'[v].type = "BUY" PROVE outcome'[v] # "unpaid"
      <3>1. CASE v \in jobs \cup closed
        BY <1>0, <1>1, <1>2, <2>4, <3>1 DEF Paid
      <3>2. CASE v \in closed' \ (jobs \cup closed)
        <4>1. v \in VotingId
          BY <3>2, VotingSteps DEF VotingsStep, Stored
        <4>2. \E w \in Worker : process(w, v)
          BY <2>3, <3>2, <4>1 DEF JobsGrow
        <4> QED BY <3>2, <4>2 DEF process
      <3>3. CASE v \in jobs' \ jobs
        <4>1. PICK s \in Client : (addVotingCheckJob(s) \/ addSellVotingJob(s)) /\ req[s].voting = v
          BY <2>3, <2>4, <3>3 DEF JobsGrow, Adds
        <4>2. s \in Slot /\ req[s].pc \in {"enqueue", "job"} /\ v \in Stored
          BY <1>1, <4>1 DEF addVotingCheckJob, addSellVotingJob, At, Slot, HolderPC
        <4>3. req[s].pc = "enqueue"
          BY <1>2, <2>4, <4>1, <4>2 DEF Fit, Good
        <4> QED BY <1>0, <1>1, <4>1, <4>2, <4>3 DEF Paid
      <3> QED BY <2>4, <3>1, <3>2, <3>3
    <2>5. ASSUME NEW v \in closed' \ jobs', votings'[v].type = "BUY", outcome'[v] = "open"
          PROVE  \E w \in Worker : req'[w].voting = v /\ req'[w].pc \in JobPC \ {"finalize"}
      <3>0. v \in VotingId
        BY VotingSteps DEF VotingsStep, Stored
      <3>1. ASSUME NEW w \in Worker, process(w, v)
            PROVE  req'[w].voting = v /\ req'[w].pc \in JobPC \ {"finalize"}
        <4>1. PICK pc \in {"passed", "rejected"} : req' = [req EXCEPT ![w] = [Idle EXCEPT !.pc = pc, !.voting = v]]
          BY <3>1 DEF process
        <4>2. req'[w].pc = pc /\ req'[w].voting = v
          BY <4>1 DEF Fit, Slot, Idle
        <4> QED BY <4>2 DEF JobPC
      <3>2. CASE v \in closed \ jobs
        <4>1. v \in Stored /\ votings[v].type = "BUY" /\ outcome[v] # "unpaid"
          BY <1>1, <1>2, <2>5, <3>2 DEF Paid
        <4>2. ASSUME NEW s \in Client, commitBooking(s), req[s].voting = v PROVE FALSE
          BY <4>1, <4>2 DEF commitBooking, At, OneHolder, Slot
        <4>3. Due(v)
          BY <2>5, <3>0, <4>1, <4>2, OutcomeStep DEF Due, OutcomeChange
        <4>4. PICK w \in Worker : req[w].voting = v /\ req[w].pc \in JobPC \ {"finalize"}
          BY <3>2, <4>3 DEF Paid
        <4> QED BY <1>4, <2>5, <4>3, <4>4, SettlesOn
      <3> QED BY <2>3, <2>5, <3>0, <3>1, <3>2 DEF JobsGrow
    <2> QED BY <2>2, <2>4, <2>5 DEF Paid, Due
  <1> QED BY <1>3, <1>4

\* A clan that pays for an item by a voting gets the item or its coins back by the end of
\* the voting's job, whatever requests, votes, stops and jobs meet, unless the event gave
\* the item to no stock or released it, or something wrote over an item that had changed.
THEOREM PaidAreAnswered == Spec => []PaidIsAnswered
  <1>1. Init => Purchases /\ Paid
    <2> SUFFICES ASSUME Init PROVE Purchases /\ Paid
      OBVIOUS
    <2>1. \A s \in Slot : req[s].pc = "idle"
      BY IdleRequest DEF Init
    <2>2. Stored = {} /\ jobs = {} /\ closed = {} /\ \A v \in VotingId : outcome[v] = "unpaid"
      BY DEF Init, Stored
    <2> QED BY <2>1, <2>2 DEF Purchases, Pending, Paid
  <1>2. Fit /\ Kinds /\ OneHolder /\ Purchases /\ Paid /\ [Next]_vars => OneHolder' /\ Purchases' /\ Paid'
    BY OneHolderStep, PurchasesStep, PaidStep
  <1>3. Fit /\ Purchases /\ Paid => PaidIsAnswered
    <2> SUFFICES ASSUME Fit, Purchases, Paid, ~outdated, NEW v \in Stored, Settled(v), votings[v].type = "BUY"
                 PROVE  outcome[v] \in {"delivered", "refunded", "adrift"}
      BY DEF PaidIsAnswered
    <2>1. outcome[v] # "unpaid" /\ ~Due(v)
      BY DEF Paid, Settled, Slot
    <2>2. v \in VotingId /\ outcome[v] \in Outcome /\ outcome[v] # "void"
      BY DEF Fit, Stored, Purchases
    <2> QED BY <2>1, <2>2 DEF Outcome, Due
  <1> QED BY <1>1, <1>2, <1>3, HoldersAtFirst, FitAlways, PTL DEF Spec
----------------------------------------------------------------------------
(* The coins                                                                *)

\* Some natural number of a set of them is the least.
LEMMA LeastNat ==
    ASSUME NEW T, T \subseteq Nat, T # {}
    PROVE  \E n \in T : \A m \in T : n <= m
  <1>1. PICK n \in T : \A m \in T : ~ (<<m, n>> \in OpToRel(<, Nat))
    BY NatLessThanWellFounded, WFMin, Zenon
  <1>2. \A m \in T : ~ (m < n)
    BY <1>1 DEF OpToRel
  <1> QED BY <1>2

\* If some subsets of a finite set are bad, one of them is bad although no smaller one is.
LEMMA SmallestSet ==
    ASSUME NEW S, IsFiniteSet(S), NEW B, B \subseteq SUBSET S, B # {}
    PROVE  \E s \in B : IsFiniteSet(s) /\ \A x \in s : s \ {x} \notin B
  <1>1. \A s \in B : IsFiniteSet(s) /\ Cardinality(s) \in Nat
    BY FS_Subset, FS_CardinalityType
  <1> DEFINE T == {Cardinality(s) : s \in B}
  <1>2. T \subseteq Nat /\ T # {}
    BY <1>1
  <1> HIDE DEF T
  <1>3. PICK n \in T : \A m \in T : n <= m
    BY <1>2, LeastNat
  <1>4. PICK s \in B : n = Cardinality(s)
    BY DEF T
  <1>5. ASSUME NEW x \in s, s \ {x} \in B PROVE FALSE
    <2>1. Cardinality(s \ {x}) = n - 1
      BY <1>1, <1>4, FS_RemoveElement
    <2>2. n <= Cardinality(s \ {x})
      BY <1>3, <1>5 DEF T
    <2> QED BY <1>1, <1>4, <2>1, <2>2
  <1> QED BY <1>1, <1>5

\* Where a sum begins.
Least(s) == CHOOSE x \in s : TRUE

\* The prices of the set s, given the sums g of smaller ones.
SumOver(g, vs, s) == IF s = {} THEN 0 ELSE vs[Least(s)].price + g[s \ {Least(s)}]

SumsUp(g, vs, S) == g = [s \in SUBSET S |-> SumOver(g, vs, s)]

\* What the votings in S cost, the sum CoinsKept is about.
Total(vs, S) == MapThenSumSet(LAMBDA v : vs[v].price, S)

\* The library sums with such a function.
LEMMA TotalIs ==
    ASSUME NEW vs, NEW S
    PROVE  Total(vs, S) = (CHOOSE g : SumsUp(g, vs, S))[S]
  BY DEF Total, MapThenSumSet, MapThenFoldSet, SumsUp, Least, SumOver

LEMMA LeastIn ==
    ASSUME NEW s, s # {}
    PROVE  Least(s) \in s
  BY DEF Least

\* The recursive function that sums is one.
LEMMA SumsExist ==
    ASSUME NEW vs, NEW S, IsFiniteSet(S)
    PROVE  \E g : SumsUp(g, vs, S)
  <1> DEFINE Upto(g, n) == \A s \in SUBSET S : Cardinality(s) <= n => g[s] = SumOver(g, vs, s)
             Bad == {n \in Nat : ~ \E g : DOMAIN g = SUBSET S /\ g = [s \in SUBSET S |-> g[s]] /\ Upto(g, n)}
  <1>1. \A s \in SUBSET S : IsFiniteSet(s) /\ Cardinality(s) \in Nat /\ Cardinality(s) <= Cardinality(S)
    BY FS_Subset, FS_CardinalityType
  <1>2. Bad = {}
    <2> SUFFICES ASSUME Bad # {} PROVE FALSE
      OBVIOUS
    <2>1. PICK n \in Bad : \A m \in Bad : n <= m
      <3>1. Bad \subseteq Nat
        OBVIOUS
      <3> HIDE DEF Bad
      <3> QED BY <3>1, LeastNat
    <2>2. n \in Nat
      BY <2>1
    <2>3. CASE n = 0
      <3> DEFINE g == [s \in SUBSET S |-> 0]
      <3>1. \A s \in SUBSET S : Cardinality(s) <= 0 => s = {}
        BY <1>1, FS_EmptySet
      <3>2. Upto(g, 0)
        BY <3>1 DEF SumOver
      <3>3. DOMAIN g = SUBSET S /\ g = [s \in SUBSET S |-> g[s]]
        OBVIOUS
      <3> QED BY <2>1, <2>3, <3>2, <3>3
    <2>4. CASE n # 0
      <3>1. n - 1 \in Nat /\ n - 1 < n
        BY <2>2, <2>4
      <3>2. n - 1 \notin Bad
        <4> HIDE DEF Bad
        <4> QED BY <2>1, <2>2, <3>1
      <3>3. PICK g : DOMAIN g = SUBSET S /\ Upto(g, n - 1)
        BY <3>1, <3>2
      <3> DEFINE h == [s \in SUBSET S |-> SumOver(g, vs, s)]
      <3>4. ASSUME NEW s \in SUBSET S, Cardinality(s) <= n PROVE h[s] = SumOver(h, vs, s)
        <4>1. CASE s = {}
          BY <4>1 DEF SumOver
        <4>2. CASE s # {}
          <5> DEFINE t == s \ {Least(s)}
          <5>1. t \in SUBSET S /\ Cardinality(t) = Cardinality(s) - 1
            BY <1>1, <4>2, LeastIn, FS_RemoveElement
          <5>2. Cardinality(t) <= n - 1
            BY <1>1, <2>2, <3>4, <5>1
          <5> HIDE DEF t
          <5>3. g[t] = h[t]
            BY <3>3, <5>1, <5>2
          <5> HIDE DEF h
          <5>4. h[s] = SumOver(g, vs, s)
            BY DEF h
          <5> QED BY <4>2, <5>3, <5>4 DEF SumOver, t
        <4> QED BY <4>1, <4>2
      <3>5. Upto(h, n)
        BY <3>4
      <3>6. DOMAIN h = SUBSET S /\ h = [s \in SUBSET S |-> h[s]]
        OBVIOUS
      <3> QED BY <2>1, <3>5, <3>6
    <2> QED BY <2>3, <2>4
  <1>3. Cardinality(S) \in Nat
    BY FS_CardinalityType
  <1>4. PICK g : g = [s \in SUBSET S |-> g[s]] /\ Upto(g, Cardinality(S))
    BY <1>2, <1>3
  <1>5. \A s \in SUBSET S : g[s] = SumOver(g, vs, s)
    BY <1>1, <1>4
  <1>6. g = [s \in SUBSET S |-> SumOver(g, vs, s)]
    BY <1>4, <1>5
  <1> QED BY <1>6 DEF SumsUp

\* Sums of the same prices agree.
LEMMA SumsAgree ==
    ASSUME NEW S, IsFiniteSet(S), NEW W \in SUBSET S, NEW vs, NEW ws,
           \A v \in W : vs[v].price = ws[v].price,
           NEW g, SumsUp(g, vs, S), NEW h, SumsUp(h, ws, W)
    PROVE  g[W] = h[W]
  <1> DEFINE Bad == {s \in SUBSET W : g[s] # h[s]}
  <1>1. Bad = {}
    <2> SUFFICES ASSUME Bad # {} PROVE FALSE
      OBVIOUS
    <2>1. PICK s \in Bad : \A x \in s : s \ {x} \notin Bad
      <3>1. Bad \subseteq SUBSET S
        OBVIOUS
      <3> HIDE DEF Bad
      <3> QED BY <3>1, SmallestSet
    <2>2. s \in SUBSET W /\ s \in SUBSET S
      OBVIOUS
    <2>3. g[s] = SumOver(g, vs, s) /\ h[s] = SumOver(h, ws, s)
      BY <2>2 DEF SumsUp
    <2>4. CASE s = {}
      BY <2>1, <2>3, <2>4 DEF SumOver
    <2>5. CASE s # {}
      <3>1. Least(s) \in s /\ vs[Least(s)].price = ws[Least(s)].price
        BY <2>2, <2>5, LeastIn
      <3>2. g[s \ {Least(s)}] = h[s \ {Least(s)}]
        BY <2>1, <2>2, <3>1
      <3> QED BY <2>1, <2>3, <2>5, <3>1, <3>2 DEF SumOver
    <2> QED BY <2>4, <2>5
  <1> QED BY <1>1

\* Only the prices count.
LEMMA TotalSame ==
    ASSUME NEW S, IsFiniteSet(S), NEW vs, NEW ws, \A v \in S : vs[v].price = ws[v].price
    PROVE  Total(vs, S) = Total(ws, S)
  <1> DEFINE g == CHOOSE g : SumsUp(g, vs, S)
             h == CHOOSE h : SumsUp(h, ws, S)
  <1>1. SumsUp(g, vs, S) /\ SumsUp(h, ws, S)
    BY SumsExist
  <1>2. Total(vs, S) = g[S] /\ Total(ws, S) = h[S]
    BY TotalIs
  <1> HIDE DEF g, h
  <1> QED BY <1>1, <1>2, SumsAgree

LEMMA TotalStep ==
    ASSUME NEW S, IsFiniteSet(S), NEW vs
    PROVE  Total(vs, S) = IF S = {} THEN 0
                          ELSE vs[Least(S)].price + Total(vs, S \ {Least(S)})
  <1> DEFINE g == CHOOSE g : SumsUp(g, vs, S)
             W == S \ {Least(S)}
             h == CHOOSE h : SumsUp(h, vs, W)
  <1>0. IsFiniteSet(W) /\ W \in SUBSET S
    BY FS_RemoveElement
  <1>1. SumsUp(g, vs, S) /\ SumsUp(h, vs, W)
    BY <1>0, SumsExist
  <1>2. Total(vs, S) = g[S] /\ Total(vs, W) = h[W]
    BY TotalIs
  <1> HIDE DEF g, h
  <1>3. g[S] = SumOver(g, vs, S)
    BY <1>1 DEF SumsUp
  <1>4. g[W] = h[W]
    BY <1>0, <1>1, SumsAgree
  <1> QED BY <1>2, <1>3, <1>4 DEF SumOver

LEMMA TotalNat ==
    ASSUME NEW S, IsFiniteSet(S), NEW vs, \A v \in S : vs[v].price \in Nat
    PROVE  Total(vs, S) \in Nat
  <1> DEFINE Bad == {s \in SUBSET S : Total(vs, s) \notin Nat}
  <1>1. Bad = {}
    <2> SUFFICES ASSUME Bad # {} PROVE FALSE
      OBVIOUS
    <2>1. PICK s \in Bad : IsFiniteSet(s) /\ \A x \in s : s \ {x} \notin Bad
      <3>1. Bad \subseteq SUBSET S
        OBVIOUS
      <3> HIDE DEF Bad
      <3> QED BY <3>1, SmallestSet
    <2>2. Total(vs, s) = IF s = {} THEN 0 ELSE vs[Least(s)].price + Total(vs, s \ {Least(s)})
      BY <2>1, TotalStep
    <2>3. s # {} => Least(s) \in s
      BY LeastIn
    <2>4. s # {} => Total(vs, s \ {Least(s)}) \in Nat /\ vs[Least(s)].price \in Nat
      BY <2>1, <2>3
    <2> QED BY <2>1, <2>2, <2>4
  <1> QED BY <1>1

\* One more is added to the sum, whichever of the set the sum begins with.
LEMMA TotalAdd ==
    ASSUME NEW S, IsFiniteSet(S), NEW vs, NEW x, x \notin S,
           \A v \in S \cup {x} : vs[v].price \in Nat
    PROVE  Total(vs, S \cup {x}) = Total(vs, S) + vs[x].price
  <1> DEFINE p(v) == vs[v].price
             Bad == {s \in SUBSET (S \cup {x}) :
                       \E y \in s : Total(vs, s) # Total(vs, s \ {y}) + p(y)}
  <1>1. Bad = {}
    <2> SUFFICES ASSUME Bad # {} PROVE FALSE
      OBVIOUS
    <2>1. PICK s \in Bad : IsFiniteSet(s) /\ \A y \in s : s \ {y} \notin Bad
      <3>1. Bad \subseteq SUBSET (S \cup {x}) /\ IsFiniteSet(S \cup {x})
        BY FS_AddElement
      <3> HIDE DEF Bad
      <3> QED BY <3>1, SmallestSet
    <2>2. s \in SUBSET (S \cup {x})
      BY <2>1
    <2>3. PICK y \in s : Total(vs, s) # Total(vs, s \ {y}) + p(y)
      BY <2>1
    <2> DEFINE z == Least(s)
    <2>4. z \in s /\ Total(vs, s) = p(z) + Total(vs, s \ {z})
      BY <2>1, <2>3, TotalStep, LeastIn
    <2> HIDE DEF z
    <2>5. \A t \in SUBSET s : IsFiniteSet(t) /\ Total(vs, t) \in Nat
      BY <2>1, <2>2, FS_Subset, TotalNat
    <2>6. p(y) \in Nat /\ p(z) \in Nat
      BY <2>2, <2>4
    <2>7. z # y
      <3> SUFFICES ASSUME z = y PROVE FALSE
        OBVIOUS
      <3>1. Total(vs, s \ {y}) \in Nat
        BY <2>5
      <3> HIDE DEF p
      <3>2. Total(vs, s) = p(y) + Total(vs, s \ {y})
        BY <2>4
      <3> QED BY <2>3, <2>6, <3>1, <3>2
    <2> DEFINE r == s \ {y, z}
    <2>8. Total(vs, s \ {z}) = Total(vs, r) + p(y)
      <3>1. s \ {z} \notin Bad /\ s \ {z} \in SUBSET (S \cup {x}) /\ y \in s \ {z}
        BY <2>1, <2>2, <2>4, <2>7
      <3>2. (s \ {z}) \ {y} = r
        OBVIOUS
      <3> QED BY <3>1, <3>2
    <2>9. Total(vs, s \ {y}) = Total(vs, r) + p(z)
      <3>1. s \ {y} \notin Bad /\ s \ {y} \in SUBSET (S \cup {x}) /\ z \in s \ {y}
        BY <2>1, <2>2, <2>4, <2>7
      <3>2. (s \ {y}) \ {z} = r
        OBVIOUS
      <3> QED BY <3>1, <3>2
    <2>10. Total(vs, r) \in Nat
      BY <2>5
    <2> HIDE DEF r, p
    <2> QED BY <2>3, <2>4, <2>6, <2>8, <2>9, <2>10
  <1>2. S \cup {x} \notin Bad /\ (S \cup {x}) \ {x} = S
    BY <1>1
  <1> QED BY <1>2

----------------------------------------------------------------------------
\* Unless a clan was written from an old read, its coins add up; what was paid for at
\* once and the purchases stored are such that they can be summed.
Balanced ==
    \A c \in Clan \ stale :
        gameCoins[c] = Coins - direct[c] - Total(votings, PaidBy(c))
                         - SlotPrice * (maxSlots[c] - MaxSlots)

Ledger ==
    /\ IsFiniteSet(Stored) /\ direct \in [Clan -> Nat]
    /\ Balanced

\* The purchases of a clan cost natural numbers.
LEMMA PaidFinite ==
    ASSUME Fit, IsFiniteSet(Stored), NEW c
    PROVE  /\ IsFiniteSet(PaidBy(c)) /\ PaidBy(c) \subseteq Stored
           /\ \A v \in Stored : votings[v].price \in Nat
           /\ Total(votings, PaidBy(c)) \in Nat
  <1>1. PaidBy(c) \subseteq Stored
    BY DEF PaidBy
  <1>2. \A v \in Stored : votings[v].price \in Nat
    <2>1. \A v \in Stored : votings[v].price \in Price
      BY Lives DEF VotingRecord
    <2> QED BY <2>1, PriceAssumption
  <1>3. IsFiniteSet(PaidBy(c))
    BY <1>1, FS_Subset
  <1> QED BY <1>1, <1>2, <1>3, TotalNat

\* Purchases that stay cost the same.
LEMMA PaidStays ==
    ASSUME Fit, IsFiniteSet(Stored), [Next]_vars, NEW S, S \subseteq Stored
    PROVE  Total(votings', S) = Total(votings, S)
  <1>1. \A v \in S : votings'[v]["price"] = votings[v]["price"]
    BY VotingSteps DEF VotingsStep, VotingsGrow
  <1>2. IsFiniteSet(S)
    BY FS_Subset
  <1> QED BY <1>1, <1>2, TotalSame

\* Only a booking and a refund change what a clan has paid for.
LEMMA PaidElse ==
    ASSUME Fit, OneHolder, [Next]_vars, ~ \E s \in Client : commitBooking(s),
           ~ \E w \in Worker : refund(w), NEW c \in Clan
    PROVE  PaidBy(c)' = PaidBy(c)
  <1>1. \A v \in Stored : /\ v \in VotingId /\ v \in Stored'
                          /\ votings'[v]["type"] = votings[v]["type"] /\ votings'[v]["clan"] = votings[v]["clan"]
    BY VotingSteps DEF VotingsStep, VotingsGrow, Stored
  <1>2. \A v \in VotingId :
           outcome'[v] \in {"unpaid", "refunded"} <=> outcome[v] \in {"unpaid", "refunded"}
    BY OutcomeStep DEF OutcomeChange, Answered
  <1>3. \A v \in VotingId \ Stored : outcome[v] = "unpaid"
    BY DEF OneHolder
  <1>4. ASSUME NEW v PROVE v \in PaidBy(c)' <=> v \in PaidBy(c)
    BY <1>1, <1>2, <1>3 DEF PaidBy, Stored
  <1> QED BY <1>4

\* Finitely many purchases stay finitely many.
LEMMA StoredStep ==
    ASSUME Fit, IsFiniteSet(Stored), [Next]_vars
    PROVE  IsFiniteSet(Stored')
  <1>1. \A v \in Stored' \ Stored : v = NewVoting
    <2>1. ASSUME NEW s \in Client, startSellVoting(s) \/ handleBooking(s) \/ changeItemPrice(s),
                 NEW v \in Stored' \ Stored
          PROVE  v = NewVoting
      BY <2>1 DEF startSellVoting, handleBooking, changeItemPrice, startVoting, Stored, Fit
    <2>2. ASSUME NEW s \in Slot, castVote(s) \/ finalizeVoting(s) PROVE Stored' = Stored
      <3>1. req[s].voting \in Stored
        BY <2>2 DEF castVote, finalizeVoting, At, Fit, Good, JobPC, Stored
      <3> QED BY <2>2, <3>1, EndedVoting DEF castVote, finalizeVoting
    <2>3. CASE UNCHANGED votings
      BY <2>3 DEF Stored
    <2>4. ASSUME NEW s \in Client, Request(s) PROVE UNCHANGED votings
      BY <2>4 DEF Request, handleSellItem, handleBuyItem, readToChangePrice, readToChangeStatus,
                  readToMove, readToUpdateAdPoster, readToBuySlot, addVote
    <2>5. ASSUME NEW s \in Client, Continue(s), ~castVote(s),
                 ~(startSellVoting(s) \/ handleBooking(s) \/ changeItemPrice(s))
          PROVE  UNCHANGED votings
      BY <2>5 DEF Continue, unstock, addSellVotingJob, commitSale, cancelSale, readToBuy, buyDirectly,
                  commitBooking, addVotingCheckJob, changeItemStatus, moveFleaMarketItemToStock, buyStallSlot, updateAdPosterByClanId,
                  cancelTransaction, history
    <2>6. ASSUME NEW w \in Worker, Job(w), ~finalizeVoting(w) PROVE UNCHANGED votings
      BY <2>6 DEF Job, process, handlePassedBuyVoting, handleRejectedBuyVoting, readToRefund, refund,
                  settleSellVoting, settlePriceVoting
    <2> QED BY <2>1, <2>2, <2>3, <2>4, <2>5, <2>6 DEF Next, handleVotingPassed, Stop, vars, Slot
  <1>2. Stored' \subseteq Stored \cup {NewVoting}
    BY <1>1
  <1>3. IsFiniteSet(Stored \cup {NewVoting})
    BY FS_AddElement
  <1> QED BY <1>2, <1>3, FS_Subset

\* The account of a clan: coins g, spent at once d, paid for t, places m.
Even(g, d, t, m) == g = Coins - d - t - SlotPrice * (m - MaxSlots)

LEMMA Evens ==
    ASSUME NEW g \in Int, NEW d \in Nat, NEW t \in Nat, NEW m \in Nat, NEW p \in Nat, Even(g, d, t, m)
    PROVE  /\ Even(g - p, d + p, t, m)
           /\ Even(g - p, d, t + p, m)
           /\ \A u \in Nat : t = u + p => Even(g + p, d, u, m)
           /\ Even(g - SlotPrice * p, d, t, m + p)
  <1>0. SlotPrice \in Nat /\ MaxSlots \in Nat /\ Coins \in Nat
    BY SlotPriceAssumption, BoundsAssumption, PriceAssumption
  <1>1. SlotPrice * ((m + p) - MaxSlots) = SlotPrice * (m - MaxSlots) + SlotPrice * p
    BY <1>0
  <1> DEFINE k == SlotPrice * (m - MaxSlots)
             q == SlotPrice * p
  <1>2. k \in Int /\ q \in Int
    BY <1>0
  <1>3. g = Coins - d - t - k
    BY DEF Even
  <1>4. SlotPrice * ((m + p) - MaxSlots) = k + q
    BY <1>1
  <1>5. g - q = Coins - d - t - SlotPrice * ((m + p) - MaxSlots)
    <2> DEFINE l == SlotPrice * ((m + p) - MaxSlots)
    <2>1. l = k + q
      BY <1>4
    <2> HIDE DEF k, q, l
    <2>2. g - q = Coins - d - t - l
      BY <1>0, <1>2, <1>3, <2>1
    <2> QED BY <2>2 DEF l
  <1>6. /\ g - p = Coins - (d + p) - t - k
        /\ g - p = Coins - d - (t + p) - k
        /\ \A u \in Nat : t = u + p => g + p = Coins - d - u - k
    <2> HIDE DEF k, q
    <2> QED BY <1>0, <1>2, <1>3
  <1>7. Even(g - q, d, t, m + p)
    BY <1>5 DEF Even
  <1>8. /\ Even(g - p, d + p, t, m) /\ Even(g - p, d, t + p, m)
        /\ \A u \in Nat : t = u + p => Even(g + p, d, u, m)
    BY <1>6 DEF Even
  <1> HIDE DEF k
  <1> QED BY <1>7, <1>8

\* A booking pays for one more, and a refund of a purchase still open for one less.
LEMMA PaidBooking ==
    ASSUME Fit, OneHolder, Ledger, [Next]_vars, NEW s \in Client, commitBooking(s), NEW c \in Clan
    PROVE  /\ req[s].clan \in Clan /\ req[s].price \in Nat
           /\ Total(votings', PaidBy(c)') = IF c = req[s].clan THEN Total(votings, PaidBy(c)) + req[s].price
                                                                ELSE Total(votings, PaidBy(c))
  <1> DEFINE n == req[s].voting
  <1>1. /\ s \in Slot /\ req[s].pc = "book" /\ Good(s, req[s], votings) /\ UNCHANGED votings
        /\ outcome' = [outcome EXCEPT ![n] = "open"]
    BY DEF commitBooking, At, Slot, Fit
  <1>2. req[s].clan \in Clan /\ req[s].price \in Price /\ req[s].price \in Nat
    BY <1>1, PriceAssumption DEF Good, MarketPC
  <1>3. /\ n \in VotingId /\ n \in Stored /\ outcome[n] = "unpaid"
        /\ votings[n].type = "BUY" /\ votings[n].clan = req[s].clan /\ votings[n].price = req[s].price
    BY <1>1 DEF Good, Stored, OneHolder
  <1> HIDE DEF n
  <1>4. outcome'[n] = "open" /\ \A v \in VotingId \ {n} : outcome'[v] = outcome[v]
    BY <1>1, <1>3 DEF Fit
  <1>5. Stored' = Stored /\ \A v \in Stored : v \in VotingId
    BY <1>1 DEF Stored
  <1>6. PaidBy(c)' = IF c = req[s].clan THEN PaidBy(c) \cup {n} ELSE PaidBy(c)
    <2>1. \A v : v \in PaidBy(c)' <=> v \in PaidBy(c) \/ (v = n /\ c = req[s].clan)
      BY <1>1, <1>3, <1>4, <1>5 DEF PaidBy
    <2> QED BY <2>1
  <1>7. IsFiniteSet(PaidBy(c)) /\ PaidBy(c) \subseteq Stored /\ \A v \in Stored : votings[v].price \in Nat
    BY PaidFinite DEF Ledger
  <1>8. Total(votings, PaidBy(c) \cup {n}) = Total(votings, PaidBy(c)) + votings[n].price
    <2>1. n \notin PaidBy(c) /\ \A v \in PaidBy(c) \cup {n} : votings[v].price \in Nat
      BY <1>3, <1>7 DEF PaidBy
    <2> QED BY <1>7, <2>1, TotalAdd
  <1> QED BY <1>1, <1>2, <1>3, <1>6, <1>8

LEMMA PaidRefund ==
    ASSUME Fit, Ledger, [Next]_vars, NEW w \in Worker, refund(w), NEW c \in Clan, c \notin stale'
    PROVE  LET v == req[w].voting
           IN  /\ v \in Stored /\ votings[v].clan \in Clan /\ votings[v].price \in Nat
               /\ Total(votings', PaidBy(c)') \in Nat
               /\ Total(votings, PaidBy(c)) =
                    IF c = votings[v].clan THEN Total(votings', PaidBy(c)') + votings[v].price
                                           ELSE Total(votings', PaidBy(c)')
  <1> DEFINE v == req[w].voting
  <1>1. /\ w \in Slot /\ req[w].pc = "credit" /\ Good(w, req[w], votings) /\ UNCHANGED votings
        /\ NoteOutcome(v, "refunded")
        /\ stale' = IF gameCoins[votings[v].clan] = req[w].coins /\ outcome[v] = "open"
                    THEN stale ELSE stale \cup {votings[v].clan}
    BY DEF refund, At, Slot, Fit
  <1>2. v \in VotingId /\ v \in Stored /\ votings[v].type = "BUY"
    BY <1>1 DEF Good, JobPC, Stored
  <1> HIDE DEF v
  <1>3. votings[v].clan \in Clan
    BY <1>2, Lives DEF VotingRecord
  <1>4. IsFiniteSet(PaidBy(c)) /\ PaidBy(c) \subseteq Stored /\ \A u \in Stored : votings[u].price \in Nat
    BY PaidFinite DEF Ledger
  <1>5. c = votings[v].clan => outcome[v] = "open"
    BY <1>1
  <1>6. \A u \in VotingId \ {v} : outcome'[u] = outcome[u]
    BY <1>1 DEF NoteOutcome, Fit
  <1>7. outcome[v] = "open" => outcome'[v] = "refunded"
    BY <1>1, <1>2 DEF NoteOutcome, Fit
  <1>8. Stored' = Stored /\ \A u \in Stored : u \in VotingId
    BY <1>1 DEF Stored
  <1>9. CASE c = votings[v].clan
    <2>1. v \in PaidBy(c)
      BY <1>2, <1>5, <1>9 DEF PaidBy
    <2>2. \A u : u \in PaidBy(c)' <=> u \in PaidBy(c) /\ u # v
      BY <1>1, <1>5, <1>6, <1>7, <1>8, <1>9 DEF PaidBy
    <2> DEFINE S == PaidBy(c) \ {v}
    <2>3. PaidBy(c)' = S /\ PaidBy(c) = S \cup {v} /\ v \notin S
      BY <2>1, <2>2
    <2>4. IsFiniteSet(S) /\ \A u \in S \cup {v} : votings[u].price \in Nat
      BY <1>2, <1>4, FS_Subset
    <2> HIDE DEF S
    <2>5. Total(votings, S \cup {v}) = Total(votings, S) + votings[v].price /\ Total(votings, S) \in Nat
      BY <2>3, <2>4, TotalAdd, TotalNat
    <2> QED BY <1>1, <1>2, <1>3, <1>4, <1>9, <2>3, <2>5 DEF v
  <1>10. CASE c # votings[v].clan
    <2>1. \A u : u \in PaidBy(c)' <=> u \in PaidBy(c)
      BY <1>1, <1>6, <1>8, <1>10 DEF PaidBy
    <2>2. PaidBy(c)' = PaidBy(c) /\ Total(votings, PaidBy(c)) \in Nat
      BY <1>4, <2>1, TotalNat
    <2> QED BY <1>1, <1>2, <1>3, <1>4, <1>10, <2>2 DEF v
  <1> QED BY <1>9, <1>10

\* Who writes coins, stalls, what was spent at once, or notes an old read.
LEMMA CoinsUntouched ==
    ASSUME [Next]_vars,
           ~ \E s \in Client : buyDirectly(s) \/ commitBooking(s) \/ buyStallSlot(s) \/ updateAdPosterByClanId(s),
           ~ \E w \in Worker : refund(w)
    PROVE  UNCHANGED <<gameCoins, maxSlots, direct, stale>>
  <1>1. ASSUME NEW s \in Client, Request(s) PROVE UNCHANGED <<gameCoins, maxSlots, direct, stale>>
    BY <1>1 DEF Request, handleSellItem, handleBuyItem, readToChangePrice, readToChangeStatus,
                readToMove, readToUpdateAdPoster, readToBuySlot, addVote, history, clans
  <1>2. ASSUME NEW s \in Client, Continue(s) PROVE UNCHANGED <<gameCoins, maxSlots, direct, stale>>
    BY <1>2 DEF Continue, unstock, startSellVoting, addSellVotingJob, commitSale, cancelSale, readToBuy,
                handleBooking, addVotingCheckJob, changeItemPrice, changeItemStatus, moveFleaMarketItemToStock, cancelTransaction, castVote,
                history, clans
  <1>3. ASSUME NEW w \in Worker, Job(w) PROVE UNCHANGED <<gameCoins, maxSlots, direct, stale>>
    BY <1>3 DEF Job, process, handlePassedBuyVoting, handleRejectedBuyVoting, readToRefund,
                settleSellVoting, settlePriceVoting, finalizeVoting, history, clans
  <1> QED BY <1>1, <1>2, <1>3 DEF Next, handleVotingPassed, Stop, vars, history, clans

\* Each write of a clan that was not stale keeps its account even.
LEMMA LedgerStep ==
    ASSUME Fit, OneHolder, Ledger, [Next]_vars
    PROVE  Ledger'
  <1>1. IsFiniteSet(Stored')
    BY StoredStep DEF Ledger
  <1> DEFINE Kept == /\ direct' \in [Clan -> Nat]
                     /\ \A c \in Clan \ stale' :
                          Even(gameCoins'[c], direct'[c], Total(votings', PaidBy(c)'), maxSlots'[c])
  <1>3. \A c \in Clan \ stale : Even(gameCoins[c], direct[c], Total(votings, PaidBy(c)), maxSlots[c])
    BY DEF Ledger, Balanced, Even
  <1>4. \A c \in Clan : /\ gameCoins[c] \in Int /\ direct[c] \in Nat /\ maxSlots[c] \in Nat
                        /\ Total(votings, PaidBy(c)) \in Nat
    BY PaidFinite DEF Fit, Ledger
  <1>5. \A s \in Slot : /\ req[s] \in RequestRecord /\ Good(s, req[s], votings)
                        /\ req[s].coins \in Int /\ req[s].slots \in Nat
    BY DEF Fit, RequestRecord
  <1>6. ASSUME ~ \E s \in Client : commitBooking(s), ~ \E w \in Worker : refund(w), NEW c \in Clan
        PROVE  Total(votings', PaidBy(c)') = Total(votings, PaidBy(c))
    <2>1. PaidBy(c)' = PaidBy(c)
      BY <1>6, PaidElse
    <2>2. Total(votings', PaidBy(c)) = Total(votings, PaidBy(c))
      BY PaidFinite, PaidStays DEF Ledger
    <2> QED BY <2>1, <2>2
  <1>8. ASSUME NEW s \in Client, commitBooking(s) PROVE Kept
    <2>1. UNCHANGED direct /\ reserveFunds(s) /\ NoteStale(s, SameCoins(s) /\ SameStall(s))
      BY <1>8 DEF commitBooking, Overwrites
    <2> DEFINE b == req[s].clan
               p == req[s].price
    <2>2. b \in Clan /\ p \in Nat
      <3>1. s \in Slot /\ req[s].pc = "book"
        BY <1>8 DEF commitBooking, At, Slot
      <3> QED BY <1>5, <3>1, PriceAssumption DEF Good, MarketPC
    <2>3. ASSUME NEW c \in Clan \ stale'
          PROVE  Even(gameCoins'[c], direct'[c], Total(votings', PaidBy(c)'), maxSlots'[c])
      <3>1. c \in Clan \ stale
        BY <2>1, <2>3 DEF NoteStale
      <3>2. CASE c = b
        <4>1. gameCoins[c] = req[s].coins /\ maxSlots[c] = req[s].slots
          BY <2>1, <2>3, <3>2 DEF NoteStale, SameCoins, SameStall
        <4>2. gameCoins'[c] = gameCoins[c] - p /\ maxSlots'[c] = maxSlots[c] /\ direct'[c] = direct[c]
          BY <2>1, <2>2, <3>2, <4>1 DEF reserveFunds, Fit
        <4>3. Total(votings', PaidBy(c)') = Total(votings, PaidBy(c)) + p
          BY <1>8, <2>2, <3>2, PaidBooking
        <4> HIDE DEF p, b
        <4>4. Even(gameCoins[c] - p, direct[c], Total(votings, PaidBy(c)) + p, maxSlots[c])
          BY <1>3, <1>4, <2>2, <3>1, Evens
        <4> QED BY <4>2, <4>3, <4>4
      <3>3. CASE c # b
        <4>1. gameCoins'[c] = gameCoins[c] /\ maxSlots'[c] = maxSlots[c] /\ direct'[c] = direct[c]
          BY <2>1, <3>1, <3>3 DEF reserveFunds, Fit
        <4>2. Total(votings', PaidBy(c)') = Total(votings, PaidBy(c))
          BY <1>8, <3>1, <3>3, PaidBooking
        <4> QED BY <1>3, <3>1, <4>1, <4>2
      <3> QED BY <3>2, <3>3
    <2> QED BY <2>1, <2>3 DEF Ledger
  <1>9. ASSUME NEW w \in Worker, refund(w) PROVE Kept
    <2> DEFINE v == req[w].voting
               b == votings[v].clan
               p == votings[v].price
    <2>1. /\ UNCHANGED <<direct, maxSlots>>
          /\ gameCoins' = [gameCoins EXCEPT ![b] = req[w].coins + p]
          /\ stale' = IF gameCoins[b] = req[w].coins /\ outcome[v] = "open" THEN stale ELSE stale \cup {b}
      BY <1>9 DEF refund
    <2>2. ASSUME NEW c \in Clan \ stale'
          PROVE  Even(gameCoins'[c], direct'[c], Total(votings', PaidBy(c)'), maxSlots'[c])
      <3>1. c \in Clan \ stale
        BY <2>1, <2>2
      <3>2. /\ b \in Clan /\ p \in Nat /\ Total(votings', PaidBy(c)') \in Nat
            /\ Total(votings, PaidBy(c)) = IF c = b THEN Total(votings', PaidBy(c)') + p
                                                    ELSE Total(votings', PaidBy(c)')
        BY <1>9, <2>2, PaidRefund
      <3> HIDE DEF p, b
      <3>3. CASE c = b
        <4>1. gameCoins'[c] = gameCoins[c] + p /\ maxSlots'[c] = maxSlots[c] /\ direct'[c] = direct[c]
          BY <2>1, <2>2, <3>2, <3>3 DEF Fit
        <4>2. Even(gameCoins[c] + p, direct[c], Total(votings', PaidBy(c)'), maxSlots[c])
          BY <1>3, <1>4, <3>1, <3>2, <3>3, Evens
        <4> QED BY <4>1, <4>2
      <3>4. CASE c # b
        <4>1. gameCoins'[c] = gameCoins[c] /\ maxSlots'[c] = maxSlots[c] /\ direct'[c] = direct[c]
          BY <2>1, <3>1, <3>4 DEF Fit
        <4> QED BY <1>3, <3>1, <3>2, <3>4, <4>1
      <3> QED BY <3>3, <3>4
    <2> QED BY <2>1, <2>2 DEF Ledger
  <1>10. ASSUME ~ \E s \in Client : commitBooking(s), ~ \E w \in Worker : refund(w) PROVE Kept
    <2>1. ASSUME NEW s \in Client, buyDirectly(s) PROVE Kept
      <3>1. /\ reserveFunds(s) /\ NoteStale(s, SameCoins(s) /\ SameStall(s)) /\ req[s].pc = "pay" /\ s \in Slot
            /\ direct' = [direct EXCEPT ![req[s].clan] = @ + req[s].price]
        BY <2>1 DEF buyDirectly, Overwrites, At, Slot
      <3> DEFINE b == req[s].clan
                 p == req[s].price
      <3>2. b \in Clan /\ p \in Nat
        BY <1>5, <3>1, PriceAssumption DEF Good, MarketPC
      <3>3. ASSUME NEW c \in Clan \ stale'
            PROVE  Even(gameCoins'[c], direct'[c], Total(votings, PaidBy(c)), maxSlots'[c])
        <4>1. c \in Clan \ stale
          BY <3>1, <3>3 DEF NoteStale
        <4>2. CASE c = b
          <5>1. gameCoins[c] = req[s].coins /\ maxSlots[c] = req[s].slots
            BY <3>1, <3>3, <4>2 DEF NoteStale, SameCoins, SameStall
          <5>2. gameCoins'[c] = gameCoins[c] - p /\ maxSlots'[c] = maxSlots[c] /\ direct'[c] = direct[c] + p
            BY <3>1, <3>2, <4>2, <5>1 DEF reserveFunds, Fit, Ledger
          <5> HIDE DEF p, b
          <5>3. Even(gameCoins[c] - p, direct[c] + p, Total(votings, PaidBy(c)), maxSlots[c])
            BY <1>3, <1>4, <3>2, <4>1, Evens
          <5> QED BY <5>2, <5>3
        <4>3. CASE c # b
          <5>1. gameCoins'[c] = gameCoins[c] /\ maxSlots'[c] = maxSlots[c] /\ direct'[c] = direct[c]
            BY <3>1, <4>1, <4>3 DEF reserveFunds, Fit, Ledger
          <5> QED BY <1>3, <4>1, <5>1
        <4> QED BY <4>2, <4>3
      <3>4. direct' \in [Clan -> Nat]
        <4>1. direct[b] + p \in Nat
          BY <1>4, <3>2
        <4> QED BY <3>1, <4>1 DEF Ledger
      <3> QED BY <1>6, <1>10, <3>3, <3>4
    <2>2. ASSUME NEW s \in Client, buyStallSlot(s) PROVE Kept
      <3> DEFINE b == req[s].clan
                 p == req[s].price
      <3>1. /\ NoteStale(s, SameCoins(s) /\ SameStall(s)) /\ req[s].pc = "slot" /\ s \in Slot
            /\ gameCoins' = [gameCoins EXCEPT ![b] = req[s].coins - SlotPrice * p]
            /\ maxSlots' = [maxSlots EXCEPT ![b] = req[s].slots + p]
            /\ UNCHANGED direct
        BY <2>2 DEF buyStallSlot, At, Slot
      <3>2. b \in Clan /\ p \in Nat
        BY <1>5, <3>1, SlotPriceAssumption DEF Good
      <3>3. ASSUME NEW c \in Clan \ stale'
            PROVE  Even(gameCoins'[c], direct'[c], Total(votings, PaidBy(c)), maxSlots'[c])
        <4>1. c \in Clan \ stale
          BY <3>1, <3>3 DEF NoteStale
        <4>2. CASE c = b
          <5>1. gameCoins[c] = req[s].coins /\ maxSlots[c] = req[s].slots
            BY <3>1, <3>3, <4>2 DEF NoteStale, SameCoins, SameStall
          <5> HIDE DEF p
          <5>2. gameCoins'[c] = gameCoins[c] - SlotPrice * p /\ maxSlots'[c] = maxSlots[c] + p
                /\ direct'[c] = direct[c]
            BY <3>1, <3>2, <4>2, <5>1 DEF Fit
          <5> HIDE DEF b
          <5>3. Even(gameCoins[c] - SlotPrice * p, direct[c], Total(votings, PaidBy(c)), maxSlots[c] + p)
            BY <1>3, <1>4, <3>2, <4>1, Evens
          <5> QED BY <5>2, <5>3
        <4>3. CASE c # b
          <5>1. gameCoins'[c] = gameCoins[c] /\ maxSlots'[c] = maxSlots[c] /\ direct'[c] = direct[c]
            BY <3>1, <4>1, <4>3 DEF Fit
          <5> QED BY <1>3, <4>1, <5>1
        <4> QED BY <4>2, <4>3
      <3> QED BY <1>6, <1>10, <3>1, <3>3 DEF Ledger
    <2>3. ASSUME NEW s \in Client, updateAdPosterByClanId(s) PROVE Kept
      <3>1. /\ NoteStale(s, SameStall(s)) /\ maxSlots' = [maxSlots EXCEPT ![req[s].clan] = req[s].slots]
            /\ UNCHANGED <<gameCoins, direct>>
        BY <2>3 DEF updateAdPosterByClanId
      <3>2. ASSUME NEW c \in Clan \ stale' PROVE c \in Clan \ stale /\ maxSlots'[c] = maxSlots[c]
        BY <3>1, <3>2 DEF NoteStale, SameStall, Fit
      <3> QED BY <1>3, <1>6, <1>10, <3>1, <3>2 DEF Ledger
    <2>4. ASSUME ~ \E s \in Client : buyDirectly(s) \/ commitBooking(s) \/ buyStallSlot(s) \/ updateAdPosterByClanId(s)
          PROVE  Kept
      <3>1. UNCHANGED <<gameCoins, maxSlots, direct, stale>>
        BY <1>10, <2>4, CoinsUntouched
      <3> QED BY <1>3, <1>6, <1>10, <3>1 DEF Ledger
    <2> HIDE DEF Kept
    <2> QED BY <1>10, <2>1, <2>2, <2>3, <2>4
  <1>11. Kept
    <2> HIDE DEF Kept
    <2> QED BY <1>8, <1>9, <1>10
  <1> QED BY <1>1, <1>11 DEF Ledger, Balanced, Even

LEMMA InitLedger == Init => Ledger
  <1> SUFFICES ASSUME Init PROVE Ledger
    OBVIOUS
  <1>1. Stored = {} /\ \A c : PaidBy(c) = {}
    BY DEF Init, Stored, PaidBy
  <1>2. IsFiniteSet({})
    BY FS_EmptySet
  <1>3. Total(votings, {}) = 0
    BY <1>2, TotalStep
  <1>4. ASSUME NEW c \in Clan
        PROVE  Coins = Coins - 0 - Total(votings, PaidBy(c)) - SlotPrice * (MaxSlots - MaxSlots)
    <2>1. Total(votings, PaidBy(c)) = 0
      BY <1>1, <1>3
    <2>2. SlotPrice * (MaxSlots - MaxSlots) = 0 /\ Coins \in Nat
      BY SlotPriceAssumption, BoundsAssumption, PriceAssumption
    <2> QED BY <2>1, <2>2
  <1>5. Balanced
    BY <1>4 DEF Balanced, Init
  <1> QED BY <1>1, <1>2, <1>5 DEF Ledger, Init

\* Unless a clan was written from an old read, its coins are what it had less what it
\* spent: purchases at once, booked ones that were not refunded and places of the stall,
\* whichever requests, jobs and stops meet.
THEOREM CoinsAreKept == Spec => []CoinsKept
  <1>1. Fit /\ OneHolder /\ Ledger /\ [Next]_vars => OneHolder' /\ Ledger'
    BY OneHolderStep, LedgerStep
  <1>2. Ledger => CoinsKept
    BY DEF Ledger, Balanced, CoinsKept, Total
  <1>3. Init => OneHolder
    BY HoldersAtFirst
  <1> QED BY <1>1, <1>2, <1>3, InitLedger, FitAlways, PTL DEF Spec
=============================================================================
