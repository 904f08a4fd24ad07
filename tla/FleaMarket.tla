------------------------------ MODULE FleaMarket ------------------------------
(***************************************************************************)
(* src/fleaMarket: clans sell and buy items, at once or after a voting of    *)
(* the clan.  An item that moves between stock and market is a new document. *)
(* A voting is settled by voting.passed as soon as the votes suffice, and    *)
(* again by its BullMQ job when its time is over; only the job knows the     *)
(* price, the clan, its stock and the item for sale.  The votes themselves   *)
(* are those of Voting: here the last vote of a majority is cast or not.     *)
(***************************************************************************)
EXTENDS Integers, FiniteSets, FiniteSetsExt

CONSTANTS
    Clan,
    Client,         \* requests in flight
    Worker,         \* queue workers
    ItemId,         \* bound: the _ids of stock and market items
    Goods,          \* those of the items there are at first
    VotingId,       \* bound: the votings
    Price,
    Coins,          \* the coins of a clan at first
    MaxSlots,       \* the places of a clan's stall at first
    SlotPrice,      \* stallSlotPrice
    Amount,         \* bound: how many places a clan buys at a time
    Nil,            \* no clan, item, voting, price or status
    MaxStops,       \* bound: how often the server stops
    MaxRequests     \* bound: how many requests are made

ASSUME GoodsAssumption == Goods \subseteq ItemId /\ IsFiniteSet(Goods)
ASSUME PriceAssumption == Price # {} /\ Price \subseteq Nat \ {0} /\ Coins \in Nat
ASSUME NilAssumption == Nil \notin Clan \cup Price \cup ItemId \cup VotingId
ASSUME SlotsAssumption == Client \cap Worker = {}
ASSUME SlotPriceAssumption == SlotPrice \in Nat \ {0} /\ Amount \subseteq Nat \ {0}
ASSUME BoundsAssumption == {MaxSlots, MaxStops, MaxRequests} \subseteq Nat

VARIABLES
    items,      \* the stock or market item each _id has, if any
    gameCoins,  \* of each clan
    maxSlots,   \* the places of each clan's stall
    votings,    \* the votings stored
    passed,     \* voting.passed emitted and not yet handled
    jobs,       \* the queue flea_market: votings whose time is to end
    closed,     \* votings whose time is over
    req,        \* the request or job each slot runs
    outcome,    \* history: what became of each voted purchase
    direct,     \* history: the coins each clan spent without a voting
    lost,       \* history: sales cut off after the stock item was deleted
    outdated,   \* history: something was done to an item that had changed since it
                \* was read or since its voting began, or a booked item was released
                \* without the refund, by the passed event or a stop
    stale,      \* history: clans whose coins or stall were written from an old read,
                \* or whose coins were refunded again after a stop
    untimed,    \* history: votings whose job a stop lost
    stops,      \* history: how often the server stopped
    requests    \* how many requests were made

history == <<outcome, direct, lost, outdated, stale, untimed, stops>>

clans == <<gameCoins, maxSlots>>

vars == <<items, clans, votings, passed, jobs, closed, req, history, requests>>

Slot == Client \cup Worker

Status == {"SHIPPING", "AVAILABLE", "BOOKED"}

\* A stock item has no status and, without a stock, no clan.
Item == [clan : Clan \cup {Nil}, status : Status \cup {Nil}, price : Price]

VotingType == {"BUY", "SELL", "PRICE"}

VotingRecord == [type : VotingType, clan : Clan, item : ItemId, price : Price,
                 ended : BOOLEAN]

\* Nil is none of the documents.
ASSUME AbsentAssumption == Nil \notin Status /\ Nil \notin Item /\ Nil \notin VotingRecord

Outcome == {"unpaid", "open", "delivered", "adrift", "refunded", "void"}

Idle == [pc |-> "idle", clan |-> Nil, item |-> Nil, read |-> Nil, price |-> Nil,
         coins |-> 0, slots |-> 0, voting |-> Nil]

Live == {i \in ItemId : items[i] # Nil}

OnMarket == {i \in Live : items[i].status # Nil}

Stored == {v \in VotingId : votings[v] # Nil}

TypeOK ==
    /\ \A i \in Live : items[i] \in Item
    /\ gameCoins \in [Clan -> Int]
    /\ maxSlots \in [Clan -> Nat]
    /\ \A v \in Stored : votings[v] \in VotingRecord
    /\ passed \cup jobs \cup closed \cup untimed \subseteq Stored
    /\ DOMAIN req = Slot
    /\ outcome \in [VotingId -> Outcome]
    /\ stale \subseteq Clan

\* Each item of the clans is for sale or in a stock.
Init ==
    /\ items \in [ItemId -> {Nil} \cup [clan : Clan, status : {"AVAILABLE", Nil}, price : Price]]
    /\ Live = Goods
    /\ gameCoins = [c \in Clan |-> Coins]
    /\ maxSlots = [c \in Clan |-> MaxSlots]
    /\ votings = [v \in VotingId |-> Nil]
    /\ passed = {} /\ jobs = {} /\ closed = {}
    /\ req = [s \in Slot |-> Idle]
    /\ outcome = [v \in VotingId |-> "unpaid"]
    /\ direct = [c \in Clan |-> 0]
    /\ lost = 0
    /\ outdated = FALSE
    /\ stale = {}
    /\ untimed = {}
    /\ stops = 0
    /\ requests = 0
----------------------------------------------------------------------------
At(s, label) == req[s].pc = label

Finish(s) == req' = [req EXCEPT ![s] = Idle]

\* The _ids that nothing has or knows; they are interchangeable.
Free == ItemId \ (Live \cup {req[s].item : s \in Slot} \cup {votings[v].item : v \in Stored})

NewItem == CHOOSE i \in Free : TRUE

NewVoting == CHOOSE v \in VotingId \ Stored : TRUE

startVoting(type, c, i, p) ==
    votings' = [votings EXCEPT ![NewVoting] =
        [type |-> type, clan |-> c, item |-> i, price |-> p, ended |-> FALSE]]

ForSale(c, status, p) == [clan |-> c, status |-> status, price |-> p]

\* fleaMarketItemToCreateItemDto
InStock(c, p) == [clan |-> c, status |-> Nil, price |-> p]

MutMoveToStock(i, c) ==
    /\ Free # {}
    /\ items' = [items EXCEPT ![NewItem] = InStock(c, items[i].price)]

\* A transaction creates the stock item and deletes the market item.
MoveToStock(i, c) ==
    /\ Free # {}
    /\ items' = [items EXCEPT ![i] = Nil, ![NewItem] = InStock(c, items[i].price)]

\* Whether the item is no longer the one the request read.
Changed(s) == items[req[s].item] # req[s].read
----------------------------------------------------------------------------
\* POST flea-market/sell: the stock item is read.
handleSellItem(s, c, i, p) ==
    /\ At(s, "idle") /\ i \in Live \ OnMarket /\ items[i].clan = c
    /\ req' = [req EXCEPT ![s] = [Idle EXCEPT !.pc = "unstock", !.clan = c, !.item = i,
                                              !.read = items[i], !.price = p]]
    /\ UNCHANGED <<items, clans, votings, passed, jobs, closed, history>>

\* moveItemToFleaMarket: the stock item is deleted outside the session that creates
\* the market item.  If it is gone, the session is cancelled, or left behind.
unstock(s) ==
    /\ At(s, "unstock")
    /\ IF req[s].item \in Live
       THEN /\ Free # {}
            /\ items' = [items EXCEPT ![req[s].item] = Nil]
            /\ \E pc \in {"sell", "vote"} : req' = [req EXCEPT ![s].pc = pc, ![s].item = NewItem]
       ELSE Finish(s) /\ UNCHANGED items
    /\ UNCHANGED <<clans, votings, passed, jobs, closed, history>>

\* sellViaVote: the voting is stored outside the session ...
startSellVoting(s) ==
    /\ At(s, "vote") /\ Stored # VotingId
    /\ startVoting("SELL", req[s].clan, req[s].item, req[s].price)
    /\ req' = [req EXCEPT ![s].pc = "job", ![s].voting = NewVoting]
    /\ UNCHANGED <<items, clans, passed, jobs, closed, history>>

\* ... then, the session having written the price, its job.
addSellVotingJob(s) ==
    /\ At(s, "job")
    /\ jobs' = jobs \cup {req[s].voting}
    /\ req' = [req EXCEPT ![s].pc = "list"]
    /\ UNCHANGED <<items, clans, votings, passed, closed, history>>

\* The session commits: the market item is there.
commitSale(s) ==
    /\ At(s, "sell") \/ At(s, "list")
    /\ items' = [items EXCEPT ![req[s].item] =
          ForSale(req[s].clan, "SHIPPING", IF At(s, "sell") THEN req[s].price ELSE req[s].read.price)]
    /\ Finish(s)
    /\ UNCHANGED <<clans, votings, passed, jobs, closed, history>>

\* The requests that have an item neither stored nor lost.
Moving == {"sell", "vote", "job", "list"}

\* It does not: the stock item stays deleted.
cancelSale(s) ==
    /\ req[s].pc \in Moving
    /\ lost' = lost + 1
    /\ Finish(s)
    /\ UNCHANGED <<items, clans, votings, passed, jobs, closed, outcome, direct, outdated,
                   stale, untimed, stops>>
----------------------------------------------------------------------------
\* A request keeps the clan as it read it: its coins and its stall.
ReadClan(s, pc, c, i, p) ==
    req' = [req EXCEPT ![s] = [Idle EXCEPT !.pc = pc, !.clan = c, !.item = i, !.price = p,
                                           !.coins = gameCoins[c], !.slots = maxSlots[c]]]

\* POST flea-market/buy: the clan is read.
handleBuyItem(s, c, i) ==
    /\ At(s, "idle") /\ i \in OnMarket
    /\ ReadClan(s, "buy", c, i, Nil)
    /\ UNCHANGED <<items, clans, votings, passed, jobs, closed, history>>

MutReadToBuy(s) ==
    LET i == req[s].item
    IN  /\ At(s, "buy")
        /\ IF i \in Live /\ items[i].status # "SHIPPING" /\ req[s].coins >= items[i].price
           THEN req' = [req EXCEPT ![s].pc = "pay", ![s].read = items[i], ![s].price = items[i].price]
           ELSE Finish(s)
        /\ UNCHANGED <<items, clans, votings, passed, jobs, closed, history>>

\* Then the item: it is available, and the clan can pay for it.
readToBuy(s) ==
    LET i == req[s].item
    IN  /\ At(s, "buy")
        /\ IF i \in Live /\ items[i].status = "AVAILABLE" /\ req[s].coins >= items[i].price
           THEN req' = [req EXCEPT ![s].pc = "pay", ![s].read = items[i], ![s].price = items[i].price]
           ELSE Finish(s)
        /\ UNCHANGED <<items, clans, votings, passed, jobs, closed, history>>

MutReserveFunds(s) == UNCHANGED clans

\* The whole clan is written as it was read, less the price.
reserveFunds(s) ==
    /\ gameCoins' = [gameCoins EXCEPT ![req[s].clan] = req[s].coins - req[s].price]
    /\ maxSlots' = [maxSlots EXCEPT ![req[s].clan] = req[s].slots]

\* The clan is no longer the one that was read.
NoteStale(s, same) == stale' = IF same THEN stale ELSE stale \cup {req[s].clan}

SameCoins(s) == gameCoins[req[s].clan] = req[s].coins

SameStall(s) == maxSlots[req[s].clan] = req[s].slots

\* What the transaction writes over: another item, another clan.
Overwrites(s) ==
    /\ outdated' = (outdated \/ Changed(s))
    /\ NoteStale(s, SameCoins(s) /\ SameStall(s))

\* One transaction: the coins, the stock item, and the market item is deleted.
buyDirectly(s) ==
    /\ At(s, "pay") /\ req[s].item \in Live
    /\ reserveFunds(s)
    /\ MoveToStock(req[s].item, req[s].clan)
    /\ direct' = [direct EXCEPT ![req[s].clan] = @ + req[s].price]
    /\ Overwrites(s)
    /\ Finish(s)
    /\ UNCHANGED <<votings, passed, jobs, closed, outcome, lost, untimed, stops>>

\* buyViaVote, handleBooking: the voting is stored outside the transaction, before
\* this commits, and may be voted on from then on.
handleBooking(s) ==
    /\ At(s, "pay") /\ req[s].item \in Live /\ Stored # VotingId
    /\ startVoting("BUY", req[s].clan, req[s].item, req[s].price)
    /\ req' = [req EXCEPT ![s].pc = "book", ![s].voting = NewVoting]
    /\ UNCHANGED <<items, clans, passed, jobs, closed, history>>

\* The transaction commits: the item, as it was read, is booked, and the coins are
\* taken.
commitBooking(s) ==
    /\ At(s, "book") /\ req[s].item \in Live
    /\ items' = [items EXCEPT ![req[s].item] = [req[s].read EXCEPT !.status = "BOOKED"]]
    /\ reserveFunds(s)
    /\ outcome' = [outcome EXCEPT ![req[s].voting] = "open"]
    /\ Overwrites(s)
    /\ req' = [req EXCEPT ![s].pc = "enqueue"]
    /\ UNCHANGED <<votings, passed, jobs, closed, direct, lost, untimed, stops>>

\* Until then the item is its transaction's alone.
Locked(v) == \E s \in Client : At(s, "book") /\ req[s].voting = v

MutAddVotingCheckJob(s) ==
    /\ At(s, "enqueue")
    /\ Finish(s)
    /\ UNCHANGED <<items, clans, votings, passed, jobs, closed, history>>

\* The job of a booking is added after its transaction.
addVotingCheckJob(s) ==
    /\ At(s, "enqueue")
    /\ jobs' = jobs \cup {req[s].voting}
    /\ Finish(s)
    /\ UNCHANGED <<items, clans, votings, passed, closed, history>>
----------------------------------------------------------------------------
\* The requests of a clan about an item it has on the market: it is read first.
ReadOwn(s, i, pc, p) ==
    req' = [req EXCEPT ![s] = [Idle EXCEPT !.pc = pc, !.clan = items[i].clan, !.item = i,
                                           !.read = items[i], !.price = p]]

readToChangePrice(s, i, p) ==
    /\ At(s, "idle") /\ i \in OnMarket /\ items[i].status = "AVAILABLE"
    /\ ReadOwn(s, i, "price", p)
    /\ UNCHANGED <<items, clans, votings, passed, jobs, closed, history>>

\* One transaction takes the item off the market and stores the voting; the job is
\* added before it commits.
changeItemPrice(s) ==
    /\ At(s, "price") /\ Stored # VotingId /\ req[s].item \in Live
    /\ items' = [items EXCEPT ![req[s].item].status = "SHIPPING"]
    /\ startVoting("PRICE", req[s].clan, req[s].item, req[s].price)
    /\ jobs' = jobs \cup {NewVoting}
    /\ outdated' = (outdated \/ Changed(s))
    /\ Finish(s)
    /\ UNCHANGED <<clans, passed, closed, outcome, direct, lost, stale, untimed, stops>>

\* The places of the stall taken; readMany answers an empty list with an error.
checkClanItemSlots(c) ==
    LET taken == {i \in OnMarket : items[i].clan = c /\ items[i].status \in {"AVAILABLE", "BOOKED"}}
    IN  taken # {} /\ Cardinality(taken) < maxSlots[c]

readToChangeStatus(s, i, status) ==
    /\ At(s, "idle") /\ i \in OnMarket /\ items[i].status # "BOOKED"
    /\ status = "AVAILABLE" => checkClanItemSlots(items[i].clan)
    /\ ReadOwn(s, i, status, Nil)
    /\ UNCHANGED <<items, clans, votings, passed, jobs, closed, history>>

\* The status is set, whatever it is by now.
changeItemStatus(s) ==
    /\ At(s, "AVAILABLE") \/ At(s, "SHIPPING")
    /\ IF req[s].item \in Live
       THEN /\ items' = [items EXCEPT ![req[s].item].status = req[s].pc]
            /\ outdated' = (outdated \/ Changed(s))
       ELSE UNCHANGED <<items, outdated>>
    /\ Finish(s)
    /\ UNCHANGED <<clans, votings, passed, jobs, closed, outcome, direct, lost, stale,
                   untimed, stops>>

readToMove(s, i) ==
    /\ At(s, "idle") /\ i \in OnMarket /\ items[i].status # "BOOKED"
    /\ ReadOwn(s, i, "move", Nil)
    /\ UNCHANGED <<items, clans, votings, passed, jobs, closed, history>>

\* moveFleaMarketItemToStockTransaction
moveFleaMarketItemToStock(s) ==
    /\ At(s, "move") /\ req[s].item \in Live
    /\ MoveToStock(req[s].item, req[s].clan)
    /\ outdated' = (outdated \/ Changed(s))
    /\ Finish(s)
    /\ UNCHANGED <<clans, votings, passed, jobs, closed, outcome, direct, lost, stale,
                   untimed, stops>>

\* POST stall/buy-slot: the clan is read and can pay.
readToBuySlot(s, c, amount) ==
    /\ At(s, "idle") /\ gameCoins[c] >= SlotPrice * amount
    /\ ReadClan(s, "slot", c, Nil, amount)
    /\ UNCHANGED <<items, clans, votings, passed, jobs, closed, history>>

\* Coins and stall are written, as computed from that read.
buyStallSlot(s) ==
    LET c == req[s].clan
    IN  /\ At(s, "slot")
        /\ gameCoins' = [gameCoins EXCEPT ![c] = req[s].coins - SlotPrice * req[s].price]
        /\ maxSlots' = [maxSlots EXCEPT ![c] = req[s].slots + req[s].price]
        /\ NoteStale(s, SameCoins(s) /\ SameStall(s))
        /\ Finish(s)
        /\ UNCHANGED <<items, votings, passed, jobs, closed, outcome, direct, lost, outdated,
                       untimed, stops>>

\* PATCH stall/adPoster: the stall is read ...
readToUpdateAdPoster(s, c) ==
    /\ At(s, "idle")
    /\ ReadClan(s, "poster", c, Nil, Nil)
    /\ UNCHANGED <<items, clans, votings, passed, jobs, closed, history>>

\* ... and written, with a new poster and the places it had.
updateAdPosterByClanId(s) ==
    /\ At(s, "poster")
    /\ maxSlots' = [maxSlots EXCEPT ![req[s].clan] = req[s].slots]
    /\ NoteStale(s, SameStall(s))
    /\ Finish(s)
    /\ UNCHANGED <<items, gameCoins, votings, passed, jobs, closed, outcome, direct, lost,
                   outdated, untimed, stops>>

\* A transaction that cannot commit, for one because the item is gone, is undone; the
\* voting of a booking stays.
cancelTransaction(s) ==
    /\ At(s, "pay") \/ At(s, "book") \/ At(s, "price") \/ At(s, "move")
    /\ Finish(s)
    /\ UNCHANGED <<items, clans, votings, passed, jobs, closed, history>>
----------------------------------------------------------------------------
\* addVote reads the voting: it has not ended and its time is not over.
addVote(s, v) ==
    /\ At(s, "idle") /\ v \in Stored \ closed /\ ~votings[v].ended
    /\ req' = [req EXCEPT ![s] = [Idle EXCEPT !.pc = "cast", !.voting = v]]
    /\ UNCHANGED <<items, clans, votings, passed, jobs, closed, history>>

\* The vote is the one that was missing: the voting ends and voting.passed is emitted.
\* Any other vote changes nothing here.
castVote(s) ==
    /\ At(s, "cast")
    /\ votings' = [votings EXCEPT ![req[s].voting].ended = TRUE]
    /\ passed' = passed \cup {req[s].voting}
    /\ Finish(s)
    /\ UNCHANGED <<items, clans, jobs, closed, history>>

\* The status a voting gave its item, and in which settling it should find it.
StatusSet(v) == IF votings[v].type = "BUY" THEN "BOOKED" ELSE "SHIPPING"

\* Settling finds the item in a status that something else gave it, or is not the
\* first, or nothing was paid.
Unexpected(v) ==
    LET i == votings[v].item
    IN  /\ i \in OnMarket
        /\ items[i].status # StatusSet(v) \/ (votings[v].type = "BUY" /\ outcome[v] # "open")

NoteOutcome(v, result) ==
    outcome' = [outcome EXCEPT ![v] = IF @ = "open" THEN result ELSE @]

\* The item is for sale again, outside any session.
MakeAvailable(i, price) ==
    items' = IF i \in Live THEN [items EXCEPT ![i].status = "AVAILABLE", ![i].price = price] ELSE items

\* A bought item goes to no stock, as the event knows none; a transaction that meets
\* that of the booking is cancelled.
DeliverOnEvent(v) ==
    IF votings[v].item \in Live /\ ~Locked(v)
    THEN MoveToStock(votings[v].item, Nil) /\ NoteOutcome(v, "adrift")
    ELSE UNCHANGED <<items, outcome>>

\* The clan has grown since and the votes are no majority any more: the item is for
\* sale again, and as the event knows no clan and no price nothing is refunded.
ReleaseOnEvent(v) ==
    /\ ~Locked(v)
    /\ MakeAvailable(votings[v].item, items[votings[v].item].price)
    /\ UNCHANGED outcome

\* handleVotingPassed: checkVotingOnExpire counts the votes again, and knows the voting
\* only.  An item for sale is not found, since its id is not in the voting's params.
handleVotingPassed(v) ==
    LET i == votings[v].item
        type == votings[v].type
    IN  /\ v \in passed
        /\ passed' = passed \ {v}
        /\ \E votePassed \in BOOLEAN :
              /\ CASE type = "BUY" /\ votePassed -> DeliverOnEvent(v)
                   [] type = "BUY" /\ ~votePassed -> ReleaseOnEvent(v)
                   [] type = "PRICE" ->
                        /\ MakeAvailable(i, IF votePassed THEN votings[v].price ELSE items[i].price)
                        /\ UNCHANGED outcome
                   [] OTHER -> UNCHANGED <<items, outcome>>
              /\ outdated' = (outdated \/ (type # "SELL" /\ (v \in closed \/ Unexpected(v)))
                                       \/ (type = "BUY" /\ ~votePassed))
        /\ UNCHANGED <<clans, votings, jobs, closed, req, direct, lost, stale, untimed, stops>>
----------------------------------------------------------------------------
\* The job of a voting whose time is over reads it afresh.  Clans grow and shrink, so
\* whether its votes are a majority now is left open.
process(w, v) ==
    /\ At(w, "idle") /\ v \in jobs
    /\ jobs' = jobs \ {v}
    /\ closed' = closed \cup {v}
    /\ \E pc \in {"passed", "rejected"} :
          req' = [req EXCEPT ![w] = [Idle EXCEPT !.pc = pc, !.voting = v]]
    /\ UNCHANGED <<items, clans, votings, passed, history>>

\* The job at w settles a voting of this type.
Settles(w, pc, type) == At(w, pc) /\ votings[req[w].voting].type = type

Then(w, pc) == req' = [req EXCEPT ![w].pc = pc]

\* The item is delivered, once; if it is gone the transaction is cancelled.
handlePassedBuyVoting(w) ==
    LET v == req[w].voting
        i == votings[v].item
    IN  /\ Settles(w, "passed", "BUY")
        /\ IF i \in Live
           THEN MoveToStock(i, votings[v].clan) /\ NoteOutcome(v, "delivered")
           ELSE NoteOutcome(v, "void") /\ UNCHANGED items
        /\ outdated' = (outdated \/ Unexpected(v))
        /\ Then(w, "finalize")
        /\ UNCHANGED <<clans, votings, passed, jobs, closed, direct, lost, stale, untimed, stops>>

\* The item becomes available, outside the session; if it is gone nothing is refunded.
handleRejectedBuyVoting(w) ==
    LET v == req[w].voting
        i == votings[v].item
    IN  /\ Settles(w, "rejected", "BUY")
        /\ IF i \in Live
           THEN /\ items' = [items EXCEPT ![i].status = "AVAILABLE"]
                /\ Then(w, "refund")
                /\ UNCHANGED outcome
           ELSE Then(w, "finalize") /\ NoteOutcome(v, "void") /\ UNCHANGED items
        /\ outdated' = (outdated \/ Unexpected(v))
        /\ UNCHANGED <<clans, votings, passed, jobs, closed, direct, lost, stale, untimed, stops>>

\* Then the coins are read, and written with the price added.
readToRefund(w) ==
    /\ At(w, "refund")
    /\ req' = [req EXCEPT ![w].pc = "credit", ![w].coins = gameCoins[votings[req[w].voting].clan]]
    /\ UNCHANGED <<items, clans, votings, passed, jobs, closed, history>>

refund(w) ==
    LET v == req[w].voting
        c == votings[v].clan
    IN  /\ At(w, "credit")
        /\ UNCHANGED maxSlots
        /\ gameCoins' = [gameCoins EXCEPT ![c] = req[w].coins + votings[v].price]
        /\ NoteOutcome(v, "refunded")
        /\ stale' = IF gameCoins[c] = req[w].coins /\ outcome[v] = "open" THEN stale ELSE stale \cup {c}
        /\ Then(w, "finalize")
        /\ UNCHANGED <<items, votings, passed, jobs, closed, direct, lost, outdated, untimed, stops>>

\* A sale the clan accepted gets its price, one it refused goes back to its stock.  If the
\* item is gone the job fails.
settleSellVoting(w) ==
    LET v == req[w].voting
        i == votings[v].item
    IN  /\ Settles(w, "passed", "SELL") \/ Settles(w, "rejected", "SELL")
        /\ IF i \notin Live
           THEN Finish(w) /\ UNCHANGED items
           ELSE /\ Then(w, "finalize")
                /\ IF At(w, "passed")
                   THEN items' = [items EXCEPT ![i].status = "AVAILABLE", ![i].price = votings[v].price]
                   ELSE MoveToStock(i, items[i].clan)
        /\ outdated' = (outdated \/ Unexpected(v))
        /\ UNCHANGED <<clans, votings, passed, jobs, closed, outcome, direct, lost, stale, untimed, stops>>

\* The item is available again, with the new price or the old one, also when
\* handleVotingPassed did it before.
settlePriceVoting(w) ==
    LET v == req[w].voting
        i == votings[v].item
    IN  /\ Settles(w, "passed", "PRICE") \/ Settles(w, "rejected", "PRICE")
        /\ MakeAvailable(i, IF At(w, "passed") THEN votings[v].price ELSE items[i].price)
        /\ outdated' = (outdated \/ Unexpected(v))
        /\ Then(w, "finalize")
        /\ UNCHANGED <<clans, votings, passed, jobs, closed, outcome, direct, lost, stale, untimed, stops>>

finalizeVoting(w) ==
    /\ At(w, "finalize")
    /\ votings' = [votings EXCEPT ![req[w].voting].ended = TRUE]
    /\ Finish(w)
    /\ UNCHANGED <<items, clans, passed, jobs, closed, history>>

\* Requests and events of a stopped server are gone; a job it was running is run again.
Stop ==
    /\ stops < MaxStops
    /\ stops' = stops + 1
    /\ passed' = {}
    /\ jobs' = jobs \cup {req[w].voting : w \in {w \in Worker : ~At(w, "idle")}}
    /\ untimed' = untimed \cup {req[s].voting : s \in {s \in Client : At(s, "enqueue")}}
    /\ lost' = lost + Cardinality({s \in Client : req[s].pc \in Moving})
    /\ req' = [s \in Slot |-> Idle]
    /\ outdated' = (outdated \/ \E w \in Worker : At(w, "refund") \/ At(w, "credit"))
    /\ UNCHANGED <<items, clans, votings, closed, outcome, direct, stale>>

Request(s) ==
    \/ \E c \in Clan, i \in ItemId : (\E p \in Price : handleSellItem(s, c, i, p)) \/ handleBuyItem(s, c, i)
    \/ \E i \in ItemId, p \in Price : readToChangePrice(s, i, p)
    \/ \E i \in ItemId, status \in {"AVAILABLE", "SHIPPING"} : readToChangeStatus(s, i, status)
    \/ \E i \in ItemId : readToMove(s, i)
    \/ \E c \in Clan : readToUpdateAdPoster(s, c) \/ \E amount \in Amount : readToBuySlot(s, c, amount)
    \/ \E v \in VotingId : addVote(s, v)

Continue(s) ==
    \/ unstock(s) \/ startSellVoting(s) \/ addSellVotingJob(s) \/ commitSale(s) \/ cancelSale(s)
    \/ readToBuy(s) \/ buyDirectly(s) \/ handleBooking(s) \/ commitBooking(s)
    \/ addVotingCheckJob(s)
    \/ changeItemPrice(s) \/ changeItemStatus(s) \/ moveFleaMarketItemToStock(s)
    \/ buyStallSlot(s) \/ updateAdPosterByClanId(s) \/ cancelTransaction(s) \/ castVote(s)

Job(w) ==
    \/ \E v \in VotingId : process(w, v)
    \/ handlePassedBuyVoting(w) \/ handleRejectedBuyVoting(w) \/ readToRefund(w) \/ refund(w)
    \/ settleSellVoting(w) \/ settlePriceVoting(w) \/ finalizeVoting(w)

Next ==
    \/ /\ requests < MaxRequests
       /\ requests' = requests + 1
       /\ \E s \in Client : Request(s)
    \/ /\ UNCHANGED requests
       /\ \/ \E s \in Client : Continue(s)
          \/ \E v \in VotingId : handleVotingPassed(v)
          \/ \E w \in Worker : Job(w)
          \/ Stop

Spec == Init /\ [][Next]_vars
----------------------------------------------------------------------------
\* Items that are neither stored nor lost: their sale is under way.
OnTheirWay == {s \in Client : req[s].pc \in Moving}

\* No item is duplicated, and the only way to lose one is a sale that is cut off: the
\* moves between stock and market, however they meet, keep one document of each.
GoodsKept == Cardinality(Live) + Cardinality(OnTheirWay) + lost = Cardinality(Goods)

\* The purchases of a clan that took its coins and did not give them back.
PaidBy(c) == {v \in Stored : /\ votings[v].type = "BUY" /\ votings[v].clan = c
                             /\ outcome[v] \notin {"unpaid", "refunded"}}

\* Unless a clan was written from an old read, its coins are what it had less what it
\* bought at once, less the voted purchases that were not refunded, less the price of
\* the places its stall has more than at first: purchases, settlements, refunds and
\* changes of the stall, each of which writes more than it changes, lose neither.
CoinsKept ==
    \A c \in Clan \ stale :
        gameCoins[c] = Coins - direct[c] - MapThenSumSet(LAMBDA v : votings[v].price, PaidBy(c))
                         - SlotPrice * (maxSlots[c] - MaxSlots)

\* The job of the voting has run to its end.
Settled(v) == v \in closed \ jobs /\ \A s \in Slot : req[s].voting # v

\* Unless a request, the event or a job wrote over an item that had changed, or one was
\* released without the refund: when the job of a paid purchase is through, the clan has
\* the item or its coins, but for the items that the event gave to no stock before
\* ("adrift"), where the code does not do what the comment of handleVotingPassed says.
PaidIsAnswered ==
    outdated \/ \A v \in Stored : Settled(v) /\ votings[v].type = "BUY" =>
                    outcome[v] \in {"delivered", "refunded", "adrift"}

\* A purchase that decides about the item still has a way to be settled.
Timed(v) ==
    \/ v \in jobs \cup untimed
    \/ \E s \in Slot : req[s].voting = v /\ req[s].pc \in {"enqueue", "passed", "rejected"}

\* A booked item is never forgotten: the job of a purchase of it is pending, about to be
\* added or running, unless the server stopped before it was added.
BookedIsTimed ==
    \A i \in OnMarket : items[i].status = "BOOKED" =>
        \E v \in Stored : votings[v].type = "BUY" /\ votings[v].item = i /\ Timed(v)
=============================================================================
