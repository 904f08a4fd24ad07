# Altzone server: TLA+ models, checks and proofs

The server (`src/src`, NestJS) keeps documents in MongoDB, matchmaking and
presence in Redis, delayed work in BullMQ queues and a little state in memory.
Every handler is asynchronous: between any two awaited commands other requests,
jobs and timers run, on this process or on another one. That is what these
models are about. Line numbers below are of files under `src/src`.

## Components

| Component | State | Operations | What makes it correct |
|---|---|---|---|
| Matchmaking rooms (`matchmaking`) | Redis: room, player index, queue list, join lock, match; BullMQ: one opponent timeout per clan room | create, join, leave, send, start, cancel; timeout job | a player is in one active room; rooms are never over-full; a matched room stays matched and is used once; teams are complete and, in a clan match, of different clans; a queued room is in the queue and is answered |
| Matches (`matchmaking`) | Redis: match, leaderboard lock; players' and clans' points | startMatch, finishMatch | started when all are ready; paid once; finished is final |
| Jukebox (`jukebox`) | in memory: song queue and current song per clan; timers | add, remove, next song | what plays has a change of song ahead; songs played in order, each once |
| Voting (`voting`) | MongoDB: voting with votes, endsOn, endedAt; BullMQ check job | start, vote, finalize, expire, clean up | a vote counts once; the outcome is applied once |
| Clan shop (`clanShop`) | clan coins, stock items, votings | buy directly, buy by vote, outcome | coins are spent exactly when the item arrives; never negative |
| Flea market (`fleaMarket`) | market items and their status, coins, stock, stall | sell, buy, change price, outcome, stall places | an item is in one place; coins are conserved |
| Daily tasks (`dailyTasks`) | tasks per clan, reservation, progress; expiry job | reserve, unreserve, progress, delete, refresh | a reservation has a timer and ends; a reward is earned, and paid once |
| Clan, roles (`clan`) | members by player, playerCount, roles, admins | join, leave, transfer, governance | the counter equals the members; at most 30; an admin remains |
| Inventory (`clanInventory`, `itemMover`) | items, stock, soul home, rooms and their activation | move, activate, expire | an item is in exactly one place of its own clan |
| Testing sessions (`box`) | box with its stage, places and clans; tester accounts | create, configure, start, claim, reset, delete; midnight job | who gets a place gets a clan; a reset leaves nothing and frees the places; what is left is removed some day |
| Presence (`onlinePlayers`) | Redis: player status with lifetime, next queue number | set status, sort queue | numbers are distinct; first come, first in the sort |
| Friendship (`friendship`) | friendship documents | request, accept, remove | one document per pair |
| Game data (`gameData`) | battle documents; in-memory final call timer | receive result, resolve | a battle is rewarded once |
| Rewards, statistics, events | fields of players and clans | event handlers | follow from the callers |
| Chat, player, profile, auth, authorization, leaderboard, analytics, feedback, metadata, character classes, shop, admin, migrations | independent documents, logs, caches | CRUD, token signing, request filtering | per document |

Interactions: matchmaking pays players and clans and emits daily-task events;
shop, flea market, roles and governance start votings and hear of their outcome
twice, from the `voting.passed` event and from the BullMQ job; clan membership
decides who may join a clan room and how large the jukebox limit is. The hard
parts are read-modify-write across awaits (nearly everywhere), two ways to the
same outcome (events and jobs), lifetimes of related Redis keys, and MongoDB
writes that leave the session of their transaction. `PROJECT.json` lists them
line by line under `hazards`.

## Modules

| Module | Models |
|---|---|
| `MatchmakingRoom` | the records and the pure functions of `matchmaking.service.ts`: capacity, fullness, bots, teams |
| `Matchmaking` | all handlers of rooms up to the creation of a match, one Redis command per step |
| `RoomService` | the abstract service: the rooms alone, each operation in one step |
| `MatchLifecycle` | startMatch and finishMatch of one match, one awaited command per step |
| `Jukebox` | one clan's jukebox, one step per wait for the database |
| `Voting` | casting a vote, what it ends and the deadline; extended by the features that vote |
| `ClanShop` | extends `Voting` with purchases, transactions, the check job and the settlement of a voting |
| `Purchase` | the abstract shop: coins, purchases being voted on, items |
| `FleaMarket` | clans that sell, buy and reprice items, at once and by vote; the passed event and the check job |
| `DailyTasks` | the tasks of one clan, their reservations, timers, progress and rewards |
| `ClanMembership` | players, clans, the counter of members and the rooms of a clan's home |
| `BattleResults` | the results of one battle, its final call and its reward |
| `BattleQueue` | pings of waiting players, the wrapping queue number and the sorting of the queue |
| `TestingSession` | one box: its stages, the claims of accounts, resets and deletions, midnights and stops |
| `MCMatchmaking`, `MCMatchLifecycle`, `MCJukebox`, `MCFleaMarket`, `MCDailyTasks`, `MCClanMembership`, `MCBattleQueue` | constants and symmetry of the runs (those of the shop, of battle results and of testing sessions are all in their configurations) |
| `MatchmakingProofs`, `MatchLifecycleProofs`, `JukeboxProofs`, `ClanShopProofs`, `FleaMarketProofs`, `DailyTasksProofs`, `ClanMembershipProofs`, `BattleResultsProofs` | lemmas and theorems, each about the module in its name (those of the shop also about `Purchase`, those of matchmaking also about `MatchmakingRoom` and `RoomService`) |

Conventions. A *slot* (`Slot`, or `Client` and `Worker`) runs one request or job at
a time; `req[s]` holds where its handler is (`pc`) and everything the handler
has read into local variables: that is how stale data enters. The action named
like an endpoint ends at the handler's first awaited command, and each later
step is one awaited command and the code up to the next. A handler that returns
early goes back to `"idle"`. Authorization, validation and notifications are
left out. Where the code lets a race do harm, the model takes that step too and
marks it in a history variable (`raced`, `stale`, `shared`, ...), and the property claims
nothing once it is marked: it does not cover that race. All of these are in the table
"What the properties leave out" below. Definitions whose names begin with `Mut` are mistaken variants of the
definition after them: each property is known to fail with one of them.

### Matchmaking

`invites`, `playerInvite`, `queue`, `joinLock` and `matches` are the Redis keys of
the same names (`matchmaking.service.ts` 1902-1920). Endpoint actions are
`createInvite`, `joinInvite`, `leaveRoom`, `sendInvite`, `startRoom`,
`cancelInvite`, and `handleClanOpponentTimeout` for the job. Commands that the
code sends together (`Promise.all`) are one step: Redis runs them without another
client of this process in between on the same connection.

Abstractions: participants are players and `Bot`, ids are model values, a queue
contains no repetitions (`LREM 0` removes all copies), the accepted bodies of
create are the set `Bodies`. `ClansOf[p]` are the clans p may be in, one at any time: a create of a
clan room, and a join of one, reads the player's clan (`MayJoin`) and finds any of them, since the
player may have changed clans since the last request. Nothing reads it again, so the members of a room,
and of a match, were in its clan when they entered the room, and may be in another one by the match. Key lifetimes are the actions `ExpireRoom`,
`ExpireIndex` and `ExpireLock` (of any lock, or with `"orphan"` only of locks whose
holder stopped); room and index entries have the same lifetime, so
the index entry of a player lapses before the room only when the room was stored
again later (`lapsing`). `Crash` stops a request between two commands. BullMQ
runs a stalled job again and ignores a job whose id it still holds.

`Handlers` names the endpoints clients call, `Expirable` the kinds of keys that
lapse. `Parallel = FALSE` keeps a player to one request at a time. Rooms and
matches cannot exceed `Room` and `MatchId`: a create that would need more is not
taken (`RoomsLeft`), a request that would need more matches waits.

### RoomService

What a client may rely on if requests did not overlap: creating or joining a room
requires having no other; only full rooms are queued and matched; a matched room
changes no more. `Matchmaking!ImplementsService` is the refinement, with `rooms`
mapped to `invites`. It is checked of requests that do not overlap
(`MatchmakingOneByOne`), which the server does not ensure. When players only create and join, each with one request at a time,
it holds with any overlap of different players, because of the join lock (`JoinsExclude`). With overlapping leaves
and starts it does not: see below.

### MatchLifecycle

One match, its `match` key and the leaderboard `lock`. `paid`, `clanPaid` and `tasks`
count what each player and clan received, `confirmed` and `published` whose start
was answered and what was announced. finishMatch applies a list of effects
one by one (`FinishEffect`), each of which may fail (`FinishFails`): the error leaves
the lock in place, so a retry pays again only after the lock has lapsed. `raced`
records that a handler stored the match over a version it had not read, `lapsed`
that the lock lapsed with the match unfinished; the properties that hold only
without these say so, and the tables below say what happens with them. Requests
are taken until something has been paid or published `Bound` times.

### Jukebox

The service keeps a Map from clan to a jukebox object and goes on using the
object it read after awaits, so an object that is no longer stored may still be
written. `heap` holds the objects (`Box` are their identities), `stored` the one in
the Map, `timers` the songs whose `setTimeout` is pending. Only the database makes
a request wait long enough for others to run: awaits of functions that do not
wait themselves resume before the next request or timer, so the steps of an add are the
read of the jukebox (`addSong`), the answer about the clan's size (`Refuse`, `Enqueue` or
`Play`) and, for a song that plays at once, the end of its daily-task event (`StartTimer`). Songs are numbered as they are
added and at most `MaxSong` are. `Limits` are the numbers of songs a player may
have, by the clan's size.

A song may end at any step of an add. Most of what that does is harmless: an object that is put
back over another keeps a timer. A request that has read an object with a current song waits for
the clan's size, meanwhile the last song ends and the object leaves the Map, then the request queues its
song behind the one that is over and stores the object: no timer is pending and no add will
set one, because the object has a current song (62-105, 133). `revived` marks this, and `Driven` excepts it.
With `Parallel = FALSE` a player has one request at a time; two adds
of one player in flight are both compared with the same count and exceed the limit.

### Voting and ClanShop

`votings` are the documents, `due` the votings past `endsOn`, `jobs` the check jobs in
BullMQ (delayed until then). A vote is read (374), saved whole (398), read
again (406) and, if the yes votes pass, finalized; the `voting.passed` handler then
continues in the vote's slot as `checkVotingOnExpire`, which the check job calls,
too. `playerCount` is chosen from `Sizes` and stays.

A transaction is its outcome at `commitBuy` or `commitVerdict`, and its first write to
the clan document, at which MongoDB lets it fail if another open transaction has
written the clan: `writer` is the slot that has. The voting is ended outside
the transaction (`endVoting`). `failed` are the votings whose settlement was cut off: the
server stopped where nothing takes it up again (`Exposed`), or the refund met a
write conflict, whose result the job ignores. Commits do not fail otherwise.

All items cost `Price`, at most `MaxItems` are bought directly, and there is one
purchase by vote in the run: direct purchases are its competitors for the coins
and for the clan document. `MaxCrashes` bounds the stops of the server, which the
liveness property needs.

Votes, deadlines, the event and jobs overlap as they like. `shared` are the votings on which two
slots were at work at once (`Handling`): two votes, the later of which writes over the earlier one (398 writes the list read at
374), two that both see the voting pass, or a vote and the job. The code separates none of them and such a
voting may be settled twice or against its votes. `rivals` says that two purchases overlapped: the coins are
compared with the price before the transaction (162), so the clan may get into debt.

`Purchase` is the abstract shop, and `ImplementsPurchase` maps a stored voting that is
not settled to an open purchase. It asks that every step up to the first one that makes a voting `shared` or
purchases `rivals` is a step of the abstract shop.

### FleaMarket

`items` are the stock and market documents together: a sale or purchase makes a new
document under a new `_id` and deletes the old one, so an item has a `status` on the market
and none in stock. `clan` is whose it is, `Nil` for a stock item without a stock. The
steps of a sale are `handleSellItem`, `unstock`, for a sale by vote `startSellVoting` and `addSellVotingJob`,
then `commitSale` or `cancelSale`; of a purchase `handleBuyItem`, `readToBuy`, then `buyDirectly`, or
`handleBooking`, which stores the voting outside the transaction (822), `commitBooking`, which books the item and takes the
coins, and `addVotingCheckJob`. A booking that does not commit leaves its voting, which may be voted on like any other; of a price change `readToChangePrice` and
`changeItemPrice`; `changeItemStatus` and `moveFleaMarketItemToStock` are the owner's other
requests. A clan buys places for its stall (`readToBuySlot`, `buyStallSlot`, `Amount` at a time)
and changes its ad poster (`readToUpdateAdPoster`, `updateAdPosterByClanId`). Votes are abstracted: a voting passes by event when its votes suffice
(`castVote`, `handleVotingPassed`), where the code counts the votes again against a clan that may have grown (524), so either
outcome is possible (`DeliverOnEvent`, `ReleaseOnEvent`); and its job (`process` and the steps after it) settles it with one
of the outcomes the votes may have. The event's parameters have neither clan,
price nor stock (`fleaMarket.service.ts` 305), so only the job can refund, and what the
event buys has no stock (`adrift`) and no way back: the coins stay spent. The seller is never paid. `reserveFunds` writes the clan as it was read,
its stall included; the ad poster is written with the places its stall had when it was read.
`checkClanItemSlots` counts what is on the stall, and its read fails when there is nothing.
`ItemId` and `VotingId` bound the documents: a step that needs a new `_id` is taken only while one is free.

History: `outcome` of each voting (`delivered`, `adrift` without a stock, `refunded`, `void`
when coins or item are gone; `unpaid` before a booking commits), `stale` the clans whose coins or stall were written from an old read,
`outdated` that something was done to an item that had changed since it was read,
`lost` the items deleted for a sale that was cut off, `untimed` the votings without a job
because the server stopped.

### DailyTasks

`tasks` maps each `_id` in use to its document, `jobs` are the timers. A reservation
reads the task (`reserveTask`), opens its transaction (`startTransaction`) in which it gives
back the player's other task and writes the copy it read (`commitReservation`), and adds
the timer after the commit (`addDailyTask`). The unique sparse index on `player_id` refuses a commit
that would give a player two tasks (`UniqueHolder`). A timer knows the `_id` only
(`handleExpiredTask`) and may fail, once, as BullMQ does not try it again (`failExpiredTask`). `updateTask`, `updateUITask` and `updateClanTask` make progress,
`unreserveTask`, `relinquishTaskById` and `Replace` give back or replace, `resetDailyTasks` is midnight.
Progress and completion are one step each: `findOneAndUpdate` takes the step and marks the last one
rewarded, and what follows is in the same transaction.
A motto task has one step; the timer of a task with more, of which the task has taken the `_id`, fills it up with those (`mistimed`).
`updateClanTask` then takes one of several steps and answers as if the task was finished, and
`handleClanDailyTaskEvent` (784-788) pays the clan: once for each change of the motto (`ClanStep`).
`done` and `paid` count the steps and rewards of a task, `wrong` what a reward was: `"again"`, `"early"` or `"unfinished"`.
`startedAt` is a number of a reservation instead of a time; durations are equal.

### ClanMembership

`clans` has the counter, the founder and the numbers of active and inactive rooms, `clanOf` the
`clan_id` of players. joinClan, leaving (`leaveClan`, `excludePlayer`, `removePlayerFromClan`), `createOne`
and deletion are transactions and take one step after what is read before them. A
player who joins another clan leaves the old one outside the transaction (`join.service.ts` 104-126): the
clan is deleted if the count read was at most one (`readOldClan`, `deleteOldClan`), otherwise the
counter is read (`readCount`) and written (`decreaseByIdOnOne`). A new player enters a clan with room or a new one
(`findClanForNewPlayer`, `createAndJoinExpeditionClan`), a deleted player leaves by the
event (`readToDelete`, `deletePlayer`).

`drifted` are the clans for which a race counted or deleted wrongly: the counter was
written from an old read, a departure happened twice or the join after it did not happen.
`CountIsMembers`, `RoomForEach` and `NobodyEvicted` claim nothing of them, `MembersHaveClan` does.

### BattleResults

The battle document is four variables. A request reads it and saves later (`handleBattleResult`,
`save`); Mongoose pushes the new result and writes only the fields it changed, so
two requests never lose a result but may write a status computed from an old copy
(`stale`). The final call (`startFinalCallTimer`, `resolveConflict`) takes the majority, team 1 on a tie.
`rewardCompletedBattle` claims the reward with a filter on `isRewarded` in its transaction,
which may fail (`Failures`) and is tried again by the next result. The save of a result may fail after its
final call was started (543-550): the call stays and finds the battle without it (`saveFails`, in `timers` as `Nil`). A
final call that fails rejects a promise nobody handles, which is a stop of the process (`Stop`). `MaxFaults` bounds both together.

### BattleQueue

`next` is the counter in Redis, `online` the entry of each player. A ping of a waiting player
reads the entry, draws the counter, increases it with a second read and a store, and stores
the entry. `sortPlayersByQueueNumber` is the code's algorithm over any order in which
Redis may list the keys; `age`, the draws since one's own, is the reference order it is
compared with. `raced` records that a ping stored the counter although another one had drawn in between;
from then on numbers repeat, nothing is claimed and no ping starts.

### TestingSession

`box` is the box document, `clans` the clans of each session, standing for their homes,
stocks and tasks too, `testers` the players stored. The profiles of testers are left out: they
expire by themselves an hour after they were made. Starting a session is one
transaction that writes the box it read, so `start` is its commit. A claim reads the box
by its password (`claimAccount`), takes a place by its `_id` (`takePlace`), makes the
player in a session of its own (`createTester`, which fails if the name was taken meanwhile, `failTester`),
checks player and clans (`validate`) and puts the player into the least filled clan (`addTesterToClan`).
Reset and deletion read the box (`reset`, `deleteBox`, or `resetTestingSessions` at
midnight), then empty one registered collection after the other (`clearBoxCollection`), each in a session
of its own (`Remove`, `Proceed`); a reset goes on with the players other than the admin's (`clearTesters`) and the
box (`updateBox`). A removal may fail, and is repeated or leaves its documents (`removalFails`): the other collections are
emptied still, a reset then ends without its later steps, which may fail, too (`resetFails`). `MaxFaults` bounds these failures and the stops together. A box's times are only `new`, a `week` old and a `month` old.

History: `alone` is the reset nothing has overlapped so far, `clean` says that nothing was
started or claimed since such a reset was done, `spoiled` are the sessions that were
reconfigured, or with which a reset or deletion was in flight, `cut` that a deletion
was stopped after the box was gone, or that a start or the making of a player overlapped one.

## Runs

| Run | Shows | Instance |
|---|---|---|
| `MatchmakingOneByOne` | requests and timeouts that do not overlap: refinement of `RoomService`, index and queue agree with the rooms, nobody waits for a match that exists, a room is used once, one room per player | 3 players of 2 clans, 3 rooms, 2 matches; random, clan and custom rooms, teams of 1 and 2 |
| `MatchmakingOneRoom` | two overlapping requests on one room, also of one player, with crashes and expiring keys: sizes, teams, joins exclude each other | 2 players, teams of 2 with bots or 1 against 1 |
| `MatchmakingClanRaces` | two clients and the timeout worker race to match clan rooms: clans meet other clans, every queued room is answered | 2 players, one of whom changes clans, 2 clans, 2 rooms |
| `MatchRaces` | two requests race to start and finish a clan match, with failures, crashes and lapsing locks: payment, the announced start | 1 against 1, 2 slots |
| `JukeboxSongs` | what is stored keeps playing (`revived` excepted), in order, each song once | 2 players, 2 requests, 5 songs |
| `ShopPurchases` | where no two handle a voting at once each purchase by vote is settled once, as the clan decided, and eventually; until then, and until purchases overlap, coins follow the items | 3 voters of a clan of 3 or 4, 1 voting, 2 items, 1 crash |
| `FleaMarket` | no item is doubled, coins are those of the purchases and of the stall's places, a paid purchase by vote is answered, booked items have a settlement ahead | 2 clans, 4 requests (2 at a time), 2 votings, 1 item, 1 stall place at a time, 1 stop |
| `DailyTasks` | every reservation has a timer and is released, rewards are earned and paid once | 2 players, 3 tasks, 2 reservations, 1 midnight, 1 stop or failed timer |
| `ClanMembership` | counter and members agree, nobody is in a clan that is gone or is cast out, a room for each member | 3 players, 2 clans of at most 2, 5 requests (2 at a time), 1 stop |
| `BattleResults` | rewarded once, for the winner of the results, and conflicts are settled | teams of 2 and 1, 2 requests, 1 final call, 1 stop or failed save |
| `BattleQueue` | who drew first is first in the queue | 3 players, 2 pings, numbers 0 to 5 |
| `TestingSession` | who gets a place gets a clan, a reset starts afresh, leftovers are removed some day | sessions of 1 or 3 testers, 2 sessions, 3 claims (2 at a time), 2 requests of the admin, 1 stop or failed removal |

Why this size: a second room of a player needs one more room, a missed opponent two
queued rooms, a wrong pairing three; every race found in these handlers needs two
requests, a lost join two joins and the room's creation. Five songs fill two
players' limits and let a jukebox end and start anew. A clan of four tells a
majority of the votes from one of the members. On the flea market two clans compete for one item,
and a purchase, a price change and a late vote on it need two votings, and
a clan that buys places for its stall meanwhile needs two requests at once. Two clans of two tell a
transfer, an eviction and a full clan apart; six requests without stops pass as well. Two
against two pass in `BattleResults` without stops (14.4 million states). Of six
numbers three players use fewer than half, the range in which the order is defined;
10000 numbers differ only in how many players fit. Three testers are the least for which
the two clans of a session differ in size, and two sessions the least in which the
second meets what the first left.

Each module's `TypeOK` was checked in its run's instance; no run names it, the
properties that relate states take its place. Of `Matchmaking`, `MatchLifecycle`, `Jukebox`, `ClanShop`,
`FleaMarket`, `ClanMembership` and `BattleResults` it is proved (below).

Deadlock is not checked: the systems may stop when no room, song, purchase or
match is left to ask for and nothing is in flight.

### Fairness

Clients are never obliged to call anything.

- `Matchmaking!FairSpec`: a request that runs goes on (Node.js resumes an awaiting
  handler) and a due job is taken (BullMQ). `ClanRoomAnswered` uses both: the room of
  a clan gets an opponent or bots, or is withdrawn.
- `ClanShop!FairSpec`: the same of slots and jobs, and time passes (`Deadline`).
  `EverySettled` says that a purchase that was voted on is settled unless its settlement was cut off.
  It holds although the event handler, the job and the votes overlap.
- `DailyTasks!FairSpec`: a due timer runs (BullMQ) and a reservation that runs goes on.
  `HeldReleased` says that every reservation ends unless a stop lost its timer.
- `TestingSession!FairSpec`: a request goes on, time passes, and a midnight comes when a box is
  old (the scheduler's cron job). `LeftoversRemoved` says that what a session stored is
  removed some day, also after a stop in the middle of a reset, unless a deletion was cut.
- `BattleResults!FairSpec`: a request goes on and a final call fires (`setTimeout`), unless the server stopped.
  `ConflictSettled` says that a battle in conflict is completed.

### What the properties leave out

The code does not prevent the following, so no property holds of it. Each is taken by the model
and marked in the history variable named, or kept out by the instance; it is not covered.

| Property | Says nothing once, or because | In the code |
|---|---|---|
| `IndexAgrees`, `QueuedAreListed`, `NobodyWaitsInVain`, `UsedOnce`, `OneRoomPerPlayer`, `ImplementsService` | one slot: requests do not overlap, keys do not lapse, a cancelled room is not cancelled again | two starts match the same rooms or miss each other (`matchmaking.service.ts` 851-860), a scan drops a room (832), a leave overwrites a match (340), an index entry lapses (1882), a second cancel removes the index of a newer room (549) |
| `ClansMeet` | the clan is that of the moment a player enters the room | members' clans are not read again at the match (880-903): a member may have left by then, even for the opponent's clan |
| `ClanRoomAnswered` | the run has no joins, so a room is queued once | a timeout asked for while the one before is processed is ignored (`matchmaking.queue.ts` 37) |
| `JoinsExclude` | locks lapse only when their holder stopped | a join slower than its lock (264-270) |
| `PaidOnce` (matches) | `lapsed` | a retry after the lock has lapsed pays again (593, 624) |
| `UnracedStarts` | `raced` | of two ready lists read at once one is lost (698) |
| `Driven` | `revived` | an add stores an object whose last song is over (`jukebox.service.ts` 62) |
| `OutcomeFollowsVotes`, `SettledOnce` | `shared` votings | lost votes (`voting.service.ts` 398), two passes (433), event and job at once (`clanShop.service.ts` 287) |
| `EverySettled`, `SettledOnce` | `failed` votings | a stop before the job is added or after the voting ended (193, 269), a cancelled refund (265) |
| `ImplementsPurchase` | `shared`, `rivals` | coins read before the transaction (162) |
| `GoodsKept` | counts `lost` | a stock item deleted outside the session of its sale (`fleaMarket.service.ts` 348) |
| `CoinsKept` | `stale` clans | writes from an old read (667, 784; `stall.service.ts` 162) |
| `PaidIsAnswered` | `adrift` items, `outdated` | what the event buys is in no stock and not refunded (305); a price change that is settled twice (914), an item released by event, writes over an item that has changed |
| `BookedIsTimed` | `untimed` votings | a stop between the booking and its job (434) |
| `RewardEarned`, `PaidOnce` (tasks) | `mistimed` | the timer of an earlier task of the `_id` (`dailyTask.queue.ts` 53, 61) |
| `HeldIsTimed`, `HeldReleased` | `untimed` reservations | a stop before the timer is added, or a timer that fails |
| `CountIsMembers`, `RoomForEach`, `NobodyEvicted` | `drifted` clans | counts written or acted on after an old read (`join.service.ts` 106, 117, 182) |
| `FollowsResults` | `stale` | a status from an old copy (`gameData.service.ts` 550) |
| `ConflictSettled` | `stops` | a restart forgets the final call (801) |
| `FirstComeFirst` | `raced` | a number drawn twice (`battleQueue.service.ts` 41) |
| `EveryPlaceFits` | `spoiled` sessions | reconfigured, reset or deleted during a claim |
| `ResetIsClean` | `alone` | a claim or start during the reset |
| `LeftoversRemoved` | `cut` | a deletion that stops, or fails, after the box is gone |

Two players may reserve one task at once, and the second takes it from the first (`dailyTasks.service.ts` 115-130): the
model has it, no property is about it.

### Where code and documentation disagree

No run is violated on purpose. The models show the following when a
condition of a property is dropped or a constant widened, and as outcomes named above:

- A leave that read the room before it was matched stores it back as an open room
  (`matchmaking.service.ts` 283-340; doc/matchmaking-api.md 180 excludes it).
- Two starts that scan the queue at once match the same rooms (851-865; two clients in `MatchmakingOneByOne`),
  and a scan drops a room between its push and its save (831-835).
- A join slower than its lock erases another join (264-270; `"lock"` in `Expirable`); cancelling a
  cancelled room removes the index of a newer one (549; `"recancel"`); an early member's index entry
  lapses while the room lives (1871-1888; `"index"`).
- A new timeout is ignored while the old one runs (`matchmaking.queue.ts` 37), and one that failed
  blocks every later one of its room (42).
- Rooms of different client versions meet (1914), although `createMatchmakingInvite.dto.ts` 95 promises separate pools.
- Two startMatch calls that read the same list lose one player's readiness, and the match is never
  announced (677-698; doc/matchmaking-api.md 250). startMatch stores a finished match as active.
- A retry after the leaderboard lock has lapsed pays again (593, 622-624; `PaidOnce` without `lapsed`).
- An add that read the jukebox before its last song ended stores an object that nothing
  drives (`jukebox.service.ts` 62-105; `revived`).
- The second yes of a clan of four ends a voting that is then refunded (`voting.service.ts` 422);
  overlapping votes and purchases lose votes and coins.
- A motto task that an old timer gave several steps is paid at each change of the motto: `handleClanDailyTaskEvent` (784-788) does not look
  whether `updateClanTask` finished the task (`dailyTasks.service.ts` 434-440).
- Two members that read the same free task both reserve it, and the second takes it from the
  first, although the endpoint's text says that a reserved task cannot be taken (`dailyTasks.service.ts` 115-122).
- A purchase that the clan votes for before its time is over is settled by the event, which knows no
  stock, and the item is in none (`fleaMarket.service.ts` 305; `adrift`); the comment at 289-292 says that actions
  of the flea market are applied as soon as the votes suffice. The job finds the voting settled.
- The voting of a purchase is stored before the booking commits and outside its session (`fleaMarket.service.ts` 822, 832): if it does
  not commit the voting stays, and when it passes the item is taken although nothing was paid.
- The passed event counts the votes again (524): in a clan that has grown the item is released and nothing refunded.
- A late vote, read before the deadline and cast after the job, releases or loses an item booked by another; the job of a
  price change that passed by event makes a booked item available again; a stop between the
  release of an item and the refund, and the job that is run again, refunds twice or not at all.
- A purchase on the flea market writes the stall as it was read, and so does a new ad poster: places that the clan
  paid for meanwhile are gone (`fleaMarket.service.ts` 784, `stall.service.ts` 162; `stale`).
- `status.enum.ts` says an item is `SHIPPING` while it waits on the stall to be bought and `AVAILABLE` before; the code
  sells what is `AVAILABLE`.
- Two clients that leave the same clan at once count one departure twice; the sole member who joins
  the own clan deletes it and the join fails; who enters a clan while its last member leaves is cast out.
- The deletion of a player goes on when its clean-up failed (`AddBasicService.decorator.ts` drops the error), so the
  refusal of `player.controller.ts` 189 to delete the last admin never takes place.
- A result sent while another completes the battle turns it back into a conflict
  (`gameData.service.ts` 550), and two submissions of one player at once both count.
- Two pings that draw at once share a queue number, and a late store takes the counter back
  (`battleQueue.service.ts` 41, 143).

- A claim that finds no place is told that the admin can raise `testersAmount` (`accountClaimer.service.ts` 69-70);
  during a session that does not help, because the clans' `boxMemberLimit` is fixed at its start, and
  the new tester stays without a clan (`EveryPlaceFits` without `spoiled`).
- A claim that fails keeps its place (53-73), and one in flight during a reset leaves a player or
  takes a place of the next session (`ResetIsClean` without `alone`); a start overlapped by a reset leaves its clans.
- A deletion that stops after the box document is gone leaves the rest for ever, since midnight looks for boxes
  (`box.service.ts` 352-363; `LeftoversRemoved` without `cut`). The comment of `box.scheduler.ts` speaks of a stage END;
  the code goes by the times.
- A box that could not be created is to be cleared of all its data (`boxCreator.ts` 79-101); `reset` of a box that
  is not stored returns NOT_FOUND before it removes anything (`box.service.ts` 259-260).

## Proofs

Proved for every finite or infinite set of players, clans, rooms, matches, objects and slots
(of the flea market the goods at the start are finite, since they are counted), with all handlers,
crashes and expiries, any overlap the constants allow and the exceptions of the table above, which are part
of the properties (the hypotheses that remain are written out):

| Theorem | States |
|---|---|
| `MatchmakingProofs!TypeCorrect` | `Spec => []TypeOK` |
| `MatchmakingProofs!RoomsAlwaysFit` | `Spec => []RoomsFit`: rooms are never over-full nor hold a player twice, and are queued or matched only when full |
| `MatchmakingProofs!TeamsAlwaysFull` | `Spec => []FullTeams`: both teams of a match are complete |
| `MatchmakingProofs!ClansAlwaysMeet` | `Spec => []ClansMeet`: the teams of a clan match are of two clans, of which their players were members when they entered |
| `MatchmakingProofs!JoinsOfARoomExclude` | `"lock" \notin Expirable => (Spec => []JoinsExclude)`: two joins never work on copies of one room |
| `MatchmakingProofs!OneRoomEach` | `ImplementsService => []OneRoomPerPlayer`: what implements the abstract service has one room per player |
| `MatchLifecycleProofs!LifecycleTypeOK` | `Spec => []TypeOK` |
| `MatchLifecycleProofs!FinishedPaysAll` | `Spec => []FinishedIsPaid`: a stored result was paid in full, for the winner stored |
| `MatchLifecycleProofs!PaysOnce` | `PlayersDiffer => (Spec => []PaidOnce)`: nobody is paid twice, if the lock outlives a call that failed |
| `MatchLifecycleProofs!StartsWithTheLast` | `RealPlayers # {} => (Spec => []UnracedStarts)`: a match starts with its last player, once |
| `JukeboxProofs!JukeboxTypeOK` | `Spec => []TypeOK` |
| `JukeboxProofs!JukeboxDriven` | `Spec => []Driven`: what is stored has a current song and, unless `revived`, a timer pending or about to be set, although songs end during adds |
| `JukeboxProofs!JukeboxOrder`, `!JukeboxPlaysOnce` | `Spec => []InOrder`, `Spec => []PlayedOnce`: songs are queued in the order in which they were added, after the current one, and no played song waits again |
| `ClanShopProofs!ShopTypeOK` | `Spec => []TypeOK` |
| `ClanShopProofs!SettledExactlyOnce` | `Spec => []SettledOnce`: a voting that is not `shared` is settled at most once, and an ended one is or will be, unless its settlement failed |
| `ClanShopProofs!OutcomeIsTheVote` | `Spec => []OutcomeFollowsVotes`: of a voting that is not `shared`, the item comes with a majority, the refund without one |
| `ClanShopProofs!ShopImplementsPurchase` | `Spec => ImplementsPurchase`: every step is one of `Purchase` until a voting is `shared` or purchases are `rivals` |
| `ClanShopProofs!CoinsConserved` | in the abstract shop coins, open purchases and items make up the coins at the start, and no debt arises |
| `ClanShopProofs!ShopCoinsConserved` | the same of the shop itself while no voting is `shared`, purchases overlapping or not; debt only with `rivals` |
| `FleaMarketProofs!FleaMarketTypeOK` | `Spec => []TypeOK` |
| `FleaMarketProofs!GoodsAreKept` | `Spec => []GoodsKept`: items are not duplicated, and those missing are `lost` |
| `FleaMarketProofs!BookedAreTimed` | `Spec => []BookedIsTimed`: a booked item has a purchase that will be settled, unless a stop lost its job |
| `FleaMarketProofs!CoinsAreKept` | `Spec => []CoinsKept`: a clan's coins are what it had less what it paid for, unless it was written from an old read |
| `FleaMarketProofs!PaidAreAnswered` | `Spec => []PaidIsAnswered`: a settled purchase by vote has its item or its coins back, unless the item is `adrift` or was `outdated` |
| `DailyTasksProofs!ReservationsAreTimed` | `Spec => []HeldIsTimed`: a reserved task has the timer of its reservation |
| `DailyTasksProofs!TaskRewardedOnce` | `Spec => []PaidOnce`: a second reward, or one for an unfinished task, needs a timer of an earlier task |
| `DailyTasksProofs!RewardsAreEarned` | `Spec => []RewardEarned`: unless `mistimed` a reward is for all of the task's steps |
| `ClanMembershipProofs!ClanTypeOK` | `Spec => []TypeOK` |
| `ClanMembershipProofs!PlayersHaveTheirClan` | `Spec => []MembersHaveClan` |
| `ClanMembershipProofs!CountsMembers` | `Spec => []CountIsMembers` |
| `ClanMembershipProofs!HomesHaveRoom` | `Spec => []RoomForEach` |
| `ClanMembershipProofs!NobodyIsEvicted` | `Spec => []NobodyEvicted` |
| `BattleResultsProofs!ResultsTypeOK` | `Spec => []TypeOK` |
| `BattleResultsProofs!BattleRewardedOnce` | `Spec => []RewardedOnce` |
| `BattleResultsProofs!BattleFollowsResults` | `Spec => []FollowsResults` |

The argument in each: one lemma per pure function (what `recalculateInvite`,
`WithPlayer`, `WithoutPlayer`, `createCustomTeams` preserve) or kind of write, one lemma per action, one case
per disjunct of `Next`. None of these properties is inductive alone. What each needs:

**Rooms.** Rooms are written from snapshots: `IInv` adds
that the snapshot in every request, and every snapshot of a candidate opponent,
fits (`ReqOK`), with what the `pc` guarantees about it: a join snapshot had a free
place and not the player, a leaving player's room has another member, rooms to be
queued are READY. `FullTeams` follows from the same invariant: a match is made from
snapshots that are full and of one team size. `ClansMeet` needs the same of clans (`ClanInv`):
every player of a stored clan room, and of every snapshot of one, may be in its clan, and
a candidate opponent in a request is of another clan than the request's own room.
`JoinsExclude` is an outcome of `JoinsLocked`: a join that has read its room holds the room's lock, under its
own name, or its server has stopped. `OneRoomPerPlayer` is proved of the
abstract service (`ServiceInv`), whose steps a refinement inherits.

**Matches.** `PaidOnce`: while the lock has not lapsed on an unfinished match, a request that still has effects to
apply is the only one, its list has no effect twice, and none of the list was applied
before (`LockGuards`); a free lock means that nothing was paid yet or that the match is finished and
no request runs, and no new one begins, because startMatch and finishMatch refuse a finished match. `PlayersDiffer` says that no
player is in the match twice: the code pays a player once per place in the teams, so the
theorem needs it, and `RoomsFit` and `OneRoomPerPlayer` are what it rests on when the match is made.
`FinishedIsPaid`: a paying request has applied every payment for its
winner but those still in its list (`PaymentInv`); this holds also when the lock lapses and calls
overlap. `UnracedStarts`: while no request has stored over a newer match, everybody whose
startMatch returned is in the match's `ready`, and a match that has not started was not published (`Started`);
`RealPlayers # {}` because a match without players would be ready before anybody calls.

**Jukebox.** `Driven` is strengthened by the requests that have started an object's first song and will
store it (`DrivenInv`): such an object plays, and what is stored has a change of song ahead or a request that sets one. The
step it turns on is `Enqueue`: storing an object over another keeps the other's timer, storing one where none is makes `revived` true. `InOrder`
needs that songs are numbered by `owner`, that an object without a current song has no queue,
that no two objects share a song and that nothing played is queued (`SongsKnown`,
`PlayedOnce`); one lemma (`OrderStep`) covers every way an object is written.

**Shop.** `SettledOnce` is an outcome of `ShopInv`, all of whose parts speak of votings that are not `shared`: the voting of a purchase that is not committed is
known to its request only; a voting on which a vote is being saved is open and no other slot handles it; a slot that settles a voting is
the only one, a request does so with an ended voting and a job with one past its time; what is settled is ended (`SettledEnded`),
and an ended voting has its settler, its settlement, or failed (`EndedSettles`). A step that brings a second slot to a
voting makes it `shared` (`NoteShares`), so the proof of each action assumes that there is none. `OutcomeFollowsVotes` needs besides that whoever is to settle
a voting has its votes as they are stored (`CopiesAgree`). For the refinement of `Purchase` a purchase in
flight is the only one and finds its coins, until purchases are `rivals` (`BuyInv`).
`ShopCoinsConserved` does not need that: a commit takes the price whatever was read, so overlapping purchases bring debt but
lose nothing.

**Flea market.** `GoodsKept` counts: stored items, those between deletion and creation in a
request, and the lost ones are the goods at the start, and no two requests are on their way
with one item. `BookedIsTimed` and `PaidIsAnswered` need what a stored purchase knows: an item that is booked, and was not
written over from an old read, has exactly one holder, an open purchase of the clan that
paid (`OneHolder`), whose job is pending or running; a voting whose booking has not committed may be voted on but is nobody's holder yet; and each settled purchase has its item,
its refund, or an item that the event gave to no stock. `CoinsKept`, with finitely many votings stored and no outcome of a voting
that is not (`Ledger`), is inductive: a booking adds one price to the sum of what its clan paid, a refund takes one away, and
whoever writes the clan's coins or stall either had read them as they are or makes the clan `stale`; a second refund of a
purchase does so too. That a sum changes by one price when a voting is added (`TotalAdd`) would be an
induction over the set; it is proved of the library's sum from a smallest set for which it fails (`SmallestSet`), which
needs no induction theorem.

**Daily tasks.** `HeldIsTimed`: a commit leaves its request with the timer still to add, and only the timer of the reservation itself, a stop or a failure
takes it away (`TimersKept`); an earlier timer that fires frees the task, which ends the reservation. `RewardEarned`: until a timer of an earlier task filled one up (`mistimed`), of every task the steps done and
the steps left make up its amount, and a task nobody holds is whole; so is the copy a
reservation writes although it was read before the transaction began (`Sound`, `Knows`). `PaidOnce`: a task that was
rewarded is marked so, and the mark survives reservation and expiry; a reward that leaves the task with steps presupposes one with several
steps left where its kind has one, which only `mistimed` makes.

**Clans.** `MembersHaveClan` holds because the transactions that store a player's clan read the clan in the same
transaction, and the one that deletes a clan clears it of its players. `CountIsMembers` needs to know of everybody on
the way: whoever was counted out of a clan to join another is a member of the first until
the join, and is so once (`MembershipInv`); of a clan for which that fails the property claims nothing (`drifted`).

**Battle results.** `RewardedOnce`: the reward is claimed by a filter on `isRewarded` in its transaction. `FollowsResults`
needs that, while no old copy was saved, the status is what the stored results give.

Assumptions are those of the modules, which TLC evaluates in each run: `Bot` is no player; `Nil` and the marks of absence are no
player, clan, room, match, slot, object or record (MongoDB's null, a missing key; `AbsentAssumption`
makes a stored document differ from none); the constants are of the
right kind. Hypotheses of single theorems are in the table.

Only model-checked:

- the properties of `MatchmakingOneByOne`: they hold of requests that do not overlap, which the code does not
  ensure, so a theorem about every instance would be one about a server that this one is not;
- all liveness (`ClanRoomAnswered`, `EverySettled`, `HeldReleased`, `ConflictSettled`, `LeftoversRemoved`), which is
  beyond the prover, as is fairness;
- `FirstComeFirst`, whose sort and folds the library defines by recursion, which the prover cannot unfold;
- `EveryPlaceFits` and `ResetIsClean`: their inductive invariants are not written yet.

## Not modelled

Of the modelled parts: read-only endpoints, notifications, a rejected Redis command, the failure of a
commit other than by a crash, the cleanup of ended votings, the daily choice of shop
items, the amounts of rewards and the clan's milestones, and the older
endpoint for battle results (`handleResultType`). Of the clan: roles, governance, admins after the
founder, legacy rooms, items in removed rooms; their votings branch in `addVote` at the same place as the modelled ones.

Of testing sessions: making a box with its admin, deprecated predefined tasks, and what testers do
afterwards, such as a change of clan.

Not started: moving items between stock and rooms (`itemMover`), friendship, chat, accounts.
The other components marked `not_modelled` in `PROJECT.json` (authorization rules, leaderboards, analytics,
feedback, metadata, character classes, admin, migrations) filter requests, cache sorted reads or
write independent documents and have no state that interacts.

## Plan

1. Done: matchmaking, matches, jukebox, voting with the clan shop, flea market, daily tasks,
   clan membership, battle results, battle queue, testing sessions.
2. Proofs: every component but the battle queue and the testing sessions has its theorems. Next: the types, `ResetIsClean` (its reason is that `alone`
   excludes every other step that stores a player, a clan or a place) and `EveryPlaceFits` of `TestingSession`.
3. `ClanRoles` on `Voting` (governance and role votings, the last admin), `ItemMover` with the rooms of
   `ClanMembership`, `Friendship`, the making of a box.
