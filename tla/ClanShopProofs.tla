--------------------------- MODULE ClanShopProofs ---------------------------
(***************************************************************************)
(* A voting of the clan shop that nobody shares is settled once: its settler *)
(* is alone with it from the moment a vote ends it or a job finds it open    *)
(* past its time, until the settlement is counted.  It settles by the votes  *)
(* as they stay, and until purchases overlap or a voting is shared the shop  *)
(* keeps the promise of Purchase.                                            *)
(***************************************************************************)
EXTENDS ClanShop, FiniteSetTheorems, TLAPS

\* Requests that are past a purchase are about a voting, free slots about none.
Held ==
    \A s \in Slot :
        /\ req[s].pc \notin {"idle", "reserve", "commit"} => req[s].voting \in VotingId
        /\ req[s].pc = "idle" => req[s].voting = Nil

Label == {"idle", "reserve", "commit", "addJob",
          "voter", "reread", "finalize", "passed", "ending", "settle", "done"}

\* Init has the types.
LEMMA TypeInit == Init => TypeOK /\ Held
  <1> SUFFICES ASSUME Init PROVE TypeOK /\ Held
    OBVIOUS
  <1>1. NoVotes \in [Player -> Choice \cup {Nil}]
    BY DEF NoVotes
  <1>2. NoVoting \in VotingRecord
    BY <1>1 DEF NoVoting, VotingRecord
  <1>3. Idle \in Request /\ Idle.pc = "idle" /\ Idle.voting = Nil
    BY <1>1 DEF Idle, Request
  <1>4. votings \in [VotingId -> VotingRecord] /\ req \in [Slot -> Request] /\ Held
    <2>1. votings = [v \in VotingId |-> NoVoting] /\ req = [t \in Slot |-> Idle]
      BY DEF Init
    <2>2. votings \in [VotingId -> VotingRecord]
      BY <1>2, <2>1
    <2>3. req \in [Slot -> Request] /\ Held
      BY <1>3, <2>1 DEF Held
    <2> QED BY <2>2, <2>3
  <1>5. /\ delivered \in [VotingId -> Nat] /\ refunded \in [VotingId -> Nat]
        /\ gameCoins \in Int /\ crashes \in 0 .. MaxCrashes
    BY CrashAssumption, CoinsAssumption DEF Init
  <1>6. /\ due = {} /\ jobs = {} /\ failed = {} /\ shared = {} /\ rivals = FALSE
        /\ playerCount \in Sizes /\ writer = Nil /\ bought = 0
    BY DEF Init
  <1> QED BY <1>4, <1>5, <1>6 DEF TypeOK

\* A slot may be given any request that is past a purchase only with a voting.
LEMMA Given ==
    ASSUME TypeOK, Held, NEW s \in Slot, NEW r \in Request,
           r.pc \notin {"idle", "reserve", "commit"} => r.voting \in VotingId,
           r.pc = "idle" => r.voting = Nil,
           req' = [req EXCEPT ![s] = r]
    PROVE  req' \in [Slot -> Request] /\ Held'
  <1>1. req \in [Slot -> Request]
    BY DEF TypeOK
  <1>2. req' \in [Slot -> Request]
    BY <1>1
  <1>3. ASSUME NEW t \in Slot PROVE req'[t] = IF t = s THEN r ELSE req[t]
    BY <1>1
  <1> QED BY <1>2, <1>3 DEF Held

\* A slot that goes on or finishes keeps a request and its voting.
LEMMA Went ==
    ASSUME TypeOK, Held, NEW s \in Slot, NEW label \in Label \ {"idle"},
           \/ Finish(s)
           \/ (Goto(s, label) \/ End(s)) /\ req[s].voting \in VotingId
    PROVE  req' \in [Slot -> Request] /\ Held'
  <1>1. CASE Finish(s)
    <2>1. Idle \in Request
      BY DEF Idle, NoVotes, Request
    <2> QED BY <1>1, <2>1 DEF TypeOK, Finish, Held, Idle
  <1>2. CASE Goto(s, label) /\ req[s].voting \in VotingId
    <2> DEFINE r == [req[s] EXCEPT !.pc = label]
    <2>1. req[s] \in Request
      BY DEF TypeOK
    <2>2. r \in Request
      BY <2>1 DEF Request, Label
    <2>3. r.voting = req[s].voting /\ r.pc # "idle"
      BY <2>1 DEF Request
    <2>4. req' = [req EXCEPT ![s] = r]
      BY <1>2 DEF Goto
    <2> HIDE DEF r
    <2> QED BY <1>2, <2>2, <2>3, <2>4, Given
  <1>3. CASE End(s) /\ req[s].voting \in VotingId
    <2> DEFINE r == [Idle EXCEPT !.pc = "done", !.voting = req[s].voting]
    <2>1. CASE Finish(s)
      BY <1>1, <2>1
    <2>2. CASE req' = [req EXCEPT ![s] = r]
      <3>1. r \in Request /\ r.voting = req[s].voting /\ r.pc = "done"
        BY <1>3 DEF Idle, NoVotes, Request
      <3> HIDE DEF r
      <3> QED BY <1>3, <2>2, <3>1, Given
    <2> QED BY <1>3, <2>1, <2>2 DEF End, Finish
  <1> QED BY <1>1, <1>2, <1>3

\* The history is one of votings and of truth values.
LEMMA NoteType ==
    ASSUME TypeOK, Note \/ UNCHANGED history
    PROVE  shared' \subseteq VotingId /\ rivals' \in BOOLEAN
  <1>1. shared' \subseteq VotingId
    BY DEF TypeOK, Note, history
  <1>2. CASE Note
    <2> DEFINE both == \E s, t \in Slot : s # t /\ (Buying(s) /\ Buying(t))'
    <2>1. rivals' = (rivals \/ both)
      BY <1>2, Zenon DEF Note
    <2> HIDE DEF both
    <2> QED BY <1>1, <2>1
  <1>3. CASE UNCHANGED history
    BY <1>1, <1>3 DEF TypeOK, history
  <1> QED BY <1>2, <1>3

\* Every action writes votings, requests and counts.
LEMMA TypeStep == TypeOK /\ Held /\ [Next]_vars => TypeOK' /\ Held'
  <1> SUFFICES ASSUME TypeOK, Held, [Next]_vars PROVE TypeOK' /\ Held'
    OBVIOUS
  <1>0. shared' \subseteq VotingId /\ rivals' \in BOOLEAN
    BY NoteType DEF Next, vars
  <1> USE <1>0 DEF shop
  <1>1. ASSUME NEW s \in Client, NEW p \in Buyer, buyItem(s, p) PROVE TypeOK' /\ Held'
    <2>1. PICK w \in VotingId \cup {Nil} :
             req' = [req EXCEPT ![s] = [@ EXCEPT !.pc = "reserve", !.player = p, !.voting = w]]
      <3>1. req[s].voting \in VotingId \cup {Nil} /\ s \in Slot /\ req[s] \in Request
        BY DEF TypeOK, Slot, Request
      <3>2. [req[s] EXCEPT !.pc = "reserve", !.player = p]
              = [req[s] EXCEPT !.pc = "reserve", !.player = p, !.voting = req[s].voting]
        BY <3>1 DEF Request
      <3> QED BY <1>1, <3>1, <3>2 DEF buyItem
    <2> DEFINE r == [req[s] EXCEPT !.pc = "reserve", !.player = p, !.voting = w]
    <2>2. s \in Slot /\ r \in Request /\ r.pc = "reserve"
      BY BuyerAssumption DEF TypeOK, Slot, Request
    <2>3. req' = [req EXCEPT ![s] = r]
      BY <2>1
    <2> HIDE DEF r
    <2>4. req' \in [Slot -> Request] /\ Held'
      BY <2>2, <2>3, Given
    <2> QED BY <1>1, <2>4 DEF buyItem, TypeOK
  <1>2. ASSUME NEW s \in Client, NEW p \in Player, NEW v \in VotingId, addVote(s, p, v), UNCHANGED shop
        PROVE TypeOK' /\ Held'
    <2>1. PICK choice \in Choice :
             req' = [req EXCEPT ![s] =
                       [@ EXCEPT !.pc = "voter", !.voting = v,
                                 !.votes = [votings[v].votes EXCEPT ![p] = choice]]]
      BY <1>2 DEF addVote
    <2>2. [votings[v].votes EXCEPT ![p] = choice] \in [Player -> Choice \cup {Nil}]
      BY DEF TypeOK, VotingRecord
    <2> DEFINE r == [req[s] EXCEPT !.pc = "voter", !.voting = v,
                                   !.votes = [votings[v].votes EXCEPT ![p] = choice]]
    <2>3. r \in Request /\ r.voting = v /\ r.pc = "voter" /\ s \in Slot
      BY <2>2 DEF TypeOK, Request, Slot
    <2>4. req' = [req EXCEPT ![s] = r]
      BY <2>1
    <2> HIDE DEF r
    <2>5. req' \in [Slot -> Request] /\ Held'
      BY <2>3, <2>4, Given
    <2> QED BY <1>2, <2>5 DEF addVote, TypeOK
  <1>3. ASSUME NEW w \in Worker, NEW v \in VotingId, process(w, v) PROVE TypeOK' /\ Held'
    <2> DEFINE r == IF votings[v].ended
                    THEN [req[w] EXCEPT !.pc = "done", !.voting = v]
                    ELSE [req[w] EXCEPT !.pc = "passed", !.voting = v, !.votes = votings[v].votes]
    <2>1. req[w] \in Request /\ w \in Slot /\ votings[v] \in VotingRecord
      BY DEF TypeOK, Slot
    <2>2. r \in Request /\ r.voting = v /\ r.pc # "idle"
      BY <2>1 DEF Request, VotingRecord
    <2>3. req' = [req EXCEPT ![w] = r]
      BY <1>3 DEF process
    <2> HIDE DEF r
    <2>4. req' \in [Slot -> Request] /\ Held'
      BY <2>1, <2>2, <2>3, Given
    <2> QED BY <1>3, <2>4 DEF process, TypeOK
  <1>4. ASSUME NEW v \in VotingId, Deadline(v), UNCHANGED shop PROVE TypeOK' /\ Held'
    BY <1>4 DEF Deadline, TypeOK, Held
  <1>5. ASSUME Crash PROVE TypeOK' /\ Held'
    <2>1. req' \in [Slot -> Request] /\ Held'
      BY <1>5 DEF Crash, TypeOK, Held, Idle, NoVotes, Request, Choice
    <2>2. {req[s].voting : s \in {t \in Slot : Exposed(t)}} \subseteq VotingId
      BY DEF Exposed, Held
    <2>3. crashes' \in 0 .. MaxCrashes
      BY <1>5, CrashAssumption DEF Crash, TypeOK
    <2> QED BY <1>5, <2>1, <2>2, <2>3 DEF Crash, TypeOK
  <1>6. ASSUME NEW s \in Slot, Step(s) PROVE TypeOK' /\ Held'
    <2>1. CASE reserveFunds(s)
      <3>1. req' \in [Slot -> Request] /\ Held'
        <4> DEFINE r == [req[s] EXCEPT !.pc = "commit"]
        <4>1. r \in Request /\ r.pc = "commit"
          BY DEF TypeOK, Request
        <4>2. CASE req' = [req EXCEPT ![s] = r]
          <5> HIDE DEF r
          <5> QED BY <4>1, <4>2, Given
        <4>3. CASE Finish(s)
          BY <4>3, Went DEF Label
        <4> QED BY <2>1, <4>2, <4>3 DEF reserveFunds, Goto
      <3> QED BY <2>1, <3>1 DEF reserveFunds, TypeOK
    <2>2. CASE commitBuy(s)
      <3>1. ASSUME req[s].voting # Nil
            PROVE  /\ req[s].voting \in VotingId /\ req[s].player \in Player \cup {Nil}
                   /\ votings' = [votings EXCEPT ![req[s].voting] = startVoting(req[s].player)]
        BY <2>2, <3>1 DEF commitBuy, TypeOK, Request
      <3>2. ASSUME NEW p \in Player \cup {Nil} PROVE startVoting(p) \in VotingRecord
        BY DEF startVoting, VotingRecord, NoVotes, Choice
      <3>3. votings' \in [VotingId -> VotingRecord]
        BY <2>2, <3>1, <3>2 DEF commitBuy, TypeOK
      <3>4. req' \in [Slot -> Request] /\ Held'
        BY <2>2, <3>1, Went DEF commitBuy, Label
      <3>5. gameCoins' \in Int /\ bought' \in Nat /\ writer' \in Slot \cup {Nil}
        BY <2>2, CoinsAssumption DEF commitBuy, TypeOK, Release
      <3> QED BY <2>2, <3>3, <3>4, <3>5 DEF commitBuy, TypeOK
    <2>3. CASE addVotingCheckJob(s)
      BY <2>3, Went DEF addVotingCheckJob, TypeOK, Held, At, Label
    <2>4. CASE saveVote(s) /\ UNCHANGED shop
      <3>1. req' \in [Slot -> Request] /\ Held' /\ req[s].voting \in VotingId
        BY <2>4, Went DEF saveVote, Held, At, Label
      <3>2. votings' \in [VotingId -> VotingRecord]
        <4> DEFINE w == [votings[req[s].voting] EXCEPT !.votes = req[s].votes]
        <4>0. votings[req[s].voting] \in VotingRecord /\ req[s].votes \in [Player -> Choice \cup {Nil}]
          BY <3>1 DEF TypeOK, Request
        <4>1. w \in VotingRecord
          BY <4>0, Zenon DEF VotingRecord
        <4>2. votings' = [votings EXCEPT ![req[s].voting] = w]
          BY <2>4 DEF saveVote
        <4> HIDE DEF w
        <4> QED BY <3>1, <4>1, <4>2 DEF TypeOK
      <3> QED BY <2>4, <3>1, <3>2 DEF saveVote, TypeOK
    <2>5. CASE readAgain(s) /\ UNCHANGED shop
      <3>1. req[s].voting \in VotingId
        BY <2>5 DEF readAgain, Held, At
      <3>2. req' \in [Slot -> Request] /\ Held'
        <4> DEFINE votes == votings[req[s].voting].votes
                   r == [req[s] EXCEPT !.pc = "finalize", !.votes = votes]
        <4>1. req[s] \in Request /\ votes \in [Player -> Choice \cup {Nil}]
          BY <3>1 DEF TypeOK, VotingRecord
        <4>2. r \in Request /\ r.voting = req[s].voting /\ r.pc # "idle"
          BY <4>1 DEF Request
        <4>3. Finish(s) \/ req' = [req EXCEPT ![s] = r]
          BY <2>5 DEF readAgain
        <4> HIDE DEF r
        <4> QED BY <3>1, <4>2, <4>3, Given, Went DEF Label
      <3> QED BY <2>5, <3>2 DEF readAgain, TypeOK
    <2>6. CASE finalizeVote(s) /\ UNCHANGED shop
      <3>1. req' \in [Slot -> Request] /\ Held'
        BY <2>6, Went DEF finalizeVote, Held, At, Label
      <3>2. votings' \in [VotingId -> VotingRecord]
        BY <2>6 DEF finalizeVote, finalizeVoting, TypeOK, VotingRecord
      <3> QED BY <2>6, <3>1, <3>2 DEF finalizeVote, TypeOK
    <2>7. CASE checkVotingOnExpire(s)
      <3>1. req[s].voting \in VotingId
        BY <2>7 DEF checkVotingOnExpire, Held, At
      <3>2. req' \in [Slot -> Request] /\ Held'
        <4>1. "ending" \in Label \ {"idle"} /\ (Goto(s, "ending") \/ End(s))
          BY <2>7 DEF checkVotingOnExpire, Label
        <4> QED BY <3>1, <4>1, Went
      <3> QED BY <2>7, <3>1, <3>2 DEF checkVotingOnExpire, TypeOK
    <2>8. CASE endVoting(s)
      <3>1. req' \in [Slot -> Request] /\ Held'
        BY <2>8, Went DEF endVoting, Held, At, Label
      <3>2. votings' \in [VotingId -> VotingRecord]
        BY <2>8 DEF endVoting, finalizeVoting, TypeOK, VotingRecord
      <3> QED BY <2>8, <3>1, <3>2 DEF endVoting, TypeOK
    <2>9. CASE commitVerdict(s)
      <3>1. req' \in [Slot -> Request] /\ Held' /\ req[s].voting \in VotingId
        BY <2>9, Went DEF commitVerdict, Held, At, Label
      <3>2. delivered' \in [VotingId -> Nat] /\ refunded' \in [VotingId -> Nat]
        <4>1. delivered \in [VotingId -> Nat] /\ refunded \in [VotingId -> Nat]
          BY DEF TypeOK
        <4>2. \A f \in [VotingId -> Nat] : [f EXCEPT ![req[s].voting] = @ + 1] \in [VotingId -> Nat]
          BY <3>1
        <4> QED BY <2>9, <4>1, <4>2 DEF commitVerdict
      <3>3. gameCoins' \in Int /\ writer' \in Slot \cup {Nil}
        <4>1. gameCoins' \in {gameCoins, gameCoins + Price}
          BY <2>9 DEF commitVerdict
        <4>2. gameCoins \in Int /\ Price \in Nat /\ writer \in Slot \cup {Nil}
          BY CoinsAssumption DEF TypeOK
        <4> QED BY <2>9, <4>1, <4>2 DEF commitVerdict, Release
      <3> QED BY <2>9, <3>1, <3>2, <3>3 DEF commitVerdict, TypeOK
    <2>10. CASE done(s)
      BY <2>10, Went DEF done, TypeOK, Held, Label
    <2> QED BY <1>6, <2>1, <2>2, <2>3, <2>4, <2>5, <2>6, <2>7, <2>8, <2>9, <2>10 DEF Step, Cast
  <1>7. CASE UNCHANGED vars
    BY <1>7 DEF vars, TypeOK, Held
  <1> QED BY <1>1, <1>2, <1>3, <1>4, <1>5, <1>6, <1>7 DEF Next, Act
----------------------------------------------------------------------------
BuyPC == {"reserve", "commit"}
CastPC == {"voter", "reread", "finalize"}
SettlePC == {"passed", "ending", "settle"}

On(s, v, pcs) == req[s].voting = v /\ req[s].pc \in pcs

\* The voting of a purchase that is not committed is unknown to everybody else.
BuysFresh ==
    \A s \in Slot, v \in VotingId : On(s, v, BuyPC) =>
        /\ ~votings[v].stored
        /\ \A t \in Slot \ {s} : req[t].voting # v

StoredFirst ==
    \A v \in VotingId : ~votings[v].stored =>
        ~votings[v].ended /\ v \notin due /\ Settlements(v) = 0

\* A voting on which a vote is being saved is open, if nobody else handles it.
CastsOpen ==
    \A s \in Slot, v \in VotingId : On(s, v, CastPC) =>
        /\ s \in Client
        /\ votings[v].stored
        /\ v \notin shared => ~votings[v].ended

\* A voting that was never shared has one handler at most.
Alone ==
    \A s, t \in Slot, v \in VotingId :
        v \notin shared /\ Handling(s, v) /\ Handling(t, v) => s = t

\* Nobody has settled a voting that is being settled.  A request settles an ended
\* voting, a job one whose time has passed.
OneSettler ==
    \A s \in Slot, v \in VotingId : On(s, v, SettlePC) =>
        /\ votings[v].stored
        /\ v \notin shared =>
            /\ Settlements(v) = 0
            /\ votings[v].ended \/ v \in due
            /\ votings[v].ended /\ req[s].pc # "settle" => s \in Client
            /\ ~votings[v].ended => s \in Worker /\ req[s].pc # "settle"

SettledEnded ==
    \A v \in VotingId \ shared : Settlements(v) # 0 => votings[v].ended /\ Settlements(v) = 1

EndedSettles ==
    \A v \in VotingId \ shared : votings[v].ended /\ v \notin failed =>
        Settlements(v) # 0 \/ \E s \in Slot : On(s, v, SettlePC)

ShopInv ==
    BuysFresh /\ StoredFirst /\ CastsOpen /\ Alone /\ OneSettler /\ SettledEnded /\ EndedSettles

\* Sharing is not undone, and what is not shared has one handler.
Shares == shared \subseteq shared' /\ Alone'

\* The history keeps both.
LEMMA NoteShares ==
    ASSUME TypeOK, ShopInv, Note \/ UNCHANGED <<req, history>>
    PROVE  Shares
  <1>1. CASE Note
    BY <1>1 DEF Note, Shares, Alone
  <1>2. CASE UNCHANGED <<req, history>>
    BY <1>2 DEF history, Shares, ShopInv, Alone, Handling
  <1> QED BY <1>1, <1>2

\* What does not concern votings and settlements, and lets a slot go on with the
\* same business or end it.
Calm(s) ==
    /\ \A v \in VotingId : votings'[v].stored = votings[v].stored /\ votings'[v].ended = votings[v].ended
    /\ UNCHANGED <<due, delivered, refunded, failed>>
    /\ \A t \in Slot \ {s} : req'[t] = req[t]
    /\ \/ req'[s].voting = Nil /\ req[s].pc \notin SettlePC
       \/ /\ req'[s].voting = req[s].voting
          /\ \/ req'[s].pc = "done" /\ req[s].pc \notin SettlePC
             \/ req'[s].pc \in BuyPC /\ req[s].pc \in BuyPC
             \/ req'[s].pc \in CastPC /\ req[s].pc \in CastPC
             \/ req'[s].pc = "ending" /\ req[s].pc = "passed"
             \/ req'[s].pc = "addJob" /\ req[s].pc = "addJob"

\* Such a step keeps the invariant.
LEMMA CalmStep ==
    ASSUME ShopInv, Shares, NEW s \in Slot, Calm(s)
    PROVE  ShopInv'
  <1>1. \A t \in Slot, v \in VotingId :
          /\ On(t, v, BuyPC)' => On(t, v, BuyPC)
          /\ On(t, v, CastPC)' => On(t, v, CastPC)
          /\ On(t, v, SettlePC)' <=> On(t, v, SettlePC)
          /\ On(t, v, SettlePC) => (req'[t].pc = "settle" <=> req[t].pc = "settle")
          /\ req'[t].voting = v => req[t].voting = v
    BY NilAssumption DEF Calm, On, BuyPC, CastPC, SettlePC
  <1>2. \A v \in VotingId : Settlements(v)' = Settlements(v)
    BY DEF Calm, Settlements
  <1>3. BuysFresh'
    BY <1>1 DEF Calm, ShopInv, BuysFresh
  <1>4. StoredFirst'
    BY <1>2 DEF Calm, ShopInv, StoredFirst
  <1>5. CastsOpen'
    BY <1>1 DEF Calm, ShopInv, CastsOpen, Shares
  <1>6. OneSettler'
    BY <1>1, <1>2 DEF Calm, ShopInv, OneSettler, Shares
  <1>7. SettledEnded'
    BY <1>2 DEF Calm, ShopInv, SettledEnded, Shares
  <1>8. EndedSettles'
    BY <1>1, <1>2 DEF Calm, ShopInv, EndedSettles, Shares
  <1> QED BY <1>3, <1>4, <1>5, <1>6, <1>7, <1>8 DEF ShopInv, Shares

\* What a slot is doing after it was given a request.
LEMMA Others ==
    ASSUME TypeOK, NEW s \in Slot, NEW r, req' = [req EXCEPT ![s] = r]
    PROVE  req'[s] = r /\ \A t \in Slot \ {s} : req'[t] = req[t]
  BY DEF TypeOK

\* Steps that leave votings and settlements alone.
LEMMA CalmActions ==
    ASSUME TypeOK, Held, NEW s \in Slot,
           \/ reserveFunds(s) \/ addVotingCheckJob(s)
           \/ (saveVote(s) \/ readAgain(s)) /\ UNCHANGED shop
           \/ done(s)
           \/ checkVotingOnExpire(s) /\ checkVotingSuccess(req[s].votes, TRUE)
           \/ checkVotingOnExpire(s) /\ writer = Nil
    PROVE  Calm(s)
  <1>0. Idle.voting = Nil /\ Idle.pc = "idle" /\ req[s] \in Request
    BY DEF Idle, TypeOK
  <1>1. CASE reserveFunds(s)
    BY <1>0, <1>1, Others DEF reserveFunds, Calm, Goto, Finish, At, Request, BuyPC, SettlePC
  <1>2. CASE addVotingCheckJob(s)
    BY <1>0, <1>2, Others DEF addVotingCheckJob, Calm, Finish, At, SettlePC
  <1>3. CASE saveVote(s) /\ UNCHANGED shop
    <2>1. \A v \in VotingId : votings'[v].stored = votings[v].stored /\ votings'[v].ended = votings[v].ended
      BY <1>3 DEF saveVote, TypeOK, VotingRecord
    <2>2. req'[s].voting = req[s].voting /\ req'[s].pc = "reread" /\ \A t \in Slot \ {s} : req'[t] = req[t]
      BY <1>0, <1>3 DEF saveVote, Goto, TypeOK, Request
    <2> QED BY <1>3, <2>1, <2>2 DEF saveVote, shop, Calm, At, CastPC
  <1>4. CASE readAgain(s) /\ UNCHANGED shop
    <2>1. /\ \/ req'[s].voting = req[s].voting /\ req'[s].pc = "finalize"
             \/ req'[s].voting = Nil
          /\ \A t \in Slot \ {s} : req'[t] = req[t]
      <3>1. CASE Finish(s)
        BY <1>0, <3>1, Others DEF Finish
      <3>2. CASE ~Finish(s)
        <4>1. req' = [req EXCEPT ![s].pc = "finalize", ![s].votes = votings[req[s].voting].votes]
          BY <1>4, <3>2 DEF readAgain
        <4> QED BY <1>0, <4>1 DEF TypeOK, Request
      <3> QED BY <3>1, <3>2
    <2>2. req[s].pc = "reread" /\ UNCHANGED <<votings, due, delivered, refunded, failed>>
      BY <1>4 DEF readAgain, shop, At
    <2> HIDE <1>4
    <2> QED BY <2>1, <2>2 DEF Calm, CastPC, SettlePC
  <1>5. CASE done(s)
    BY <1>0, <1>5, Others DEF done, Calm, Finish, At, SettlePC
  <1>6. CASE checkVotingOnExpire(s) /\ (checkVotingSuccess(req[s].votes, TRUE) \/ writer = Nil)
    <2>1. req[s].pc = "passed" /\ UNCHANGED <<votings, due, delivered, refunded, failed>> /\ Goto(s, "ending")
      BY <1>6 DEF checkVotingOnExpire, At
    <2>2. req'[s].voting = req[s].voting /\ req'[s].pc = "ending" /\ \A t \in Slot \ {s} : req'[t] = req[t]
      BY <1>0, <2>1 DEF Goto, TypeOK, Request
    <2> QED BY <2>1, <2>2 DEF Calm
  <1> QED BY <1>1, <1>2, <1>3, <1>4, <1>5, <1>6

----------------------------------------------------------------------------
\* The slot buys: with a voting that is fresh, or none.
LEMMA BuyStep ==
    ASSUME TypeOK, Held, ShopInv, Shares, NEW s \in Client, NEW p \in Buyer, buyItem(s, p)
    PROVE  ShopInv'
  <1>0. s \in Slot /\ req[s] \in Request /\ req[s].pc = "idle" /\ req[s].voting = Nil
    BY DEF Slot, TypeOK, Held, buyItem, At
  <1>1. UNCHANGED <<votings, due, delivered, refunded, failed>>
    BY DEF buyItem, shop
  <1>2. /\ req'[s].pc = "reserve"
        /\ \A t \in Slot \ {s} : req'[t] = req[t]
        /\ \/ req'[s].voting = Nil
           \/ req'[s].voting \in VotingId /\ Fresh(req'[s].voting)
    <2>1. CASE req' = [req EXCEPT ![s] = [@ EXCEPT !.pc = "reserve", !.player = p]]
      BY <1>0, <2>1 DEF TypeOK, Request
    <2>2. ASSUME NEW v \in VotingId, Fresh(v),
                 req' = [req EXCEPT ![s] = [@ EXCEPT !.pc = "reserve", !.player = p, !.voting = v]]
          PROVE  /\ req'[s].pc = "reserve" /\ req'[s].voting = v
                 /\ \A t \in Slot \ {s} : req'[t] = req[t]
      BY <1>0, <2>2 DEF TypeOK, Request
    <2> QED BY <2>1, <2>2 DEF buyItem
  <1>3. \A t \in Slot, v \in VotingId :
          /\ On(t, v, CastPC)' <=> On(t, v, CastPC)
          /\ On(t, v, SettlePC)' <=> On(t, v, SettlePC)
          /\ On(t, v, SettlePC) => req'[t] = req[t]
    BY <1>0, <1>2 DEF On, CastPC, SettlePC
  <1>4. \A v \in VotingId : Settlements(v)' = Settlements(v)
    BY <1>1 DEF Settlements
  <1>5. BuysFresh'
    BY <1>0, <1>1, <1>2, NilAssumption DEF ShopInv, BuysFresh, On, Fresh, BuyPC
  <1>6. StoredFirst' /\ CastsOpen'
    BY <1>1, <1>3, <1>4 DEF ShopInv, StoredFirst, CastsOpen, Shares
  <1>7. OneSettler' /\ SettledEnded' /\ EndedSettles'
    BY <1>1, <1>3, <1>4 DEF ShopInv, OneSettler, SettledEnded, EndedSettles, Shares
  <1> QED BY <1>5, <1>6, <1>7 DEF ShopInv, Shares

\* A vote is only cast on an open voting.
LEMMA VoteStep ==
    ASSUME TypeOK, Held, ShopInv, Shares,
           NEW s \in Client, NEW p \in Player, NEW v \in VotingId, addVote(s, p, v), UNCHANGED shop
    PROVE  ShopInv'
  <1>0. s \in Slot /\ req[s] \in Request /\ req[s].pc = "idle" /\ req[s].voting = Nil
    BY DEF Slot, TypeOK, Held, addVote, At
  <1>1. UNCHANGED <<votings, due, delivered, refunded, failed>>
    BY DEF addVote, shop
  <1>2. /\ req'[s].pc = "voter" /\ req'[s].voting = v
        /\ \A t \in Slot \ {s} : req'[t] = req[t]
    BY <1>0 DEF addVote, TypeOK, Request
  <1>3. votings[v].stored /\ ~votings[v].ended /\ v \notin due
    BY DEF addVote
  <1>5. \A t \in Slot, w \in VotingId :
          /\ On(t, w, BuyPC)' <=> On(t, w, BuyPC)
          /\ On(t, w, CastPC)' <=> On(t, w, CastPC) \/ (t = s /\ w = v)
          /\ On(t, w, SettlePC)' <=> On(t, w, SettlePC)
          /\ On(t, w, SettlePC) \/ On(t, w, BuyPC) => req'[t] = req[t]
    BY <1>0, <1>2, NilAssumption DEF On, BuyPC, CastPC, SettlePC
  <1>6. \A w \in VotingId : Settlements(w)' = Settlements(w)
    BY <1>1 DEF Settlements
  <1>7. BuysFresh'
    BY <1>1, <1>2, <1>3, <1>5 DEF ShopInv, BuysFresh
  <1>8. CastsOpen'
    BY <1>1, <1>3, <1>5 DEF ShopInv, CastsOpen, Shares
  <1>9. OneSettler' /\ EndedSettles'
    BY <1>1, <1>5, <1>6 DEF ShopInv, OneSettler, EndedSettles, Shares
  <1> QED BY <1>1, <1>6, <1>7, <1>8, <1>9 DEF ShopInv, StoredFirst, SettledEnded, Shares

\* A purchase by vote is committed: nobody knows its voting yet.
LEMMA CommitBuyStep ==
    ASSUME TypeOK, Held, ShopInv, Shares, NEW s \in Slot, commitBuy(s)
    PROVE  ShopInv'
  <1>0. req[s] \in Request /\ req[s].pc = "commit"
    BY DEF TypeOK, commitBuy, At
  <1>1. UNCHANGED <<due, delivered, refunded, failed>>
    BY DEF commitBuy
  <1>2. \A w \in VotingId : Settlements(w)' = Settlements(w)
    BY <1>1 DEF Settlements
  <1>3. CASE req[s].voting = Nil
    <2>1. UNCHANGED votings /\ req'[s].voting = Nil /\ \A t \in Slot \ {s} : req'[t] = req[t]
      BY <1>3 DEF commitBuy, Finish, Idle, TypeOK
    <2>2. Calm(s)
      BY <1>0, <1>1, <2>1 DEF Calm, SettlePC
    <2> QED BY <2>2, CalmStep
  <1>4. CASE req[s].voting # Nil
    <2> DEFINE v == req[s].voting
    <2>1. v \in VotingId
      BY <1>0, <1>4 DEF Request
    <2>2. /\ votings'[v].stored /\ ~votings'[v].ended
          /\ \A w \in VotingId \ {v} : votings'[w] = votings[w]
      BY <1>4, <2>1 DEF commitBuy, startVoting, TypeOK
    <2>3. req'[s].voting = v /\ req'[s].pc = "addJob" /\ \A t \in Slot \ {s} : req'[t] = req[t]
      BY <1>0, <1>4 DEF commitBuy, Goto, TypeOK, Request
    <2>4. ~votings[v].stored /\ ~votings[v].ended /\ v \notin due /\ \A t \in Slot \ {s} : req[t].voting # v
      BY <1>0, <2>1 DEF ShopInv, BuysFresh, StoredFirst, On, BuyPC
    <2>5. Settlements(v) = 0
      BY <2>1, <2>4 DEF ShopInv, StoredFirst
    <2> HIDE DEF v
    <2>6. \A t \in Slot, w \in VotingId :
            /\ On(t, w, BuyPC)' => On(t, w, BuyPC) /\ t # s
            /\ On(t, w, CastPC)' <=> On(t, w, CastPC)
            /\ On(t, w, SettlePC)' <=> On(t, w, SettlePC)
            /\ On(t, w, SettlePC) \/ On(t, w, CastPC) => req'[t] = req[t] /\ w # v
            /\ req'[t].voting = w <=> req[t].voting = w
      BY <1>0, <2>3, <2>4 DEF On, BuyPC, CastPC, SettlePC, v
    <2>7. BuysFresh'
      BY <2>2, <2>3, <2>4, <2>6 DEF ShopInv, BuysFresh, On
    <2>8. StoredFirst'
      BY <1>1, <1>2, <2>2 DEF ShopInv, StoredFirst
    <2>9. CastsOpen'
      BY <1>1, <2>2, <2>6 DEF ShopInv, CastsOpen, Shares
    <2>10. OneSettler'
      BY <1>1, <1>2, <2>2, <2>6 DEF ShopInv, OneSettler, Shares
    <2>11. SettledEnded' /\ EndedSettles'
      BY <1>1, <1>2, <2>1, <2>2, <2>5, <2>6 DEF ShopInv, SettledEnded, EndedSettles, Shares
    <2> QED BY <2>7, <2>8, <2>9, <2>10, <2>11 DEF ShopInv, Shares
  <1> QED BY <1>3, <1>4

\* A vote ends its voting and turns to the settlement: no one else does.
LEMMA FinalizeStep ==
    ASSUME TypeOK, Held, ShopInv, Shares, NEW s \in Slot, finalizeVote(s), UNCHANGED shop
    PROVE  ShopInv'
  <1> DEFINE v == req[s].voting
  <1>0. req[s] \in Request /\ req[s].pc = "finalize" /\ v \in VotingId
    BY DEF TypeOK, Held, finalizeVote, At
  <1>1. UNCHANGED <<due, delivered, refunded, failed>>
    BY DEF finalizeVote, shop
  <1>2. /\ votings'[v].stored = votings[v].stored /\ votings'[v].ended
        /\ \A w \in VotingId \ {v} : votings'[w] = votings[w]
    BY <1>0 DEF finalizeVote, finalizeVoting, TypeOK, VotingRecord
  <1>3. req'[s].voting = v /\ req'[s].pc = "passed" /\ \A t \in Slot \ {s} : req'[t] = req[t]
    BY <1>0 DEF finalizeVote, Goto, TypeOK, Request
  <1> HIDE DEF v
  <1>4. On(s, v, CastPC)
    BY <1>0 DEF On, CastPC, v
  <1>5. s \in Client /\ votings[v].stored /\ (v \notin shared => ~votings[v].ended)
    BY <1>0, <1>4 DEF ShopInv, CastsOpen
  <1>6. v \notin shared =>
           Settlements(v) = 0 /\ \A t \in Slot \ {s} : ~On(t, v, CastPC) /\ ~On(t, v, SettlePC)
    BY <1>0, <1>4, <1>5 DEF ShopInv, SettledEnded, Alone, Handling, On, CastPC, SettlePC
  <1>7. \A t \in Slot, w \in VotingId :
          /\ On(t, w, BuyPC)' <=> On(t, w, BuyPC)
          /\ On(t, w, CastPC)' <=> On(t, w, CastPC) /\ t # s
          /\ On(t, w, SettlePC)' <=> On(t, w, SettlePC) \/ (t = s /\ w = v)
          /\ t # s => req'[t] = req[t]
          /\ req'[t].voting = req[t].voting
    BY <1>0, <1>3 DEF On, BuyPC, CastPC, SettlePC, v
  <1>8. \A w \in VotingId : Settlements(w)' = Settlements(w)
    BY <1>1 DEF Settlements
  <1>9. BuysFresh'
    BY <1>0, <1>2, <1>7 DEF ShopInv, BuysFresh
  <1>10. StoredFirst'
    BY <1>1, <1>2, <1>5, <1>8 DEF ShopInv, StoredFirst
  <1>11. CastsOpen'
    BY <1>0, <1>1, <1>2, <1>5, <1>6, <1>7 DEF ShopInv, CastsOpen, Shares
  <1>12. OneSettler'
    <2> SUFFICES ASSUME NEW t \in Slot, NEW w \in VotingId, On(t, w, SettlePC)'
                 PROVE  /\ votings'[w].stored
                        /\ w \notin shared' =>
                             /\ Settlements(w)' = 0
                             /\ votings'[w].ended \/ w \in due'
                             /\ votings'[w].ended /\ req'[t].pc # "settle" => t \in Client
                             /\ ~votings'[w].ended => t \in Worker /\ req'[t].pc # "settle"
      BY DEF OneSettler
    <2>1. CASE w = v
      <3>1. w \notin shared' => t = s /\ Settlements(w)' = 0
        BY <1>6, <1>7, <1>8, <2>1 DEF Shares
      <3> QED BY <1>2, <1>3, <1>5, <2>1, <3>1
    <2>2. CASE w # v
      <3>1. t # s /\ On(t, w, SettlePC)
        BY <1>3, <1>7, <2>2 DEF On
      <3> QED BY <1>0, <1>1, <1>2, <1>7, <1>8, <2>2, <3>1 DEF ShopInv, OneSettler, Shares
    <2> QED BY <2>1, <2>2
  <1>13. SettledEnded' /\ EndedSettles'
    BY <1>0, <1>1, <1>2, <1>6, <1>7, <1>8 DEF ShopInv, SettledEnded, EndedSettles, Shares
  <1> QED BY <1>9, <1>10, <1>11, <1>12, <1>13 DEF ShopInv, Shares

\* A job settles a voting that is past its time but not ended.
LEMMA ProcessStep ==
    ASSUME TypeOK, Held, ShopInv, Shares, NEW s \in Worker, NEW v \in VotingId, process(s, v)
    PROVE  ShopInv'
  <1>0. s \in Slot /\ req[s] \in Request /\ req[s].pc = "idle" /\ req[s].voting = Nil
    BY DEF Slot, TypeOK, Held, process, At
  <1>1. UNCHANGED <<votings, due, delivered, refunded, failed>>
    BY DEF process, shop
  <1>2. /\ req'[s].pc = (IF votings[v].ended THEN "done" ELSE "passed") /\ req'[s].voting = v
        /\ \A t \in Slot \ {s} : req'[t] = req[t]
    <2>1. CASE votings[v].ended
      BY <1>0, <2>1 DEF process, TypeOK, Request
    <2>2. CASE ~votings[v].ended
      BY <1>0, <2>2 DEF process, TypeOK, Request
    <2> QED BY <2>1, <2>2
  <1>3. votings[v].stored /\ v \in due /\ \A t \in Worker : req[t].voting # v
    BY DEF process, ShopInv, StoredFirst
  <1>4. v \notin shared /\ ~votings[v].ended => Settlements(v) = 0
    BY DEF ShopInv, SettledEnded
  <1>5. \A t \in Slot, w \in VotingId :
          /\ On(t, w, BuyPC)' <=> On(t, w, BuyPC)
          /\ On(t, w, CastPC)' <=> On(t, w, CastPC)
          /\ On(t, w, SettlePC)' <=> On(t, w, SettlePC) \/ (t = s /\ w = v /\ ~votings[v].ended)
          /\ On(t, w, SettlePC) \/ On(t, w, BuyPC) => req'[t] = req[t] /\ t # s
    BY <1>0, <1>2, NilAssumption DEF On, BuyPC, CastPC, SettlePC
  <1>6. \A w \in VotingId : Settlements(w)' = Settlements(w)
    BY <1>1 DEF Settlements
  <1>7. BuysFresh'
    BY <1>1, <1>2, <1>3, <1>5 DEF ShopInv, BuysFresh
  <1>8. CastsOpen'
    BY <1>1, <1>5 DEF ShopInv, CastsOpen, Shares
  <1>9. OneSettler'
    BY <1>0, <1>1, <1>2, <1>3, <1>4, <1>5, <1>6 DEF ShopInv, OneSettler, Shares
  <1>10. EndedSettles'
    BY <1>1, <1>5, <1>6 DEF ShopInv, EndedSettles, Shares
  <1> QED BY <1>1, <1>6, <1>7, <1>8, <1>9, <1>10 DEF ShopInv, StoredFirst, SettledEnded, Shares

\* Time runs out of a voting, whatever is done with it.
LEMMA DeadlineStep ==
    ASSUME ShopInv, Shares, NEW v \in VotingId, Deadline(v), UNCHANGED shop
    PROVE  ShopInv'
  <1>1. UNCHANGED <<votings, req, delivered, refunded, failed>>
    BY DEF Deadline, shop
  <1>2. due' = due \cup {v} /\ votings[v].stored
    BY DEF Deadline
  <1>4. \A t \in Slot, w \in VotingId, pcs \in {BuyPC, CastPC, SettlePC} : On(t, w, pcs)' <=> On(t, w, pcs)
    BY <1>1 DEF On
  <1>5. \A w \in VotingId : Settlements(w)' = Settlements(w)
    BY <1>1 DEF Settlements
  <1>6. BuysFresh' /\ StoredFirst' /\ CastsOpen'
    BY <1>1, <1>2, <1>4, <1>5 DEF ShopInv, BuysFresh, StoredFirst, CastsOpen, Shares
  <1>7. OneSettler'
    BY <1>1, <1>2, <1>4, <1>5 DEF ShopInv, OneSettler, Shares
  <1>8. SettledEnded' /\ EndedSettles'
    BY <1>1, <1>4, <1>5 DEF ShopInv, SettledEnded, EndedSettles, Shares
  <1> QED BY <1>6, <1>7, <1>8 DEF ShopInv, Shares

\* A slot that is through with a voting handles none.
LEMMA Ended ==
    ASSUME TypeOK, NEW s \in Slot, End(s)
    PROVE  /\ req'[s].voting \in {req[s].voting, Nil} /\ req'[s].pc \in {"done", "idle"}
           /\ \A t \in Slot \ {s} : req'[t] = req[t]
  <1>1. req'[s] = IF s \in Client THEN Idle ELSE [Idle EXCEPT !.pc = "done", !.voting = req[s].voting]
    BY DEF End, TypeOK
  <1>2. \A t \in Slot \ {s} : req'[t] = req[t]
    BY DEF End, TypeOK
  <1> QED BY <1>1, <1>2 DEF Idle

\* A settler gives up, and the voting counts as failed.
LEMMA GiveUpStep ==
    ASSUME TypeOK, Held, ShopInv, Shares, NEW s \in Slot, checkVotingOnExpire(s),
           ~checkVotingSuccess(req[s].votes, TRUE), writer # Nil
    PROVE  ShopInv'
  <1> DEFINE v == req[s].voting
  <1>0. req[s] \in Request /\ req[s].pc = "passed" /\ v \in VotingId
    BY DEF TypeOK, Held, checkVotingOnExpire, At
  <1>1. UNCHANGED <<votings, due, delivered, refunded>> /\ failed' = failed \cup {v}
    BY DEF checkVotingOnExpire
  <1>2. /\ req'[s].voting \in {v, Nil} /\ req'[s].pc \in {"done", "idle"}
        /\ \A t \in Slot \ {s} : req'[t] = req[t]
    BY <1>0, Ended DEF checkVotingOnExpire
  <1> HIDE DEF v
  <1>3. \A t \in Slot, w \in VotingId :
          /\ On(t, w, BuyPC)' <=> On(t, w, BuyPC)
          /\ On(t, w, CastPC)' <=> On(t, w, CastPC)
          /\ On(t, w, SettlePC)' <=> On(t, w, SettlePC) /\ t # s
          /\ On(s, w, SettlePC) => w = v
          /\ t # s => req'[t] = req[t]
          /\ req'[t].voting = w => req[t].voting = w
    BY <1>0, <1>2, NilAssumption DEF On, BuyPC, CastPC, SettlePC, v
  <1>4. \A w \in VotingId : Settlements(w)' = Settlements(w)
    BY <1>1 DEF Settlements
  <1>5. BuysFresh' /\ StoredFirst' /\ CastsOpen' /\ SettledEnded'
    BY <1>1, <1>3, <1>4 DEF ShopInv, BuysFresh, StoredFirst, CastsOpen, SettledEnded, Shares
  <1>6. OneSettler'
    BY <1>1, <1>3, <1>4 DEF ShopInv, OneSettler, Shares
  <1>7. EndedSettles'
    BY <1>1, <1>3, <1>4 DEF ShopInv, EndedSettles, Shares
  <1> QED BY <1>5, <1>6, <1>7 DEF ShopInv, Shares

\* The settler ends the voting: if it was open, its time had passed.
LEMMA EndStep ==
    ASSUME TypeOK, Held, ShopInv, Shares, NEW s \in Slot, endVoting(s)
    PROVE  ShopInv'
  <1> DEFINE v == req[s].voting
  <1>0. req[s] \in Request /\ req[s].pc = "ending" /\ v \in VotingId
    BY DEF TypeOK, Held, endVoting, At
  <1>1. UNCHANGED <<due, delivered, refunded, failed>>
    BY DEF endVoting, shop
  <1>2. /\ votings'[v].stored = votings[v].stored /\ votings'[v].ended
        /\ \A w \in VotingId \ {v} : votings'[w] = votings[w]
    BY <1>0 DEF endVoting, finalizeVoting, TypeOK, VotingRecord
  <1>3. req'[s].voting = v /\ req'[s].pc = "settle" /\ \A t \in Slot \ {s} : req'[t] = req[t]
    BY <1>0 DEF endVoting, Goto, TypeOK, Request
  <1> HIDE DEF v
  <1>4. On(s, v, SettlePC)
    BY <1>0 DEF On, SettlePC, v
  <1>5. votings[v].stored /\ (v \notin shared => Settlements(v) = 0)
    BY <1>0, <1>4 DEF ShopInv, OneSettler
  <1>6. v \notin shared =>
           /\ \A t \in Slot : ~On(t, v, CastPC)
           /\ \A t \in Slot \ {s} : ~On(t, v, SettlePC)
    BY <1>0, <1>4 DEF ShopInv, Alone, Handling, On, CastPC, SettlePC
  <1>7. \A t \in Slot, w \in VotingId :
          /\ On(t, w, BuyPC)' <=> On(t, w, BuyPC)
          /\ On(t, w, CastPC)' <=> On(t, w, CastPC)
          /\ On(t, w, SettlePC)' <=> On(t, w, SettlePC)
          /\ On(s, w, SettlePC) => w = v
          /\ t # s => req'[t] = req[t]
          /\ req'[t].voting = req[t].voting
    BY <1>0, <1>3 DEF On, BuyPC, CastPC, SettlePC, v
  <1>8. \A w \in VotingId : Settlements(w)' = Settlements(w)
    BY <1>1 DEF Settlements
  <1>9. BuysFresh'
    BY <1>0, <1>2, <1>7 DEF ShopInv, BuysFresh
  <1>10. StoredFirst' /\ CastsOpen'
    <2>1. StoredFirst'
      BY <1>1, <1>2, <1>5, <1>8 DEF ShopInv, StoredFirst
    <2>2. CastsOpen'
      BY <1>0, <1>1, <1>2, <1>5, <1>6, <1>7 DEF ShopInv, CastsOpen, Shares
    <2> QED BY <2>1, <2>2
  <1>11. OneSettler'
    <2> SUFFICES ASSUME NEW t \in Slot, NEW w \in VotingId, On(t, w, SettlePC)'
                 PROVE  /\ votings'[w].stored
                        /\ w \notin shared' =>
                             /\ Settlements(w)' = 0
                             /\ votings'[w].ended \/ w \in due'
                             /\ votings'[w].ended /\ req'[t].pc # "settle" => t \in Client
                             /\ ~votings'[w].ended => t \in Worker /\ req'[t].pc # "settle"
      BY DEF OneSettler
    <2>1. CASE w = v
      BY <1>0, <1>1, <1>2, <1>3, <1>5, <1>6, <1>7, <1>8, <2>1 DEF Shares
    <2>2. CASE w # v
      <3>1. t # s /\ On(t, w, SettlePC)
        BY <1>3, <1>7, <2>2 DEF On
      <3> QED BY <1>0, <1>1, <1>2, <1>7, <1>8, <2>2, <3>1 DEF ShopInv, OneSettler, Shares
    <2> QED BY <2>1, <2>2
  <1>12. SettledEnded' /\ EndedSettles'
    BY <1>0, <1>1, <1>2, <1>4, <1>7, <1>8 DEF ShopInv, SettledEnded, EndedSettles, Shares
  <1> QED BY <1>9, <1>10, <1>11, <1>12 DEF ShopInv, Shares

\* The settlement is counted and its settler has done its work.
LEMMA VerdictStep ==
    ASSUME TypeOK, Held, ShopInv, Shares, NEW s \in Slot, commitVerdict(s)
    PROVE  ShopInv'
  <1>0. req[s] \in Request /\ req[s].pc = "settle" /\ req[s].voting \in VotingId
    BY DEF TypeOK, Held, commitVerdict, At
  <1>v. PICK v \in VotingId : v = req[s].voting
    BY <1>0
  <1>1. UNCHANGED <<votings, due, failed>>
    BY DEF commitVerdict
  <1>2. /\ req'[s].voting \in {v, Nil} /\ req'[s].pc \in {"done", "idle"}
        /\ \A t \in Slot \ {s} : req'[t] = req[t]
    BY <1>0, <1>v, Ended DEF commitVerdict
  <1>3. /\ Settlements(v)' = Settlements(v) + 1
        /\ \A w \in VotingId \ {v} : Settlements(w)' = Settlements(w)
    <2>1. delivered \in [VotingId -> Nat] /\ refunded \in [VotingId -> Nat]
      BY DEF TypeOK
    <2>2. \/ delivered' = [delivered EXCEPT ![v] = @ + 1] /\ refunded' = refunded
          \/ refunded' = [refunded EXCEPT ![v] = @ + 1] /\ delivered' = delivered
      BY <1>v DEF commitVerdict
    <2>3. CASE delivered' = [delivered EXCEPT ![v] = @ + 1] /\ refunded' = refunded
      BY <2>1, <2>3 DEF Settlements
    <2>4. CASE refunded' = [refunded EXCEPT ![v] = @ + 1] /\ delivered' = delivered
      BY <2>1, <2>4 DEF Settlements
    <2> QED BY <2>2, <2>3, <2>4
  <1>4. On(s, v, SettlePC)
    BY <1>0, <1>v DEF On, SettlePC
  <1>5. /\ votings[v].stored
        /\ v \notin shared =>
             /\ votings[v].ended /\ Settlements(v) = 0
             /\ \A t \in Slot \ {s} : ~On(t, v, SettlePC)
    BY <1>0, <1>4 DEF ShopInv, OneSettler, Alone, Handling, On, SettlePC
  <1>6. \A t \in Slot, w \in VotingId :
          /\ On(t, w, BuyPC)' <=> On(t, w, BuyPC)
          /\ On(t, w, CastPC)' <=> On(t, w, CastPC)
          /\ On(t, w, SettlePC)' <=> On(t, w, SettlePC) /\ t # s
          /\ On(s, w, SettlePC) => w = v
          /\ t # s => req'[t] = req[t]
          /\ req'[t].voting = w => req[t].voting = w
    BY <1>0, <1>v, <1>2, NilAssumption DEF On, BuyPC, CastPC, SettlePC
  <1>7. BuysFresh' /\ StoredFirst' /\ CastsOpen'
    BY <1>1, <1>3, <1>5, <1>6 DEF ShopInv, BuysFresh, StoredFirst, CastsOpen, Shares
  <1>8. OneSettler'
    BY <1>0, <1>1, <1>3, <1>5, <1>6 DEF ShopInv, OneSettler, Shares
  <1>9. SettledEnded' /\ EndedSettles'
    <2>1. v \notin shared => Settlements(v)' = 1
      BY <1>3, <1>5
    <2>2. SettledEnded'
      BY <1>1, <1>3, <1>5, <2>1 DEF ShopInv, SettledEnded, Shares
    <2>3. ASSUME NEW w \in VotingId \ shared, w # v, votings[w].ended, w \notin failed
          PROVE  Settlements(w) # 0 \/ \E t \in Slot : On(t, w, SettlePC)'
      BY <1>6, <2>3 DEF ShopInv, EndedSettles
    <2>4. EndedSettles'
      BY <1>1, <1>3, <2>1, <2>3 DEF EndedSettles, Shares
    <2> QED BY <2>2, <2>4
  <1> QED BY <1>7, <1>8, <1>9 DEF ShopInv, Shares

\* Settlers of ended votings fail with the server; those of open ones are jobs.
LEMMA CrashStep ==
    ASSUME TypeOK, Held, ShopInv, Shares, Crash
    PROVE  ShopInv'
  <1>1. UNCHANGED <<votings, due, delivered, refunded>> /\ failed \subseteq failed'
    BY DEF Crash
  <1>2. \A t \in Slot, w \in VotingId : ~On(t, w, BuyPC)' /\ ~On(t, w, CastPC)' /\ ~On(t, w, SettlePC)'
    BY NilAssumption DEF Crash, On, Idle
  <1>3. \A w \in VotingId : Settlements(w)' = Settlements(w)
    BY <1>1 DEF Settlements
  <1>4. ASSUME NEW w \in VotingId \ shared, NEW t \in Slot, votings[w].ended, On(t, w, SettlePC)
        PROVE  w \in failed'
    <2>1. Exposed(t) /\ req[t].voting = w
      BY <1>4 DEF ShopInv, OneSettler, On, SettlePC, Exposed
    <2> QED BY <2>1 DEF Crash
  <1>5. EndedSettles'
    BY <1>1, <1>3, <1>4 DEF ShopInv, EndedSettles, Shares
  <1> QED BY <1>1, <1>2, <1>3, <1>5
          DEF ShopInv, BuysFresh, StoredFirst, CastsOpen, OneSettler, SettledEnded, Shares
----------------------------------------------------------------------------
\* Each step keeps the invariant.
LEMMA ShopStep ==
    ASSUME TypeOK, Held, ShopInv, [Next]_vars
    PROVE  ShopInv'
  <1>0. Shares
    BY NoteShares DEF Next, vars
  <1> USE <1>0
  <1>1. ASSUME NEW s \in Slot, Step(s) PROVE ShopInv'
    <2>1. CASE commitBuy(s)
      BY <2>1, CommitBuyStep
    <2>2. CASE finalizeVote(s) /\ UNCHANGED shop
      BY <2>2, FinalizeStep
    <2>3. CASE endVoting(s)
      BY <2>3, EndStep
    <2>4. CASE commitVerdict(s)
      BY <2>4, VerdictStep
    <2>5. CASE checkVotingOnExpire(s) /\ ~checkVotingSuccess(req[s].votes, TRUE) /\ writer # Nil
      BY <2>5, GiveUpStep
    <2>6. CASE \/ reserveFunds(s) \/ addVotingCheckJob(s)
               \/ (saveVote(s) \/ readAgain(s)) /\ UNCHANGED shop
               \/ done(s)
               \/ checkVotingOnExpire(s) /\ checkVotingSuccess(req[s].votes, TRUE)
               \/ checkVotingOnExpire(s) /\ writer = Nil
      BY <2>6, CalmActions, CalmStep
    <2> QED BY <1>1, <2>1, <2>2, <2>3, <2>4, <2>5, <2>6 DEF Step, Cast
  <1>2. ASSUME NEW s \in Client, NEW p \in Buyer, buyItem(s, p) PROVE ShopInv'
    BY <1>2, BuyStep
  <1>3. ASSUME NEW s \in Client, NEW p \in Player, NEW v \in VotingId, addVote(s, p, v), UNCHANGED shop
        PROVE ShopInv'
    BY <1>3, VoteStep
  <1>4. ASSUME NEW w \in Worker, NEW v \in VotingId, process(w, v) PROVE ShopInv'
    BY <1>4, ProcessStep
  <1>5. ASSUME NEW v \in VotingId, Deadline(v), UNCHANGED shop PROVE ShopInv'
    BY <1>5, DeadlineStep
  <1>6. ASSUME Crash PROVE ShopInv'
    BY <1>6, CrashStep
  <1>7. CASE UNCHANGED vars
    BY <1>7 DEF vars, shop, ShopInv, BuysFresh, StoredFirst, CastsOpen, OneSettler, SettledEnded,
                EndedSettles, On, Settlements, Shares
  <1> QED BY <1>1, <1>2, <1>3, <1>4, <1>5, <1>6, <1>7 DEF Next, Act

\* At the start nothing is stored, cast or settled.
LEMMA ShopInit == Init => ShopInv
  BY NilAssumption
     DEF Init, Idle, NoVoting, Settlements, On, BuyPC, CastPC, SettlePC,
         ShopInv, BuysFresh, StoredFirst, CastsOpen, Alone, Handling, OneSettler, SettledEnded,
         EndedSettles

\* One settler or one settlement, and for an ended voting that did not fail one of
\* the two.
LEMMA OneOrOther ==
    ASSUME TypeOK, ShopInv
    PROVE  SettledOnce
  <1> SUFFICES ASSUME NEW v \in VotingId \ shared
               PROVE  /\ Settlements(v) + Cardinality(Settling(v)) <= 1
                      /\ votings[v].ended /\ v \notin failed =>
                             Settlements(v) + Cardinality(Settling(v)) = 1
    BY DEF SettledOnce
  <1>1. Settling(v) = {s \in Slot : On(s, v, SettlePC)}
    BY DEF Settling, On, SettlePC
  <1>2. Settlements(v) \in Nat
    BY DEF TypeOK, Settlements
  <1>3. ASSUME NEW s \in Slot, On(s, v, SettlePC)
        PROVE  Settlements(v) = 0 /\ Cardinality(Settling(v)) = 1
    <2>1. Settling(v) = {s}
      BY <1>1, <1>3 DEF ShopInv, Alone, Handling, On, SettlePC
    <2> QED BY <1>3, <2>1, FS_Singleton DEF ShopInv, OneSettler
  <1>4. CASE \A s \in Slot : ~On(s, v, SettlePC)
    <2>1. Cardinality(Settling(v)) = 0
      BY <1>1, <1>4, FS_EmptySet
    <2> QED BY <1>2, <1>4, <2>1 DEF ShopInv, SettledEnded, EndedSettles
  <1> QED BY <1>3, <1>4

\* All variables of the shop have their types.
THEOREM ShopTypeOK == Spec => []TypeOK
  <1> QED BY TypeInit, TypeStep, PTL DEF Spec

\* A voting that no two handle at once is settled at most once, by the passed event
\* or by the check job, and an ended one always, unless its settlement failed
\* (checkVotingOnExpire).
THEOREM SettledExactlyOnce == Spec => []SettledOnce
  <1>1. Init => TypeOK /\ Held /\ ShopInv
    BY TypeInit, ShopInit
  <1>2. TypeOK /\ Held /\ ShopInv /\ [Next]_vars => (TypeOK /\ Held /\ ShopInv)'
    BY TypeStep, ShopStep
  <1>3. TypeOK /\ Held /\ ShopInv => SettledOnce
    BY OneOrOther
  <1> QED BY <1>1, <1>2, <1>3, PTL DEF Spec
----------------------------------------------------------------------------
\* What is decided is decided on the votes of the voting as they are.
CopiesAgree ==
    \A s \in Slot, v \in VotingId \ shared :
        On(s, v, SettlePC \cup {"finalize"}) => req[s].votes = votings[v].votes

\* What was applied was decided by the majority of the members.
Applied ==
    \A v \in VotingId \ shared :
        /\ delivered[v] > 0 => Majority(v)
        /\ refunded[v] > 0 => ~Majority(v)

\* Nobody votes any more on a voting that is over, or about to be ended.
LEMMA VotesStay ==
    ASSUME TypeOK, Held, ShopInv, [Next]_vars, NEW v \in VotingId \ shared, votings[v].stored,
           votings[v].ended \/ \E s \in Slot : On(s, v, SettlePC \cup {"finalize"})
    PROVE  votings'[v].votes = votings[v].votes
  <1> USE DEF shop
  <1>1. ASSUME NEW s \in Slot, saveVote(s) PROVE votings'[v].votes = votings[v].votes
    <2>1. req[s].voting \in VotingId /\ req[s].pc = "voter"
      BY <1>1 DEF saveVote, Held, At
    <2>2. On(s, req[s].voting, CastPC)
      BY <2>1 DEF On, CastPC
    <2>3. req[s].voting # v
      <3> SUFFICES ASSUME req[s].voting = v PROVE FALSE
        OBVIOUS
      <3>1. ~votings[v].ended
        BY <2>2 DEF ShopInv, CastsOpen
      <3>2. PICK t \in Slot : On(t, v, SettlePC \cup {"finalize"})
        BY <3>1
      <3>3. Handling(s, v) /\ Handling(t, v) /\ s # t
        BY <2>1, <3>2 DEF Handling, On, SettlePC
      <3> QED BY <3>3 DEF ShopInv, Alone
    <2> QED BY <1>1, <2>1, <2>3 DEF saveVote, TypeOK
  <1>2. ASSUME NEW s \in Slot, commitBuy(s) PROVE votings'[v].votes = votings[v].votes
    <2>1. req[s].voting # v
      BY <1>2 DEF commitBuy, At, ShopInv, BuysFresh, On, BuyPC
    <2> QED BY <1>2, <2>1 DEF commitBuy, TypeOK
  <1>3. ASSUME NEW s \in Slot, finalizeVote(s) \/ endVoting(s) PROVE votings'[v].votes = votings[v].votes
    <2>1. PICK w \in VotingId : finalizeVoting(w)
      BY <1>3 DEF finalizeVote, endVoting, Held, At
    <2> QED BY <2>1 DEF finalizeVoting, TypeOK, VotingRecord
  <1>4. ASSUME NEW s \in Slot,
               \/ reserveFunds(s) \/ addVotingCheckJob(s) \/ readAgain(s)
               \/ checkVotingOnExpire(s) \/ commitVerdict(s) \/ done(s)
        PROVE  votings'[v].votes = votings[v].votes
    BY <1>4 DEF reserveFunds, addVotingCheckJob, readAgain, checkVotingOnExpire, commitVerdict, done
  <1>5. ASSUME NEW s \in Slot, Step(s) PROVE votings'[v].votes = votings[v].votes
    BY <1>1, <1>2, <1>3, <1>4, <1>5 DEF Step, Cast
  <1>6. CASE Crash \/ UNCHANGED vars
    BY <1>6 DEF Crash, vars
  <1> QED BY <1>5, <1>6 DEF Next, Act, buyItem, addVote, process, Deadline

\* Whoever turns to deciding has just read the votes, or had them.
LEMMA CopyStep ==
    ASSUME TypeOK, Held, ShopInv, CopiesAgree, [Next]_vars
    PROVE  CopiesAgree'
  <1> USE DEF shop
  <1> SUFFICES ASSUME NEW s \in Slot, NEW v \in VotingId \ shared,
                      On(s, v, SettlePC \cup {"finalize"})'
               PROVE  req'[s].votes = votings'[v].votes
    <2>1. shared \subseteq shared'
      BY NoteShares DEF Next, vars, Shares
    <2> QED BY <2>1 DEF CopiesAgree
  <1>0. req[s] \in Request /\ req'[s].voting = v /\ req'[s].pc \in SettlePC \cup {"finalize"}
    BY DEF TypeOK, On
  <1>1. ASSUME req'[s].votes = req[s].votes, On(s, v, SettlePC \cup {"finalize"})
        PROVE  req'[s].votes = votings'[v].votes
    <2>1. votings[v].stored
      BY <1>1 DEF ShopInv, OneSettler, CastsOpen, On, CastPC, SettlePC
    <2>2. votings'[v].votes = votings[v].votes
      BY <1>1, <2>1, VotesStay
    <2> QED BY <1>1, <2>2 DEF CopiesAgree
  <1>2. CASE req'[s] = req[s]
    BY <1>0, <1>1, <1>2 DEF On
  <1>3. CASE readAgain(s)
    <2>1. req' = [req EXCEPT ![s].pc = "finalize", ![s].votes = votings[req[s].voting].votes]
      <3>1. ~Finish(s)
        BY <1>0 DEF Finish, Idle, SettlePC, TypeOK
      <3> QED BY <1>3, <3>1 DEF readAgain
    <2>2. req[s].voting = v /\ req'[s].votes = votings[v].votes
      BY <1>0, <2>1 DEF TypeOK, Request
    <2> QED BY <1>3, <2>2 DEF readAgain
  <1>4. ASSUME NEW label \in SettlePC, Goto(s, label), req[s].pc \in SettlePC \cup {"finalize"}
        PROVE  req'[s].votes = votings'[v].votes
    <2>1. req'[s].votes = req[s].votes /\ req'[s].voting = req[s].voting
      BY <1>0, <1>4 DEF Goto, TypeOK, Request
    <2> QED BY <1>0, <1>1, <1>4, <2>1 DEF On
  <1>5. ASSUME NEW t \in Slot, Step(t) PROVE req'[s].votes = votings'[v].votes
    <2>1. CASE t # s
      <3>1. req'[s] = req[s]
        BY <1>5, <2>1 DEF Step, Cast, reserveFunds, commitBuy, addVotingCheckJob, saveVote, readAgain,
                finalizeVote, checkVotingOnExpire, endVoting, commitVerdict, done, Goto, Finish, End, TypeOK
      <3> QED BY <1>2, <3>1
    <2>2. CASE t = s
      <3>1. CASE reserveFunds(s) \/ commitBuy(s) \/ addVotingCheckJob(s) \/ saveVote(s)
                 \/ commitVerdict(s) \/ done(s)
        <4>1. Finish(s) \/ End(s) \/ \E label \in {"commit", "addJob", "reread"} : Goto(s, label)
          BY <3>1 DEF reserveFunds, commitBuy, addVotingCheckJob, saveVote, commitVerdict, done
        <4>2. req'[s].pc \in {"commit", "addJob", "reread", "done", "idle"}
          BY <1>0, <4>1, Ended DEF Goto, Finish, Idle, TypeOK, Request
        <4> QED BY <1>0, <4>2 DEF SettlePC
      <3>2. CASE finalizeVote(s) \/ endVoting(s)
        BY <3>2, <1>4 DEF finalizeVote, endVoting, SettlePC, At
      <3>3. CASE checkVotingOnExpire(s)
        <4>1. CASE End(s)
          BY <1>0, <4>1, Ended DEF SettlePC
        <4> QED BY <3>3, <4>1, <1>4 DEF checkVotingOnExpire, SettlePC, At
      <3> QED BY <1>3, <1>5, <2>2, <3>1, <3>2, <3>3 DEF Step, Cast
    <2> QED BY <2>1, <2>2
  <1>6. ASSUME NEW t \in Client, NEW p \in Buyer, buyItem(t, p) PROVE req'[s].votes = votings'[v].votes
    <2>1. req[t] \in Request /\ t \in Slot
      BY DEF TypeOK, Slot
    <2>2. req'[s] = req[s] \/ req'[s].pc = "reserve"
      <3>1. CASE req' = [req EXCEPT ![t] = [@ EXCEPT !.pc = "reserve", !.player = p]]
        BY <2>1, <3>1 DEF TypeOK, Request
      <3>2. ASSUME NEW w \in VotingId,
                   req' = [req EXCEPT ![t] = [@ EXCEPT !.pc = "reserve", !.player = p, !.voting = w]]
            PROVE  req'[s] = req[s] \/ req'[s].pc = "reserve"
        BY <2>1, <3>2 DEF TypeOK, Request
      <3> QED BY <1>6, <3>1, <3>2 DEF buyItem
    <2> QED BY <1>0, <1>2, <2>2 DEF SettlePC
  <1>7. ASSUME NEW t \in Client, NEW p \in Player, NEW w \in VotingId, addVote(t, p, w)
        PROVE  req'[s].votes = votings'[v].votes
    <2>1. req'[s] = req[s] \/ req'[s].pc = "voter"
      BY <1>0, <1>7 DEF addVote, TypeOK, Request, Slot
    <2> QED BY <1>0, <1>2, <2>1 DEF SettlePC
  <1>8. ASSUME NEW t \in Worker, NEW w \in VotingId, process(t, w) PROVE req'[s].votes = votings'[v].votes
    <2>1. /\ votings' = votings
          /\ \/ req'[s] = req[s] \/ req'[s].pc = "done"
             \/ req'[s].votes = votings[w].votes /\ req'[s].voting = w
      <3>1. CASE votings[w].ended
        BY <1>0, <1>8, <3>1 DEF process, TypeOK, Request, Slot
      <3>2. CASE ~votings[w].ended
        BY <1>0, <1>8, <3>2 DEF process, TypeOK, Request, Slot
      <3> QED BY <3>1, <3>2
    <2> QED BY <1>0, <1>2, <2>1 DEF SettlePC
  <1>9. CASE Crash
    BY <1>0, <1>9 DEF Crash, Idle, SettlePC
  <1>10. CASE UNCHANGED vars \/ \E w \in VotingId : Deadline(w)
    BY <1>2, <1>10 DEF vars, Deadline
  <1> QED BY <1>5, <1>6, <1>7, <1>8, <1>9, <1>10 DEF Next, Act

\* The check of the settlement is the majority of the members.
LEMMA CheckIsMajority ==
    ASSUME TypeOK, NEW v \in VotingId
    PROVE  checkVotingSuccess(votings[v].votes, TRUE) <=> Majority(v)
  BY SizesAssumption DEF TypeOK, checkVotingSuccess, Majority

\* The verdict is passed on the votes; of settled votings they stay.
LEMMA AppliedStep ==
    ASSUME TypeOK, Held, ShopInv, CopiesAgree, Applied, [Next]_vars
    PROVE  Applied'
  <1> USE DEF shop
  <1> SUFFICES ASSUME NEW v \in VotingId \ shared
               PROVE  /\ delivered'[v] > 0 => Majority(v)'
                      /\ refunded'[v] > 0 => ~Majority(v)'
    <2>1. shared \subseteq shared'
      BY NoteShares DEF Next, vars, Shares
    <2> QED BY <2>1 DEF Applied
  <1>0. delivered[v] \in Nat /\ refunded[v] \in Nat
    BY DEF TypeOK
  <1>1. ASSUME votings'[v].votes = votings[v].votes PROVE Majority(v)' <=> Majority(v)
    <2>1. playerCount' = playerCount
      BY DEF Next, Act, Step, Cast, reserveFunds, commitBuy, addVotingCheckJob, saveVote, readAgain,
             finalizeVote, checkVotingOnExpire, endVoting, commitVerdict, done,
             buyItem, addVote, process, Deadline, Crash, vars
    <2> QED BY <1>1, <2>1 DEF Majority, CountOf
  <1>2. CASE UNCHANGED <<delivered, refunded>>
    <2>1. CASE Settlements(v) = 0
      BY <1>0, <1>2, <2>1 DEF Settlements
    <2>2. CASE Settlements(v) # 0
      <3>1. votings[v].ended /\ votings[v].stored
        BY <2>2 DEF ShopInv, SettledEnded, StoredFirst
      <3>2. Majority(v)' <=> Majority(v)
        BY <1>1, <3>1, VotesStay
      <3> QED BY <1>2, <3>2 DEF Applied
    <2> QED BY <2>1, <2>2
  <1>3. ASSUME NEW s \in Slot, commitVerdict(s)
        PROVE  /\ delivered'[v] > 0 => Majority(v)'
               /\ refunded'[v] > 0 => ~Majority(v)'
    <2>0. req[s].pc = "settle" /\ req[s].voting \in VotingId /\ votings' = votings
      BY <1>3 DEF commitVerdict, At, Held
    <2>1. Majority(v)' <=> Majority(v)
      BY <1>1, <2>0
    <2>2. CASE req[s].voting # v
      <3>1. delivered'[v] = delivered[v] /\ refunded'[v] = refunded[v]
        BY <1>3, <2>0, <2>2 DEF commitVerdict, TypeOK
      <3> QED BY <2>1, <3>1 DEF Applied
    <2>3. CASE req[s].voting = v
      <3>1. req[s].votes = votings[v].votes /\ Settlements(v) = 0
        BY <2>0, <2>3 DEF CopiesAgree, ShopInv, OneSettler, On, SettlePC
      <3>2. delivered[v] = 0 /\ refunded[v] = 0
        BY <1>0, <3>1 DEF Settlements
      <3>3. checkVotingSuccess(req[s].votes, TRUE) <=> Majority(v)
        BY <3>1, CheckIsMajority
      <3>4. \/ Majority(v) /\ refunded'[v] = 0
            \/ ~Majority(v) /\ delivered'[v] = 0
        BY <1>3, <2>3, <3>2, <3>3 DEF commitVerdict
      <3> QED BY <2>1, <3>4
    <2> QED BY <2>2, <2>3
  <1>4. UNCHANGED <<delivered, refunded>> \/ \E s \in Slot : commitVerdict(s)
    BY DEF Next, Act, Step, Cast, reserveFunds, commitBuy, addVotingCheckJob, saveVote, readAgain,
           finalizeVote, checkVotingOnExpire, endVoting, done,
           buyItem, addVote, process, Deadline, Crash, vars
  <1> QED BY <1>2, <1>3, <1>4

\* On a voting that no two handle at once, an item comes with a majority of the
\* members and a refund without one, whoever settles, and whenever the votes were
\* read (checkVotingOnExpire).
THEOREM OutcomeIsTheVote == Spec => []OutcomeFollowsVotes
  <1> DEFINE Inv == TypeOK /\ Held /\ ShopInv /\ CopiesAgree /\ Applied
  <1>1. Init => Inv
    <2>1. Init => CopiesAgree /\ Applied
      BY DEF Init, CopiesAgree, Applied, On, SettlePC, Idle
    <2> QED BY <2>1, TypeInit, ShopInit
  <1>2. Inv /\ [Next]_vars => Inv'
    BY TypeStep, ShopStep, CopyStep, AppliedStep
  <1>3. Inv => OutcomeFollowsVotes
    BY DEF Applied, OutcomeFollowsVotes
  <1> QED BY <1>1, <1>2, <1>3, PTL DEF Spec
----------------------------------------------------------------------------
\* The promise (Purchase) in the words of the shop.
Reserved == {v \in VotingId : votings[v].stored /\ Settlements(v) = 0}
Settled == {v \in VotingId : Settlements(v) > 0}
Delivered == {v \in VotingId : delivered[v] > 0}
Items == bought + Cardinality(Delivered)

LEMMA Promised ==
    /\ Service!Init <=> gameCoins = Coins /\ Reserved = {} /\ Settled = {} /\ Items = 0
    /\ Service!Buy <=> /\ gameCoins >= Price /\ gameCoins' = gameCoins - Price
                       /\ Items' = Items + 1 /\ Reserved' = Reserved /\ Settled' = Settled
    /\ \A v \in VotingId :
         Service!Reserve(v) <=> /\ gameCoins >= Price /\ v \notin Reserved \cup Settled
                                /\ gameCoins' = gameCoins - Price /\ Reserved' = Reserved \cup {v}
                                /\ Settled' = Settled /\ Items' = Items
    /\ \A v \in VotingId :
         Service!Settle(v) <=> /\ v \in Reserved
                               /\ Reserved' = Reserved \ {v} /\ Settled' = Settled \cup {v}
                               /\ \/ Items' = Items + 1 /\ gameCoins' = gameCoins
                                  \/ gameCoins' = gameCoins + Price /\ Items' = Items
    /\ UNCHANGED Service!vars <=> UNCHANGED <<gameCoins, Reserved, Settled, Items>>
    /\ Service!Conserved <=> /\ gameCoins >= 0
                             /\ gameCoins + Price * (Cardinality(Reserved) + Items) = Coins
  <1> USE DEF Reserved, Settled, Items, Delivered
  <1>1. Service!Init <=> gameCoins = Coins /\ Reserved = {} /\ Settled = {} /\ Items = 0
    BY DEF Service!Init
  <1>2. Service!Buy <=> /\ gameCoins >= Price /\ gameCoins' = gameCoins - Price
                        /\ Items' = Items + 1 /\ Reserved' = Reserved /\ Settled' = Settled
    BY DEF Service!Buy
  <1>3. ASSUME NEW v \in VotingId
        PROVE  Service!Reserve(v) <=> /\ gameCoins >= Price /\ v \notin Reserved \cup Settled
                                      /\ gameCoins' = gameCoins - Price /\ Reserved' = Reserved \cup {v}
                                      /\ Settled' = Settled /\ Items' = Items
    BY DEF Service!Reserve
  <1>4. ASSUME NEW v \in VotingId
        PROVE  Service!Settle(v) <=> /\ v \in Reserved
                                     /\ Reserved' = Reserved \ {v} /\ Settled' = Settled \cup {v}
                                     /\ \/ Items' = Items + 1 /\ gameCoins' = gameCoins
                                        \/ gameCoins' = gameCoins + Price /\ Items' = Items
    BY DEF Service!Settle
  <1>5. UNCHANGED Service!vars <=> UNCHANGED <<gameCoins, Reserved, Settled, Items>>
    BY DEF Service!vars
  <1>6. Service!Conserved <=> /\ gameCoins >= 0
                              /\ gameCoins + Price * (Cardinality(Reserved) + Items) = Coins
    <2>1. ASSUME NEW S PROVE Service!Cardinality(S) = Cardinality(S)
      BY DEF Service!Cardinality, Cardinality
    <2> QED BY <2>1 DEF Service!Conserved
  <1> QED BY <1>1, <1>2, <1>3, <1>4, <1>5, <1>6

\* Until purchases overlap, the one that is under way finds its coins.
OneBuyer == rivals \/ \A s, t \in Slot : Buying(s) /\ Buying(t) => s = t

Funded == rivals \/ \A s \in Slot : Buying(s) => gameCoins >= Price

FewDelivered == IsFiniteSet(Delivered)

BuyInv == OneBuyer /\ Funded /\ FewDelivered

\* A step either commits a purchase, commits a verdict, or leaves the coins alone.
LEMMA CoinsStay ==
    ASSUME TypeOK, Held, [Next]_vars,
           \A s \in Slot : ~commitBuy(s) /\ ~commitVerdict(s)
    PROVE  /\ UNCHANGED <<gameCoins, bought, delivered, refunded>>
           /\ \A v \in VotingId : votings'[v].stored = votings[v].stored
  <1> USE DEF shop
  <1>1. UNCHANGED <<gameCoins, bought, delivered, refunded>>
    BY DEF Next, Act, Step, Cast, reserveFunds, addVotingCheckJob, saveVote, readAgain, finalizeVote,
           checkVotingOnExpire, endVoting, done, buyItem, addVote, process, Deadline, Crash, vars
  <1>2. ASSUME NEW s \in Slot, saveVote(s) \/ finalizeVote(s) \/ endVoting(s)
        PROVE  \A v \in VotingId : votings'[v].stored = votings[v].stored
    <2>1. req[s].voting \in VotingId
      BY <1>2 DEF saveVote, finalizeVote, endVoting, Held, At
    <2>2. \/ votings' = [votings EXCEPT ![req[s].voting].votes = req[s].votes]
          \/ votings' = [votings EXCEPT ![req[s].voting].ended = TRUE]
      BY <1>2 DEF saveVote, finalizeVote, endVoting, finalizeVoting
    <2> QED BY <2>1, <2>2 DEF TypeOK, VotingRecord
  <1>3. votings' = votings \/ \E s \in Slot : saveVote(s) \/ finalizeVote(s) \/ endVoting(s)
    BY DEF Next, Act, Step, Cast, reserveFunds, addVotingCheckJob, readAgain,
           checkVotingOnExpire, done, buyItem, addVote, process, Deadline, Crash, vars
  <1> QED BY <1>1, <1>2, <1>3

\* The steps of the promise, but for the question whether the coins are there.
Moved ==
    \/ /\ gameCoins' = gameCoins - Price /\ Items' = Items + 1
       /\ Reserved' = Reserved /\ Settled' = Settled
    \/ \E v \in VotingId :
         /\ v \notin Reserved \cup Settled
         /\ gameCoins' = gameCoins - Price /\ Reserved' = Reserved \cup {v}
         /\ Settled' = Settled /\ Items' = Items
    \/ \E v \in VotingId : Service!Settle(v)

Still == UNCHANGED <<gameCoins, Reserved, Settled, Items>>

\* With the coins there it is a step of the promise.
LEMMA MovedIsNext ==
    ASSUME Moved \/ Still, gameCoins >= Price \/ ~(gameCoins' = gameCoins - Price),
           gameCoins \in Int
    PROVE  [Service!Next]_Service!vars
  <1>1. CASE Still
    BY <1>1, Promised DEF Still
  <1>2. CASE \E v \in VotingId : Service!Settle(v)
    BY <1>2 DEF Service!Next
  <1>3. CASE gameCoins >= Price
    BY <1>1, <1>2, <1>3, Promised DEF Moved, Service!Next
  <1> QED BY <1>1, <1>2, <1>3 DEF Moved

\* Each step of a shop in which no voting is shared moves coins, purchases and items
\* as the promise does, and until purchases overlap it is one of the promise.
LEMMA KeepsPromise ==
    ASSUME TypeOK, Held, ShopInv, BuyInv, [Next]_vars, shared' = {}
    PROVE  /\ Moved \/ Still
           /\ ~rivals' => [Service!Next]_Service!vars
  <1>s. shared = {} /\ (~rivals' => ~rivals)
    <2>1. CASE Note
      BY <2>1 DEF Note
    <2>2. CASE UNCHANGED vars
      BY <2>2 DEF vars, history
    <2> QED BY <2>1, <2>2 DEF Next
  <1>i. gameCoins \in Int
    BY DEF TypeOK
  <1>0. Cardinality(Delivered) \in Nat /\ bought \in Nat
    BY FS_CardinalityType DEF BuyInv, FewDelivered, TypeOK
  <1>1. ASSUME NEW s \in Slot, commitBuy(s) PROVE Moved /\ (~rivals' => gameCoins >= Price)
    <2>0. /\ ~rivals' => gameCoins >= Price
          /\ gameCoins' = gameCoins - Price
          /\ UNCHANGED <<delivered, refunded>> /\ req[s] \in Request /\ req[s].pc = "commit"
      BY <1>s, <1>1 DEF commitBuy, At, Buying, BuyInv, Funded, TypeOK
    <2>1. Delivered' = Delivered /\ Settled' = Settled /\ \A v \in VotingId : Settlements(v)' = Settlements(v)
      BY <2>0 DEF Delivered, Settled, Settlements
    <2>2. CASE req[s].voting = Nil
      <3>1. UNCHANGED votings /\ bought' = bought + 1
        BY <1>1, <2>2 DEF commitBuy
      <3>2. Items' = Items + 1
        BY <1>0, <2>1, <3>1 DEF Items
      <3>3. Reserved' = Reserved
        BY <2>1, <3>1 DEF Reserved
      <3> QED BY <2>0, <2>1, <3>2, <3>3 DEF Moved
    <2>3. CASE req[s].voting # Nil
      <3>1. PICK v \in VotingId : v = req[s].voting
        BY <2>0, <2>3 DEF Request
      <3>2. votings'[v].stored /\ bought' = bought /\ \A w \in VotingId \ {v} : votings'[w] = votings[w]
        BY <1>1, <2>3, <3>1 DEF commitBuy, startVoting, TypeOK
      <3>3. ~votings[v].stored /\ Settlements(v) = 0
        BY <2>0, <3>1 DEF ShopInv, BuysFresh, StoredFirst, On, BuyPC
      <3>4. Reserved' = Reserved \cup {v} /\ v \notin Reserved \cup Settled
        BY <2>1, <3>2, <3>3 DEF Reserved, Settled
      <3>5. Items' = Items
        BY <2>1, <3>2 DEF Items
      <3> QED BY <2>0, <2>1, <3>4, <3>5 DEF Moved
    <2> QED BY <2>2, <2>3
  <1>2. ASSUME NEW s \in Slot, commitVerdict(s) PROVE \E v \in VotingId : Service!Settle(v)
    <2>0. req[s].pc = "settle" /\ req[s].voting \in VotingId /\ UNCHANGED <<votings, bought>>
      BY <1>2 DEF commitVerdict, At, Held
    <2>1. PICK v \in VotingId : v = req[s].voting
      BY <2>0
    <2>2. votings[v].stored /\ Settlements(v) = 0
      BY <1>s, <2>0, <2>1 DEF ShopInv, OneSettler, On, SettlePC
    <2>3. delivered \in [VotingId -> Nat] /\ refunded \in [VotingId -> Nat]
      BY DEF TypeOK
    <2>4. delivered[v] = 0 /\ refunded[v] = 0
      BY <2>2, <2>3 DEF Settlements
    <2>5. /\ Settlements(v)' = 1
          /\ \A w \in VotingId \ {v} : Settlements(w)' = Settlements(w)
          /\ \/ Delivered' = Delivered \cup {v} /\ v \notin Delivered /\ gameCoins' = gameCoins
             \/ Delivered' = Delivered /\ gameCoins' = gameCoins + Price
      <3>1. CASE delivered' = [delivered EXCEPT ![v] = @ + 1] /\ UNCHANGED <<refunded, gameCoins>>
        BY <2>3, <2>4, <3>1 DEF Settlements, Delivered
      <3>2. CASE refunded' = [refunded EXCEPT ![v] = @ + 1] /\ delivered' = delivered
                 /\ gameCoins' = gameCoins + Price
        BY <2>3, <2>4, <3>2 DEF Settlements, Delivered
      <3> QED BY <1>2, <2>1, <3>1, <3>2 DEF commitVerdict
    <2>6. Reserved' = Reserved \ {v} /\ Settled' = Settled \cup {v} /\ v \in Reserved
      BY <2>0, <2>2, <2>5 DEF Reserved, Settled
    <2>7. CASE Delivered' = Delivered \cup {v} /\ v \notin Delivered /\ gameCoins' = gameCoins
      <3>1. Cardinality(Delivered') = Cardinality(Delivered) + 1
        BY <2>7, FS_AddElement DEF BuyInv, FewDelivered
      <3>2. Items' = Items + 1
        BY <1>0, <2>0, <3>1 DEF Items
      <3> QED BY <2>6, <2>7, <3>2, Promised
    <2>8. CASE Delivered' = Delivered /\ gameCoins' = gameCoins + Price
      <3>1. Items' = Items
        BY <2>0, <2>8 DEF Items
      <3> QED BY <2>6, <2>8, <3>1, Promised
    <2> QED BY <2>5, <2>7, <2>8
  <1>3. CASE \A s \in Slot : ~commitBuy(s) /\ ~commitVerdict(s)
    <2>1. /\ UNCHANGED <<gameCoins, bought, delivered, refunded>>
          /\ \A v \in VotingId : votings'[v].stored = votings[v].stored
      BY <1>3, CoinsStay
    <2>2. Still
      BY <2>1 DEF Still, Reserved, Settled, Items, Delivered, Settlements
    <2>3. ~rivals' => [Service!Next]_Service!vars
      BY <2>2, Promised DEF Still
    <2> QED BY <2>2, <2>3
  <1>4. CASE \E s \in Slot : commitBuy(s)
    BY <1>i, <1>1, <1>4, MovedIsNext
  <1>5. CASE \E s \in Slot : commitVerdict(s)
    BY <1>2, <1>5 DEF Moved, Service!Next
  <1> QED BY <1>3, <1>4, <1>5

\* Only the commit of a purchase spends coins, and then nobody else buys.
LEMMA BuyInvStep ==
    ASSUME TypeOK, Held, BuyInv, [Next]_vars
    PROVE  BuyInv'
  <1> USE DEF shop
  <1>0. gameCoins \in Int /\ Price \in Nat
    BY CoinsAssumption DEF TypeOK
  <1>n. OneBuyer' /\ (~rivals' => ~rivals)
    <2>1. CASE Note
      BY <2>1 DEF Note, OneBuyer
    <2>2. CASE UNCHANGED vars
      BY <2>2 DEF vars, history, BuyInv, OneBuyer, Buying
    <2> QED BY <2>1, <2>2 DEF Next
  <1>1. Funded'
    <2> SUFFICES ASSUME ~rivals' PROVE \A s \in Slot : Buying(s)' => gameCoins' >= Price
      BY DEF Funded
    <2>a. /\ \A s, t \in Slot : Buying(s) /\ Buying(t) => s = t
          /\ \A s \in Slot : Buying(s) => gameCoins >= Price
      BY <1>n DEF BuyInv, OneBuyer, Funded
    <2> DEFINE Paid == \A s \in Slot : Buying(s)' => gameCoins' >= Price
    <2>1. ASSUME NEW s \in Client, NEW p \in Buyer, buyItem(s, p) PROVE Paid
      BY <2>1 DEF buyItem
    <2>2. ASSUME NEW s \in Slot, commitBuy(s) PROVE Paid
      <3>1. req[s] \in Request /\ Buying(s)
        BY <2>2 DEF commitBuy, At, Buying, TypeOK
      <3>2. ~Buying(s)' /\ \A t \in Slot \ {s} : req'[t] = req[t]
        <4>1. Finish(s) \/ Goto(s, "addJob")
          BY <2>2 DEF commitBuy
        <4> QED BY <3>1, <4>1 DEF Finish, Goto, Idle, Buying, TypeOK, Request
      <3>3. \A t \in Slot : ~Buying(t)'
        BY <2>a, <3>1, <3>2 DEF Buying
      <3> QED BY <3>3
    <2>3. ASSUME UNCHANGED gameCoins \/ gameCoins' = gameCoins + Price,
                 \A t \in Slot : Buying(t)' => Buying(t)
          PROVE  Paid
      <3>1. gameCoins' >= gameCoins
        BY <1>0, <2>3
      <3> QED BY <1>0, <2>a, <2>3, <3>1
    <2>4. ASSUME NEW s \in Slot, Step(s), ~commitBuy(s) PROVE Paid
      <3>1. UNCHANGED gameCoins \/ gameCoins' = gameCoins + Price
        BY <2>4 DEF Step, Cast, reserveFunds, addVotingCheckJob, saveVote, readAgain, finalizeVote,
                    checkVotingOnExpire, endVoting, commitVerdict, done
      <3>2. \/ Finish(s) \/ End(s)
            \/ Goto(s, "commit") /\ At(s, "reserve")
            \/ \E label \in Label \ BuyPC : Goto(s, label)
            \/ req' = [req EXCEPT ![s].pc = "finalize", ![s].votes = votings[req[s].voting].votes]
        BY <2>4 DEF Step, Cast, reserveFunds, addVotingCheckJob, saveVote, readAgain, finalizeVote,
                    checkVotingOnExpire, endVoting, commitVerdict, done, Label, BuyPC
      <3>3. \A t \in Slot : Buying(t)' => Buying(t)
        <4>1. req[s] \in Request
          BY DEF TypeOK
        <4>2. CASE Finish(s)
          BY <4>1, <4>2 DEF Finish, Idle, Buying, TypeOK
        <4>3. CASE req' = [req EXCEPT ![s].pc = "finalize", ![s].votes = votings[req[s].voting].votes]
          <5>1. req'[s].pc = "finalize" /\ \A t \in Slot \ {s} : req'[t] = req[t]
            BY <4>1, <4>3 DEF TypeOK, Request
          <5> QED BY <5>1 DEF Buying
        <4>4. CASE Goto(s, "commit") /\ At(s, "reserve")
          BY <4>1, <4>4 DEF Goto, At, Buying, TypeOK, Request
        <4>5. ASSUME NEW label \in Label \ BuyPC, Goto(s, label)
              PROVE  \A t \in Slot : Buying(t)' => Buying(t)
          BY <4>1, <4>5 DEF Goto, Buying, BuyPC, TypeOK, Request
        <4>6. CASE End(s)
          BY <4>6, Ended DEF Buying
        <4> QED BY <3>2, <4>2, <4>3, <4>4, <4>5, <4>6
      <3> QED BY <2>3, <3>1, <3>3
    <2>5. ASSUME NEW s \in Client, NEW p \in Player, NEW v \in VotingId, addVote(s, p, v), UNCHANGED shop
          PROVE  Paid
      <3>1. req[s] \in Request /\ s \in Slot
        BY DEF TypeOK, Slot
      <3>2. \A t \in Slot : Buying(t)' => Buying(t)
        BY <2>5, <3>1 DEF addVote, Buying, TypeOK, Request
      <3> QED BY <2>3, <2>5, <3>2
    <2>6. ASSUME NEW s \in Worker, NEW v \in VotingId, process(s, v) PROVE Paid
      <3>1. req[s] \in Request /\ s \in Slot
        BY DEF TypeOK, Slot
      <3>2. \A t \in Slot : Buying(t)' => Buying(t)
        BY <2>6, <3>1 DEF process, Buying, TypeOK, Request
      <3> QED BY <2>3, <2>6, <3>2 DEF process
    <2>7. CASE Crash
      BY <2>3, <2>7 DEF Crash, Buying, Idle
    <2>8. CASE UNCHANGED vars \/ \E v \in VotingId : Deadline(v) /\ UNCHANGED shop
      BY <2>3, <2>8 DEF vars, Deadline, Buying
    <2> QED BY <2>1, <2>2, <2>4, <2>5, <2>6, <2>7, <2>8 DEF Next, Act
  <1>2. FewDelivered'
    <2>1. ASSUME NEW s \in Slot, commitVerdict(s) PROVE FewDelivered'
      <3>1. req[s].voting \in VotingId
        BY <2>1 DEF commitVerdict, At, Held
      <3>2. Delivered' \subseteq Delivered \cup {req[s].voting}
        BY <2>1, <3>1 DEF commitVerdict, Delivered, TypeOK
      <3>3. IsFiniteSet(Delivered \cup {req[s].voting})
        BY FS_AddElement DEF BuyInv, FewDelivered
      <3> QED BY <3>2, <3>3, FS_Subset DEF FewDelivered
    <2>2. CASE \A s \in Slot : ~commitVerdict(s)
      <3>1. delivered' = delivered
        BY <2>2 DEF Next, Act, Step, Cast, reserveFunds, commitBuy, addVotingCheckJob, saveVote, readAgain,
                    finalizeVote, checkVotingOnExpire, endVoting, done,
                    buyItem, addVote, process, Deadline, Crash, vars
      <3> QED BY <3>1 DEF BuyInv, FewDelivered, Delivered
    <2> QED BY <2>1, <2>2
  <1> QED BY <1>n, <1>1, <1>2 DEF BuyInv

\* At the start nobody buys and nothing was settled.
LEMMA BuyInit == Init => BuyInv /\ Service!Init
  <1>1. IsFiniteSet({}) /\ Cardinality({}) = 0
    BY FS_EmptySet
  <1>2. Init => Reserved = {} /\ Settled = {} /\ Delivered = {}
    BY DEF Init, Reserved, Settled, Delivered, Settlements, NoVoting
  <1>3. Init => BuyInv
    BY <1>1, <1>2 DEF Init, Idle, BuyInv, OneBuyer, Funded, FewDelivered, Buying
  <1>4. Init => Service!Init
    BY <1>1, <1>2, Promised DEF Init, Items
  <1> QED BY <1>3, <1>4

ServiceInv == TypeOK /\ Held /\ ShopInv /\ BuyInv

\* Until purchases overlap or two handle a voting at once, the shop is the abstract
\* one: buyItem, the jobs, the voting.passed events and the transactions take from
\* the clan only coins it has, and settle each purchase once.
THEOREM ShopImplementsPurchase == Spec => ImplementsPurchase
  <1>1. Init => ServiceInv /\ Service!Init
    BY TypeInit, ShopInit, BuyInit DEF ServiceInv
  <1>2. ServiceInv /\ [Next]_vars => ServiceInv'
    BY TypeStep, ShopStep, BuyInvStep DEF ServiceInv
  <1>3. ServiceInv /\ [Next]_vars => [Service!Next \/ shared' # {} \/ rivals']_Service!vars
    BY KeepsPromise DEF ServiceInv
  <1> QED BY <1>1, <1>2, <1>3, PTL DEF Spec, ImplementsPurchase
----------------------------------------------------------------------------
\* Finitely many purchases are open, what is open is not settled, and the coins, those
\* held by open purchases and those paid for items make up the coins at the start.
Ledger ==
    /\ gameCoins \in Int /\ Items \in Nat
    /\ IsFiniteSet(Reserved)
    /\ Reserved \cap Settled = {}
    /\ gameCoins + Price * (Cardinality(Reserved) + Items) = Coins

\* The price of one more item is one more price.
LEMMA OneMore ==
    ASSUME NEW price \in Nat, NEW n \in Nat
    PROVE  price * (n + 1) = price * n + price
  OBVIOUS

\* At the start all coins are the clan's.
LEMMA LedgerInit == Service!Init => Ledger /\ gameCoins >= 0
  <1> USE CoinsAssumption
  <1>1. IsFiniteSet({}) /\ Cardinality({}) = 0
    BY FS_EmptySet
  <1>2. Price * (0 + 0) = 0
    OBVIOUS
  <1>3. Service!Init => gameCoins = Coins /\ Reserved = {} /\ Settled = {} /\ Items = 0
    BY Promised
  <1> QED BY <1>1, <1>2, <1>3 DEF Ledger

\* What moves coins as the promise does keeps the ledger.
LEMMA LedgerStep ==
    ASSUME Ledger, Moved \/ Still
    PROVE  Ledger'
  <1> USE CoinsAssumption
  <1>1. Cardinality(Reserved) \in Nat
    BY FS_CardinalityType DEF Ledger
  <1>2. ASSUME gameCoins' = gameCoins - Price, Items' = Items + 1,
               Reserved' = Reserved, Settled' = Settled
        PROVE  Ledger'
    <2>1. (Cardinality(Reserved) + Items) + 1 = Cardinality(Reserved) + (Items + 1)
          /\ Cardinality(Reserved) + Items \in Nat
      BY <1>1 DEF Ledger
    <2>2. Price * (Cardinality(Reserved) + (Items + 1))
            = Price * (Cardinality(Reserved) + Items) + Price
      BY <2>1, OneMore
    <2>3. Price * (Cardinality(Reserved) + Items) \in Nat
      BY <2>1
    <2> QED BY <1>2, <2>2, <2>3 DEF Ledger
  <1>3. ASSUME NEW v \in VotingId, v \notin Reserved \cup Settled,
               gameCoins' = gameCoins - Price, Reserved' = Reserved \cup {v},
               Settled' = Settled, Items' = Items
        PROVE  Ledger'
    <2>1. IsFiniteSet(Reserved') /\ Cardinality(Reserved') = Cardinality(Reserved) + 1
      BY <1>3, FS_AddElement DEF Ledger
    <2>2. (Cardinality(Reserved) + Items) + 1 = Cardinality(Reserved') + Items'
          /\ Cardinality(Reserved) + Items \in Nat
      BY <1>1, <1>3, <2>1 DEF Ledger
    <2>3. Price * (Cardinality(Reserved') + Items') = Price * (Cardinality(Reserved) + Items) + Price
      BY <2>2, OneMore
    <2>4. Price * (Cardinality(Reserved) + Items) \in Nat
      BY <2>2
    <2> QED BY <1>3, <2>1, <2>3, <2>4 DEF Ledger
  <1>4. ASSUME NEW v \in VotingId, Service!Settle(v) PROVE Ledger'
    <2>1. Reserved' = Reserved \ {v} /\ v \in Reserved /\ Settled' = Settled \cup {v}
      BY <1>4, Promised
    <2>2. IsFiniteSet(Reserved') /\ Cardinality(Reserved') = Cardinality(Reserved) - 1
      BY <2>1, FS_RemoveElement DEF Ledger
    <2>3. CASE Items' = Items + 1 /\ gameCoins' = gameCoins
      <3>1. Cardinality(Reserved') + Items' = Cardinality(Reserved) + Items
        BY <1>1, <2>2, <2>3 DEF Ledger
      <3> QED BY <2>1, <2>2, <2>3, <3>1 DEF Ledger
    <2>4. CASE Items' = Items /\ gameCoins' = gameCoins + Price
      <3>1. (Cardinality(Reserved') + Items') + 1 = Cardinality(Reserved) + Items
            /\ Cardinality(Reserved') + Items' \in Nat
        <4>1. Cardinality(Reserved') \in Nat
          BY <2>2, FS_CardinalityType
        <4> QED BY <1>1, <2>2, <2>4, <4>1 DEF Ledger
      <3>2. Price * (Cardinality(Reserved) + Items) = Price * (Cardinality(Reserved') + Items') + Price
        BY <3>1, OneMore
      <3>3. Price * (Cardinality(Reserved') + Items') \in Nat
        BY <3>1
      <3> QED BY <2>1, <2>2, <2>4, <3>2, <3>3 DEF Ledger
    <2> QED BY <1>4, <2>3, <2>4, Promised
  <1>5. CASE Still
    BY <1>5 DEF Still, Ledger
  <1> QED BY <1>2, <1>3, <1>4, <1>5 DEF Moved

\* A step of the promise moves coins as the promise does, and only coins there are.
LEMMA NextMoves ==
    ASSUME gameCoins \in Int, gameCoins >= 0, [Service!Next]_Service!vars
    PROVE  (Moved \/ Still) /\ gameCoins' >= 0
  <1> USE CoinsAssumption
  <1>1. CASE Service!Buy
    BY <1>1, Promised DEF Moved
  <1>2. ASSUME NEW v \in VotingId, Service!Reserve(v) PROVE Moved /\ gameCoins' >= 0
    BY <1>2, Promised DEF Moved
  <1>3. ASSUME NEW v \in VotingId, Service!Settle(v) PROVE Moved /\ gameCoins' >= 0
    <2>1. gameCoins' = gameCoins \/ gameCoins' = gameCoins + Price
      BY <1>3, Promised
    <2> QED BY <1>3, <2>1 DEF Moved
  <1>4. CASE UNCHANGED Service!vars
    BY <1>4, Promised DEF Still
  <1> QED BY <1>1, <1>2, <1>3, <1>4 DEF Service!Next

\* The promise keeps the coins together: the clan's, those held by the purchases being
\* voted on and those paid for items make up the coins at the start, and the clan
\* is never in debt (buyDirectly, buyViaVote, checkVotingOnExpire).
THEOREM CoinsConserved == Service!Spec => []Service!Conserved
  <1>1. Service!Init => Ledger /\ gameCoins >= 0
    BY LedgerInit
  <1>2. Ledger /\ gameCoins >= 0 /\ [Service!Next]_Service!vars => (Ledger /\ gameCoins >= 0)'
    BY NextMoves, LedgerStep DEF Ledger
  <1>3. Ledger /\ gameCoins >= 0 => Service!Conserved
    BY Promised DEF Ledger
  <1> QED BY <1>1, <1>2, <1>3, PTL DEF Service!Spec

\* The shop's own coins: those held and paid make up with the clan's those at the start
\* unless two handled a voting at once, and the clan is in debt only if purchases
\* overlapped.
ShopCoins ==
    shared = {} =>
        /\ gameCoins + Price * (Cardinality(Reserved) + Items) = Coins
        /\ rivals \/ gameCoins >= 0

\* Overlapping purchases may bring the clan into debt but neither create nor lose coins,
\* and where none overlap there is no debt (buyItem, checkVotingOnExpire).
THEOREM ShopCoinsConserved == Spec => []ShopCoins
  <1> DEFINE Inv == ServiceInv /\ (shared = {} => Ledger /\ (rivals \/ gameCoins >= 0))
  <1>1. Init => Inv
    BY TypeInit, ShopInit, BuyInit, LedgerInit DEF ServiceInv
  <1>2. Inv /\ [Next]_vars => Inv'
    <2> SUFFICES ASSUME Inv, [Next]_vars PROVE Inv'
      OBVIOUS
    <2>1. ServiceInv'
      BY TypeStep, ShopStep, BuyInvStep DEF ServiceInv
    <2>2. ASSUME shared' = {} PROVE Ledger' /\ (rivals' \/ gameCoins' >= 0)
      <3>1. shared = {} /\ (~rivals' => ~rivals)
        <4>1. CASE Note
          BY <2>2, <4>1 DEF Note
        <4>2. CASE UNCHANGED vars
          BY <2>2, <4>2 DEF vars, history
        <4> QED BY <4>1, <4>2 DEF Next
      <3>2. (Moved \/ Still) /\ (~rivals' => [Service!Next]_Service!vars)
        BY <2>2, KeepsPromise DEF ServiceInv
      <3>3. Ledger'
        BY <3>1, <3>2, LedgerStep
      <3>4. rivals' \/ gameCoins' >= 0
        BY <3>1, <3>2, NextMoves DEF Ledger
      <3> QED BY <3>3, <3>4
    <2> QED BY <2>1, <2>2
  <1>3. Inv => ShopCoins
    BY DEF ShopCoins, Ledger
  <1> QED BY <1>1, <1>2, <1>3, PTL DEF Spec
============================================================================
