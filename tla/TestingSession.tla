---------------------------- MODULE TestingSession ----------------------------
(***************************************************************************)
(* src/box: a box and its testing sessions.  Its admin configures, starts,    *)
(* resets and deletes it, every midnight an old box is reset or deleted, and  *)
(* testers claim accounts with the shared password.  Starting is one          *)
(* transaction; claiming, resetting and deleting are separate commands.        *)
(***************************************************************************)
EXTENDS Integers, FiniteSetsExt

CONSTANTS
    Slot,           \* requests and midnight jobs in flight
    Amount,         \* the numbers of testers the admin may ask for
    MaxSessions,    \* bound: how often a session is started
    MaxClaims,      \* bound: how many accounts are claimed
    MaxRequests,    \* bound: how many requests the admin makes
    MaxFaults,      \* bound: how often the server stops or a command of a reset or deletion fails
    Nil             \* no box, no clan, no slot

ASSUME NilAssumption == Nil \notin Slot
ASSUME AmountAssumption == Amount \subseteq 1 .. 30 /\ Amount # {}
ASSUME BoundAssumption == {MaxSessions, MaxClaims, MaxRequests, MaxFaults} \subseteq Nat

VARIABLES
    box,        \* the box document, until it is deleted
    clans,      \* the clans of each session, with their homes, stocks and daily tasks
    testers,    \* the players stored
    req,        \* what each slot is doing
    started, claims, requests, faults,  \* how many sessions, claims, requests and faults there were
    alone,      \* history: the reset in flight nothing has overlapped
    clean,      \* history: no session or claim since a reset that ran alone
    spoiled,    \* history: sessions reconfigured, or overlapped by a reset or a deletion
    cut         \* history: a deletion was stopped half-way or overlapped, or left something

history == <<alone, clean, spoiled, cut>>
stored == <<box, clans, testers>>
counts == <<started, requests, faults>>
vars == <<stored, req, counts, claims, history>>

Session == 1 .. MaxSessions

Clan == Session \X {1, 2}

Account == 1 .. MaxClaims

Collections == {"clan", "player", "box"}

Box == [sessionStage : {"Preparing", "Testing"}, testersAmount : Amount, open : BOOLEAN,
        createdClan_ids : SUBSET Clan, testerAccountsClaimed : Nat,
        age : {"new", "week", "month"}]

Request == [pc : {"idle", "place", "create", "validate", "assign", "reset", "testers", "update", "delete"},
            account : Account \cup {0}, amount : Amount \cup {0}, clans : SUBSET Clan,
            pending : SUBSET Collections]

Idle == [pc |-> "idle", account |-> 0, amount |-> 0, clans |-> {}, pending |-> {}]

TypeOK ==
    /\ box \in Box \cup {Nil}
    /\ clans \in [Clan -> [playerCount : Nat, boxMemberLimit : Nat] \cup {Nil}]
    /\ testers \subseteq Account
    /\ req \in [Slot -> Request]
    /\ started \in 0 .. MaxSessions /\ claims \in 0 .. MaxClaims
    /\ requests \in 0 .. MaxRequests /\ faults \in 0 .. MaxFaults
    /\ alone \in Slot \cup {Nil}
    /\ clean \in BOOLEAN /\ cut \in BOOLEAN
    /\ spoiled \subseteq Session

\* A box as createBox leaves it.  Of its password only matters whether there is one.
Init ==
    /\ \E n \in Amount :
          box = [sessionStage |-> "Preparing", testersAmount |-> n, open |-> FALSE,
                 createdClan_ids |-> {}, testerAccountsClaimed |-> 0, age |-> "new"]
    /\ clans = [c \in Clan |-> Nil]
    /\ testers = {}
    /\ req = [s \in Slot |-> Idle]
    /\ started = 0 /\ claims = 0 /\ requests = 0 /\ faults = 0
    /\ alone = Nil
    /\ clean = TRUE
    /\ spoiled = {}
    /\ cut = FALSE
----------------------------------------------------------------------------
At(s, label) == req[s].pc = label

Goto(s, label) == req' = [req EXCEPT ![s].pc = label]

Finish(s) == req' = [req EXCEPT ![s] = Idle]

Fault == faults < MaxFaults /\ faults' = faults + 1 /\ UNCHANGED <<started, requests>>

Resetting == {s \in Slot : req[s].pc \in {"reset", "testers", "update"}}

Deleting == {s \in Slot : At(s, "delete")}

Sessions(cs) == {c[1] : c \in cs}

\* A session is spoiled once a reset or a deletion is in flight with it.
NoteOverlap(now, cs) == spoiled' = IF now THEN spoiled \cup Sessions(cs) ELSE spoiled
----------------------------------------------------------------------------
\* PATCH box, at any stage: another number of testers, or a password of the admin's own.
configureBox ==
    /\ box # Nil
    /\ \/ \E n \in Amount \ {box.testersAmount} :
             /\ box' = [box EXCEPT !.testersAmount = n]
             /\ spoiled' = spoiled \cup Sessions(box.createdClan_ids)
       \/ ~box.open /\ box' = [box EXCEPT !.open = TRUE] /\ UNCHANGED spoiled
    /\ UNCHANGED <<clans, testers, req, alone, clean, cut>>

MutCreateBoxClanPlans(participants) == <<participants \div 2, participants \div 2>>

\* The member limits of the two clans: the first one gets the odd member.
createBoxClanPlans(participants) == <<(participants + 1) \div 2, participants \div 2>>

\* POST box/start: one transaction, which aborts when the box changed since its snapshot;
\* so it happens at its commit.  It may also fail, as when clans of these names are left.
start ==
    LET n == started + 1
        plans == createBoxClanPlans(box.testersAmount)
        created == {<<n, 1>>, <<n, 2>>}
    IN  /\ box # Nil /\ box.sessionStage = "Preparing" /\ n \in Session
        /\ started' = n
        /\ clans' = [c \in Clan |->
                        IF c \in created THEN [playerCount |-> 0, boxMemberLimit |-> plans[c[2]]]
                        ELSE clans[c]]
        /\ box' = [box EXCEPT !.sessionStage = "Testing", !.open = TRUE,
                              !.createdClan_ids = created, !.age = "new"]
        /\ NoteOverlap(Resetting \cup Deleting # {}, created)
        /\ cut' = (cut \/ Deleting # {})
        /\ alone' = Nil /\ clean' = FALSE
        /\ UNCHANGED <<testers, req>>
----------------------------------------------------------------------------
\* POST box/claim-account: the box is read by its password ...
claimAccount(s) ==
    /\ At(s, "idle") /\ box # Nil /\ box.open /\ claims < MaxClaims
    /\ claims' = claims + 1
    /\ req' = [req EXCEPT ![s] = [Idle EXCEPT !.pc = "place", !.amount = box.testersAmount,
                                    !.clans = box.createdClan_ids]]
    /\ alone' = Nil /\ clean' = FALSE
    /\ UNCHANGED <<stored, counts, spoiled, cut>>

\* ... and by its _id one of its places is taken, if one is free by the number read.
takePlace(s) ==
    /\ At(s, "place")
    /\ IF box # Nil /\ box.testerAccountsClaimed < req[s].amount
       THEN /\ box' = [box EXCEPT !.testerAccountsClaimed = @ + 1]
            /\ req' = [req EXCEPT ![s].pc = "create", ![s].amount = 0]
       ELSE Finish(s) /\ UNCHANGED box
    /\ UNCHANGED <<clans, testers, counts, claims, history>>

\* The player is made outside the transaction of the claim.
createTester(s) ==
    LET a == Min(Account \ (testers \cup {req[t].account : t \in Slot}))
    IN  /\ At(s, "create")
        /\ testers' = testers \cup {a}
        /\ cut' = (cut \/ box = Nil \/ Deleting # {})
        /\ req' = [req EXCEPT ![s].pc = "validate", ![s].account = a]
        /\ UNCHANGED <<box, clans, counts, claims, alone, clean, spoiled>>

\* Its name was taken since it was looked up: the place stays taken.
failTester(s) ==
    /\ At(s, "create")
    /\ Finish(s)
    /\ UNCHANGED <<stored, counts, claims, history>>

\* addTesterToClan: the player and the clans read with the box must exist ...
validate(s) ==
    /\ At(s, "validate")
    /\ IF req[s].account \in testers /\ req[s].clans # {} /\ \A c \in req[s].clans : clans[c] # Nil
       THEN req' = [req EXCEPT ![s].pc = "assign", ![s].account = 0]
       ELSE Finish(s)
    /\ UNCHANGED <<stored, counts, claims, history>>

\* The clans a claim may put its player into.
Open(s) == {c \in req[s].clans : clans[c] # Nil /\ clans[c].playerCount < clans[c].boxMemberLimit}

\* The sort by playerCount, boxMemberLimit downwards and _id.
Before(c, d) ==
    \/ clans[c].playerCount < clans[d].playerCount
    \/ /\ clans[c].playerCount = clans[d].playerCount
       /\ \/ clans[c].boxMemberLimit > clans[d].boxMemberLimit
          \/ clans[c].boxMemberLimit = clans[d].boxMemberLimit /\ c[2] < d[2]

\* ... and the one with the fewest players gets it, if any has room.
addTesterToClan(s) ==
    /\ At(s, "assign")
    /\ \/ \E c \in Open(s) :
             /\ \A d \in Open(s) \ {c} : Before(c, d)
             /\ clans' = [clans EXCEPT ![c].playerCount = @ + 1]
       \/ Open(s) = {} /\ UNCHANGED clans
    /\ Finish(s)
    /\ UNCHANGED <<box, testers, counts, claims, history>>
----------------------------------------------------------------------------
\* What clearSession empties, for a reset and for a deletion.
MutToClear(job) == IF job = "reset" THEN {"clan"} ELSE Collections \ {"player"}

ToClear(job) == IF job = "reset" THEN {"clan"} ELSE Collections

\* reset and deleteBox read the box before anything is removed.
BeginClearing(s, job) ==
    /\ At(s, "idle") /\ box # Nil
    /\ req' = [req EXCEPT ![s] = [Idle EXCEPT !.pc = job, !.pending = ToClear(job)]]
    /\ alone' = IF \A t \in Slot : At(t, "idle") THEN s ELSE Nil
    /\ NoteOverlap(TRUE, box.createdClan_ids)
    /\ UNCHANGED <<stored, clean, cut>>

\* PUT box/reset, DELETE box.
reset(s) == BeginClearing(s, "reset")

deleteBox(s) == BeginClearing(s, "delete")

\* Every midnight a box of a month is deleted, one of a week is reset.
resetTestingSessions ==
    /\ box # Nil
    /\ \E s \in Slot :
          \/ box.age = "month" /\ deleteBox(s)
          \/ box.age = "week" /\ reset(s)
    /\ UNCHANGED <<counts, claims>>

Remove(collections) ==
    /\ clans' = IF "clan" \in collections THEN [c \in Clan |-> Nil] ELSE clans
    /\ testers' = IF "player" \in collections THEN {} ELSE testers
    /\ box' = IF "box" \in collections THEN Nil ELSE box

\* The other collections follow, also after errors; a reset, which empties one
\* of these collections, ends there.
Proceed(s, collection, works) ==
    LET rest == req[s].pending \ {collection}
    IN  req' = [req EXCEPT ![s] =
                   IF rest # {} THEN [@ EXCEPT !.pending = rest]
                   ELSE IF At(s, "reset") /\ works THEN [Idle EXCEPT !.pc = "testers"] ELSE Idle]

\* clearSession: one collection after the other, in whichever order they are registered.
clearBoxCollection(s) ==
    \E collection \in req[s].pending :
        /\ Remove({collection})
        /\ Proceed(s, collection, TRUE)
        /\ UNCHANGED <<counts, claims, history>>

\* A removal that failed is tried again: its documents stay or go, the error counts.
removalFails(s) ==
    \E collection \in req[s].pending : \E gone \in SUBSET {collection} :
        /\ Fault
        /\ Remove(gone)
        /\ Proceed(s, collection, FALSE)
        /\ cut' = (cut \/ (At(s, "delete") /\ gone = {} /\ collection # "box"))
        /\ UNCHANGED <<claims, alone, clean, spoiled>>

\* Then a reset removes the profiles and players other than the admin's ...
clearTesters(s) ==
    /\ At(s, "testers")
    /\ testers' = {}
    /\ Goto(s, "update")
    /\ UNCHANGED <<box, clans, counts, claims, history>>

MutUpdated(b) ==
    [b EXCEPT !.sessionStage = "Preparing", !.open = FALSE, !.createdClan_ids = {}]

Updated(b) ==
    [b EXCEPT !.sessionStage = "Preparing", !.open = FALSE, !.createdClan_ids = {},
              !.testerAccountsClaimed = 0]

\* ... and last brings the box, if it is still there, back to its first stage.
updateBox(s) ==
    /\ At(s, "update")
    /\ box' = IF box = Nil THEN Nil ELSE Updated(box)
    /\ clean' = (clean \/ alone = s)
    /\ Finish(s)
    /\ UNCHANGED <<clans, testers, counts, claims, alone, spoiled, cut>>

\* An error in one of these ends the reset.
resetFails(s) ==
    /\ req[s].pc \in {"testers", "update"} /\ Fault
    /\ Finish(s)
    /\ testers' = testers \/ (At(s, "testers") /\ testers' = {})
    /\ UNCHANGED <<box, clans, claims, history>>

\* sessionResetTime and boxRemovalTime pass.
TimePasses ==
    /\ box # Nil /\ box.age # "month"
    /\ box' = [box EXCEPT !.age = IF @ = "new" THEN "week" ELSE "month"]
    /\ UNCHANGED <<clans, testers, req, counts, claims, history>>

\* A stopped server forgets its requests; one cannot delete a box that is gone.
Stop ==
    /\ Fault /\ \E s \in Slot : ~At(s, "idle")
    /\ req' = [s \in Slot |-> Idle]
    /\ alone' = Nil
    /\ cut' = (cut \/ (box = Nil /\ Deleting # {}))
    /\ UNCHANGED <<stored, claims, clean, spoiled>>

Admin ==
    /\ requests < MaxRequests
    /\ requests' = requests + 1
    /\ \/ configureBox /\ UNCHANGED started
       \/ start
       \/ (\E s \in Slot : reset(s) \/ deleteBox(s)) /\ UNCHANGED started
    /\ UNCHANGED <<claims, faults>>

Step(s) ==
    \/ takePlace(s) \/ createTester(s) \/ failTester(s) \/ validate(s) \/ addTesterToClan(s)
    \/ clearBoxCollection(s) \/ clearTesters(s) \/ updateBox(s)

Next ==
    \/ Admin \/ resetTestingSessions \/ TimePasses \/ Stop
    \/ \E s \in Slot : claimAccount(s) \/ Step(s) \/ removalFails(s) \/ resetFails(s)

Spec == Init /\ [][Next]_vars

\* Requests are carried on, time passes and there is a midnight after it.
Fairness ==
    /\ \A s \in Slot : WF_vars(Step(s))
    /\ WF_vars(TimePasses) /\ WF_vars(resetTestingSessions)

FairSpec == Spec /\ Fairness
----------------------------------------------------------------------------
\* A tester who got a place finds a clan with room for it, for odd numbers of testers
\* too, unless the box was reconfigured, reset or deleted during the session: the places
\* are counted in the box, the members in the clans, at different moments.
EveryPlaceFits ==
    \A s \in Slot :
        At(s, "assign") /\ Sessions(req[s].clans) \cap spoiled = {} => Open(s) # {}

\* A reset nothing overlapped leaves nothing of the session and frees its places,
\* whatever resets, claims and stops there were before.
ResetIsClean ==
    clean /\ box # Nil =>
        /\ testers = {} /\ \A c \in Clan : clans[c] = Nil
        /\ box.sessionStage = "Preparing" /\ box.testerAccountsClaimed = 0

Leftovers == testers # {} \/ \E c \in Clan : clans[c] # Nil

\* What a session leaves behind is removed some day, also after resets that a stop cut
\* short, unless the deletion of the box was itself stopped or overlapped.
LeftoversRemoved == Leftovers ~> (~Leftovers \/ cut)
=============================================================================
