------------------------------ MODULE DailyTasks ------------------------------
(***************************************************************************)
(* src/dailyTasks: the pool of tasks of one clan.  A member reserves a task, *)
(* makes progress and completes it, gives it back, or lets its time run out. *)
(* A reservation reads the task, and writes the copy it read in a            *)
(* transaction of its own; the timer of a reservation is a BullMQ job that   *)
(* knows the task by _id only, and outlives the reservation.                 *)
(***************************************************************************)
EXTENDS Integers, Sequences, FiniteSets, FiniteSetsExt

CONSTANTS
    Player,           \* the members of the clan
    Client,           \* reservations in flight
    TaskId,           \* the _ids of tasks
    Pool,             \* the kinds of the tasks a day starts with
    Amount,           \* how many steps a server or UI task may take
    Nil,              \* no player, no task
    MaxReservations,  \* bound: reservations committed
    MaxResets,        \* bound: midnights
    MaxStops          \* bound: how often the server stops or a timer fails

Kind == {"server", "motto", "ui"}

ASSUME PoolAssumption == Pool \in Seq(Kind)
ASSUME TaskIdAssumption == 1 .. Len(Pool) \subseteq TaskId /\ TaskId \subseteq Nat
ASSUME AmountAssumption == Amount \subseteq Nat \ {0}
ASSUME NilAssumption == Nil \notin Player
ASSUME BoundsAssumption == {MaxReservations, MaxResets, MaxStops} \subseteq Nat

VARIABLES
    tasks,      \* the task each _id has, if any
    jobs,       \* the queue daily-tasks: timers of reservations
    req,        \* the reservation each client runs
    clock,      \* the newest startedAt
    done,       \* history: the steps done since the task was fresh or expired
    paid,       \* history: how often the task was rewarded since it was fresh
    wrong,      \* history: how rewards went wrong
    untimed,    \* history: reservations whose timer a stop lost, or that failed
    mistimed,   \* history: a timer ran out on a task that has another amount
    resets,     \* history: midnights so far
    stops       \* history: how often the server stopped or a timer failed

history == <<done, paid, wrong, untimed, mistimed, resets, stops>>

vars == <<tasks, jobs, req, clock, history>>

Live == {t \in TaskId : tasks[t] # Nil}

Time == 0 .. MaxReservations

\* createRandomAmount, or one phrase.
AmountsOf(kind) == IF kind = "motto" THEN {1} ELSE Amount

DailyTask == [kind : Kind, amount : Amount \cup {1}, amountLeft : Nat, isRewarded : BOOLEAN,
              player_id : Player \cup {Nil}, startedAt : Time]

Fresh(kind, amount) ==
    [kind |-> kind, amount |-> amount, amountLeft |-> amount, isRewarded |-> FALSE,
     player_id |-> Nil, startedAt |-> 0]

FreshTask == UNION {{Fresh(k, a) : a \in AmountsOf(k)} : k \in {"server", "motto"}}

\* How many of a set of _ids are t or less.
Rank(ids, t) == Cardinality({u \in ids : u <= t})

\* getUITasksForClan and generateServerTasksForNewClan: the pools a day may start
\* with; of the unused _ids the least are taken, as _ids are interchangeable.
Days(ids) ==
    {[t \in TaskId |-> IF t \in ids /\ Rank(ids, t) <= Len(Pool)
                       THEN Fresh(Pool[Rank(ids, t)], amounts[Rank(ids, t)]) ELSE Nil] :
        amounts \in {f \in [1 .. Len(Pool) -> Amount \cup {1}] :
                       \A i \in 1 .. Len(Pool) : f[i] \in AmountsOf(Pool[i])}}

Idle == [pc |-> "idle", player |-> Nil, task |-> Nil, copy |-> Nil, seen |-> <<>>]

TypeOK ==
    /\ \A t \in Live : tasks[t] \in DailyTask
    /\ jobs \subseteq [task : TaskId, amount : Amount \cup {1}, startedAt : Time]
    /\ \A s \in Client : req[s].pc \in {"idle", "start", "commit", "enqueue"}
    /\ clock \in Time
    /\ untimed \subseteq Time
    /\ wrong \subseteq {"again", "early", "unfinished"}

Init ==
    /\ tasks \in Days(TaskId)
    /\ jobs = {}
    /\ req = [s \in Client |-> Idle]
    /\ clock = 0
    /\ done = [t \in TaskId |-> 0]
    /\ paid = [t \in TaskId |-> 0]
    /\ wrong = {}
    /\ untimed = {}
    /\ mistimed = FALSE
    /\ resets = 0
    /\ stops = 0
----------------------------------------------------------------------------
At(s, label) == req[s].pc = label

HeldBy(p) == {t \in Live : tasks[t].player_id = p}

\* An _id is new if nothing has it and no timer or request knows it.
Unused == TaskId \ (Live \cup {j.task : j \in jobs} \cup {req[s].task : s \in Client})

\* The bound: a request starts if it and those that run may all be committed.
TimeLeft == clock + Cardinality({s \in Client : At(s, "start") \/ At(s, "commit")}) < MaxReservations

\* reserveTask up to its transaction: the task read is free.  A task of another
\* member is refused, the player's own is answered as it is.
reserveTask(s, p, t) ==
    /\ At(s, "idle") /\ TimeLeft /\ t \in Live /\ tasks[t].player_id = Nil
    /\ req' = [req EXCEPT ![s] = [Idle EXCEPT !.pc = "start", !.player = p, !.task = t,
                                              !.copy = tasks[t]]]
    /\ UNCHANGED <<tasks, jobs, clock, history>>

\* The transaction's first command fixes what it sees: the documents it will write.
startTransaction(s) ==
    /\ At(s, "start")
    /\ req' = [req EXCEPT ![s].pc = "commit",
                          ![s].seen = [t \in HeldBy(req[s].player) \cup {req[s].task} |-> tasks[t]]]
    /\ UNCHANGED <<tasks, jobs, clock, history>>

MutRelinquished(task) == [Fresh(task.kind, task.amount) EXCEPT !.amountLeft = task.amountLeft]

\* relinquishActiveTask: back to the pool as it was.
Relinquished(task) == Fresh(task.kind, task.amount)

\* The partial unique index on player_id.
UniqueHolder(p, after) == Cardinality({t \in TaskId : after[t] # Nil /\ after[t].player_id = p}) = 1

\* The rest of the transaction: the task the player holds is given back, and the
\* copy read before is written whole, but isRewarded, which a read leaves out.
\* It commits if no document it writes was changed since it began.
commitReservation(s) ==
    LET r == req[s]
        given == DOMAIN r.seen \ {r.task}
        copied == [r.copy EXCEPT !.player_id = r.player, !.startedAt = clock + 1,
                                 !.isRewarded = tasks[r.task].isRewarded]
        after == [t \in TaskId |-> IF t = r.task THEN copied
                                   ELSE IF t \in given THEN Relinquished(tasks[t])
                                   ELSE tasks[t]]
    IN  /\ At(s, "commit") /\ r.task \in Live
        /\ \A t \in DOMAIN r.seen : tasks[t] = r.seen[t]
        /\ UniqueHolder(r.player, after)
        /\ tasks' = after
        /\ clock' = clock + 1
        /\ req' = [req EXCEPT ![s] = [Idle EXCEPT !.pc = "enqueue", !.task = r.task,
                                                  !.copy = copied]]
        /\ done' = [t \in TaskId |-> IF t \in given THEN 0 ELSE done[t]]
        /\ paid' = [t \in TaskId |-> IF t \in given THEN 0 ELSE paid[t]]
        /\ UNCHANGED <<jobs, wrong, untimed, mistimed, resets, stops>>

\* A conflict, a second holder, a task that is gone, or the database: it is undone.
cancelTransaction(s) ==
    /\ At(s, "start") \/ At(s, "commit")
    /\ req' = [req EXCEPT ![s] = Idle]
    /\ UNCHANGED <<tasks, jobs, clock, history>>

MutAddDailyTask(s) ==
    LET copy == req[s].copy
    IN  /\ At(s, "enqueue")
        /\ jobs' = IF \E j \in jobs : j.task = req[s].task THEN jobs
                   ELSE jobs \cup {[task |-> req[s].task, amount |-> copy.amount,
                                    startedAt |-> copy.startedAt]}
        /\ req' = [req EXCEPT ![s] = Idle]
        /\ UNCHANGED <<tasks, clock, history>>

\* The timer of the reservation starts after its transaction.
addDailyTask(s) ==
    LET copy == req[s].copy
    IN  /\ At(s, "enqueue")
        /\ jobs' = jobs \cup {[task |-> req[s].task, amount |-> copy.amount,
                               startedAt |-> copy.startedAt]}
        /\ req' = [req EXCEPT ![s] = Idle]
        /\ UNCHANGED <<tasks, clock, history>>
----------------------------------------------------------------------------
\* A task starts anew under its _id, with nothing done.
Renew(t, task) ==
    /\ tasks' = [tasks EXCEPT ![t] = task]
    /\ done' = [done EXCEPT ![t] = 0]
    /\ paid' = [paid EXCEPT ![t] = 0]
    /\ UNCHANGED <<jobs, req, clock, wrong, untimed, mistimed, resets, stops>>

\* PUT /dailyTasks/unreserve
unreserveTask(p) ==
    \E t \in HeldBy(p) : Renew(t, Relinquished(tasks[t]))

\* DELETE /dailyTasks/:_id: a task of other values takes the place, under the same _id.
relinquishTaskById(p) ==
    \E t \in HeldBy(p) : \E task \in FreshTask : Renew(t, task)

\* deleteTask: a rewarded task is deleted and a random one created.
Replace(t, task) ==
    LET new == Min(Unused)
    IN  /\ Unused # {}
        /\ tasks' = [tasks EXCEPT ![t] = Nil, ![new] = task]
        /\ done' = [done EXCEPT ![t] = 0, ![new] = 0]
        /\ paid' = [paid EXCEPT ![t] = 0, ![new] = 0]

\* The clan is rewarded, and the player for a task of the player's.
Reward(t) ==
    wrong' = wrong \cup {fault \in {"again", "early", "unfinished"} :
                CASE fault = "again" -> paid[t] > 0
                  [] fault = "early" -> done[t] + 1 < tasks[t].amount
                  [] fault = "unfinished" -> tasks[t].amountLeft > 1}

OneStep(task) == [task EXCEPT !.amountLeft = @ - 1]

\* A step of the player's task; the last one is rewarded and replaces the task.
updateTask(p) ==
    \E t \in HeldBy(p) :
        /\ tasks[t].kind = "server" /\ tasks[t].amountLeft > 0 /\ ~tasks[t].isRewarded
        /\ IF tasks[t].amountLeft = 1
           THEN Reward(t) /\ \E task \in FreshTask : Replace(t, task)
           ELSE /\ tasks' = [tasks EXCEPT ![t] = OneStep(@)]
                /\ done' = [done EXCEPT ![t] = @ + 1]
                /\ UNCHANGED <<paid, wrong>>

\* An event of the game, for a task of any type: one transaction for step and reward.
handleDailyTaskEvent(p) ==
    /\ updateTask(p)
    /\ UNCHANGED <<jobs, req, clock, untimed, mistimed, resets, stops>>

\* UIDailyTasksService.updateTask: a completed UI task is not replaced.
updateUITask(p) ==
    \E t \in HeldBy(p) :
        /\ tasks[t].kind = "ui" /\ tasks[t].amountLeft > 0 /\ ~tasks[t].isRewarded
        /\ IF tasks[t].amountLeft = 1
           THEN /\ Reward(t)
                /\ tasks' = [tasks EXCEPT ![t] = Nil]
                /\ done' = [done EXCEPT ![t] = 0]
           ELSE /\ tasks' = [tasks EXCEPT ![t] = OneStep(@)]
                /\ done' = [done EXCEPT ![t] = @ + 1]
                /\ UNCHANGED wrong
        /\ UNCHANGED <<jobs, req, clock, paid, untimed, mistimed, resets, stops>>

\* deleteTask's filter: the task is the player's or nobody's.
MayDelete(p, t) == tasks[t].player_id \in {p, Nil}

\* A step of a clan task on which the task stays.
StayRewarded(t, task) ==
    /\ tasks' = [tasks EXCEPT ![t] = task]
    /\ done' = [done EXCEPT ![t] = @ + 1]
    /\ paid' = [paid EXCEPT ![t] = @ + 1]

\* A step of the clan task t by member p: the last one replaces the task, but one
\* that another member holds stays where it is.
ClanStep(p, t) ==
    CASE tasks[t].amountLeft > 1 -> StayRewarded(t, OneStep(tasks[t]))
      [] tasks[t].amountLeft = 1 /\ MayDelete(p, t) -> \E task \in FreshTask : Replace(t, task)
      [] OTHER -> StayRewarded(t, [OneStep(tasks[t]) EXCEPT !.isRewarded = TRUE])

MutUpdateClanTask(p) ==
    \E t \in Live :
        /\ tasks[t].kind = "motto" /\ tasks[t].amountLeft > 0
        /\ Reward(t) /\ ClanStep(p, t)
        /\ UNCHANGED <<jobs, req, clock, untimed, mistimed, resets, stops>>

\* updateClanTask: member p changed the motto.  The clan is rewarded whoever holds
\* the task, and whether or not this step is its last.
updateClanTask(p) ==
    \E t \in Live :
        /\ tasks[t].kind = "motto" /\ tasks[t].amountLeft > 0 /\ ~tasks[t].isRewarded
        /\ Reward(t) /\ ClanStep(p, t)
        /\ UNCHANGED <<jobs, req, clock, untimed, mistimed, resets, stops>>

----------------------------------------------------------------------------
MutHandleExpiredTask(j) ==
    /\ j \in jobs
    /\ jobs' = jobs \ {j}
    /\ IF j.task \in Live
       THEN /\ tasks' = [tasks EXCEPT ![j.task].amountLeft = j.amount]
            /\ done' = [done EXCEPT ![j.task] = 0]
            /\ mistimed' = (mistimed \/ j.amount # tasks[j.task].amount)
       ELSE UNCHANGED <<tasks, done, mistimed>>
    /\ UNCHANGED <<req, clock, paid, wrong, untimed, resets, stops>>

\* handleExpiredTask: the task of the timer is freed, whoever holds it by now,
\* with the amount of the reservation; if it is gone the job fails.
handleExpiredTask(j) ==
    /\ j \in jobs
    /\ jobs' = jobs \ {j}
    /\ IF j.task \in Live
       THEN /\ tasks' = [tasks EXCEPT ![j.task].amountLeft = j.amount,
                                      ![j.task].player_id = Nil, ![j.task].startedAt = 0]
            /\ done' = [done EXCEPT ![j.task] = 0]
            /\ mistimed' = (mistimed \/ j.amount # tasks[j.task].amount)
       ELSE UNCHANGED <<tasks, done, mistimed>>
    /\ UNCHANGED <<req, clock, paid, wrong, untimed, resets, stops>>

\* The database fails under the update: BullMQ tries the job once only.
failExpiredTask(j) ==
    /\ j \in jobs /\ stops < MaxStops
    /\ jobs' = jobs \ {j}
    /\ untimed' = untimed \cup {j.startedAt}
    /\ stops' = stops + 1
    /\ UNCHANGED <<tasks, req, clock, done, paid, wrong, mistimed, resets>>

\* At midnight every task is deleted and the day's pool created; the timers stay.
resetDailyTasks ==
    /\ resets < MaxResets
    /\ Cardinality(Unused) >= Len(Pool)
    /\ tasks' \in Days(Unused)
    /\ done' = [t \in TaskId |-> 0]
    /\ paid' = [t \in TaskId |-> 0]
    /\ resets' = resets + 1
    /\ UNCHANGED <<jobs, req, clock, wrong, untimed, mistimed, stops>>

\* The server stops: requests are gone, a timer not yet in Redis is never started.
Stop ==
    /\ stops < MaxStops
    /\ stops' = stops + 1
    /\ req' = [s \in Client |-> Idle]
    /\ untimed' = untimed \cup {req[s].copy.startedAt : s \in {c \in Client : At(c, "enqueue")}}
    /\ UNCHANGED <<tasks, jobs, clock, done, paid, wrong, mistimed, resets>>

RequestStep(s) ==
    \/ startTransaction(s)
    \/ commitReservation(s)
    \/ cancelTransaction(s)
    \/ addDailyTask(s)

Next ==
    \/ \E s \in Client, p \in Player, t \in TaskId : reserveTask(s, p, t)
    \/ \E s \in Client : RequestStep(s)
    \/ \E p \in Player :
          \/ unreserveTask(p)
          \/ relinquishTaskById(p)
          \/ handleDailyTaskEvent(p)
          \/ updateUITask(p)
          \/ updateClanTask(p)
    \/ \E j \in jobs : handleExpiredTask(j) \/ failExpiredTask(j)
    \/ resetDailyTasks
    \/ Stop

Spec == Init /\ [][Next]_vars

Expiry(n) == \E j \in jobs : j.startedAt = n /\ handleExpiredTask(j)

\* A request runs to its end, and BullMQ runs every job whose time is over.
FairSpec ==
    /\ Spec
    /\ \A s \in Client : WF_vars(RequestStep(s))
    /\ \A n \in Time \ {0} : WF_vars(Expiry(n))
----------------------------------------------------------------------------
Held(n) == \E t \in Live : tasks[t].player_id # Nil /\ tasks[t].startedAt = n

\* The timer of the reservation n of task t is in the queue, or about to be.
Timed(t, n) ==
    \/ \E j \in jobs : j.task = t /\ j.startedAt = n
    \/ \E s \in Client : At(s, "enqueue") /\ req[s].task = t /\ req[s].copy.startedAt = n

\* Every reservation has a timer of its own, which an earlier reservation's timer on
\* the same _id does not replace, unless a stop lost it or it failed.
HeldIsTimed ==
    \A t \in Live : tasks[t].player_id # Nil =>
        Timed(t, tasks[t].startedAt) \/ tasks[t].startedAt \in untimed

Unfinished == "unfinished" \in wrong

\* A task is rewarded once until it is given back or replaced, also when the clan
\* finishes it while a member holds it and it then runs out.  The exception is the
\* code's: the timer of an earlier task of that _id (handleExpiredTask) may leave a
\* clan task with several steps, and updateClanTask rewards every one of them.
PaidOnce == ("again" \in wrong => Unfinished) /\ (Unfinished => mistimed)

\* A reward is for as many steps as the task asks for, unless the timer of an earlier
\* reservation ran out on a task that was replaced under its _id since.
RewardEarned == mistimed \/ "early" \notin wrong

\* No reservation lasts for ever, unless a stop lost its timer or the timer failed.
HeldReleased ==
    \A n \in Time \ {0} : Held(n) ~> (~Held(n) \/ n \in untimed)
============================================================================
