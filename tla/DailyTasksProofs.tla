--------------------------- MODULE DailyTasksProofs ---------------------------
(***************************************************************************)
(* The timers of reservations, and what tasks are rewarded for.  What the    *)
(* second rests on: a task that nobody holds is whole, and so is the copy of *)
(* it that a reservation writes, and a clan task has one step, unless a      *)
(* timer of another task ran out on it.                                      *)
(***************************************************************************)
EXTENDS DailyTasks, FiniteSetTheorems, TLAPS

Task == [kind : Kind, amount : Nat, amountLeft : Nat, isRewarded : BOOLEAN,
         player_id : Player \cup {Nil}, startedAt : Nat]

Request == [pc : {"idle", "start", "commit", "enqueue"}, player : Player \cup {Nil},
            task : TaskId \cup {Nil}, copy : Task \cup {Nil},
            seen : {<<>>} \cup UNION {[D -> Task \cup {Nil}] : D \in SUBSET TaskId}]

Timer == [task : TaskId, amount : Nat, startedAt : Nat]

Whole(x) == x.amountLeft >= x.amount

\* A clan task takes one step, and has no more left.
OneAsked(x) == x.kind = "motto" => x.amount = 1

OneStepped(x) == x.kind = "motto" => x.amountLeft <= 1

\* A task that d steps were done of, rewarded n times: m if a timer hit a wrong task,
\* u if an unfinished task was rewarded.
Sound(x, d, n, m, u) ==
    /\ x \in Task /\ d \in Nat /\ n \in Nat
    /\ ~u /\ n > 0 => x.isRewarded
    /\ OneAsked(x)
    /\ ~m => /\ d + x.amountLeft >= x.amount /\ (x.player_id = Nil => Whole(x))
             /\ OneStepped(x)

\* What a reservation knows.
Knows(r, m) ==
    /\ r.pc \in {"start", "commit"} =>
         r.player \in Player /\ r.task \in TaskId /\ r.copy \in Task
         /\ OneAsked(r.copy)
         /\ (~m => Whole(r.copy) /\ OneStepped(r.copy))
    /\ r.pc = "commit" => \A t \in DOMAIN r.seen \ {r.task} : t \in TaskId /\ r.seen[t] # Nil
    /\ r.pc = "enqueue" => r.task \in TaskId /\ r.copy \in Task

Typed ==
    /\ tasks \in [TaskId -> Task \cup {Nil}]
    /\ done \in [TaskId -> Nat] /\ paid \in [TaskId -> Nat]
    /\ jobs \subseteq Timer
    /\ clock \in Nat
    /\ mistimed \in BOOLEAN
    /\ req \in [Client -> Request]

AllSound == \A t \in Live : Sound(tasks[t], done[t], paid[t], mistimed, Unfinished)

AllKnow == \A s \in Client : Knows(req[s], mistimed)

TasksInv ==
    /\ Typed
    /\ AllSound
    /\ AllKnow
    /\ PaidOnce
    /\ RewardEarned
----------------------------------------------------------------------------
LEMMA FreshTasks ==
    ASSUME NEW kind \in Kind, NEW amount \in Nat, kind = "motto" => amount = 1
    PROVE  /\ Fresh(kind, amount) \in Task /\ Fresh(kind, amount).player_id = Nil
           /\ \A m, u \in BOOLEAN : Sound(Fresh(kind, amount), 0, 0, m, u)
  <1> DEFINE x == Fresh(kind, amount)
  <1>1. /\ x \in Task /\ x.player_id = Nil /\ x.amountLeft = amount /\ x.amount = amount
        /\ x.kind = kind
    BY DEF Fresh, Task
  <1> HIDE DEF x
  <1>2. \A m, u \in BOOLEAN : Sound(x, 0, 0, m, u)
    BY <1>1 DEF Sound, Whole, OneAsked, OneStepped
  <1> QED BY <1>1, <1>2 DEF x

LEMMA RelinquishedTasks ==
    ASSUME NEW task \in Task, OneAsked(task)
    PROVE  /\ Relinquished(task) \in Task /\ Relinquished(task).player_id = Nil
           /\ \A m, u \in BOOLEAN : Sound(Relinquished(task), 0, 0, m, u)
  <1>1. task.kind \in Kind /\ task.amount \in Nat
    BY DEF Task
  <1> QED BY <1>1, FreshTasks DEF Relinquished, OneAsked

LEMMA Amounts ==
    \A kind \in Kind : \A amount \in AmountsOf(kind) : amount \in Nat /\ (kind = "motto" => amount = 1)
  BY AmountAssumption DEF AmountsOf, Kind

LEMMA FreshOnes ==
    ASSUME NEW task \in FreshTask
    PROVE  task \in Task /\ task.player_id = Nil /\ \A m, u \in BOOLEAN : Sound(task, 0, 0, m, u)
  <1>1. PICK k \in {"server", "motto"} : \E a \in AmountsOf(k) : task = Fresh(k, a)
    BY DEF FreshTask
  <1>2. k \in Kind
    BY DEF Kind
  <1> QED BY <1>1, <1>2, Amounts, FreshTasks

\* A day's tasks are fresh.
LEMMA FreshDays ==
    ASSUME NEW ids \in SUBSET TaskId, NEW f \in Days(ids)
    PROVE  /\ f \in [TaskId -> Task \cup {Nil}]
           /\ \A t \in TaskId : f[t] # Nil =>
                f[t].player_id = Nil /\ \A m, u \in BOOLEAN : Sound(f[t], 0, 0, m, u)
  <1>1. PICK amounts \in [1 .. Len(Pool) -> Amount \cup {1}] :
           /\ \A i \in 1 .. Len(Pool) : amounts[i] \in AmountsOf(Pool[i])
           /\ f = [t \in TaskId |-> IF t \in ids /\ Rank(ids, t) <= Len(Pool)
                                    THEN Fresh(Pool[Rank(ids, t)], amounts[Rank(ids, t)]) ELSE Nil]
    BY DEF Days
  <1>2. ASSUME NEW t \in ids, Rank(ids, t) <= Len(Pool)
        PROVE  Rank(ids, t) \in 1 .. Len(Pool)
    <2> DEFINE S == {u \in ids : u <= t}
    <2>1. ids \subseteq Nat /\ t \in Nat
      BY TaskIdAssumption
    <2>2. t \in S /\ \A u \in S : u \in 0..t
      BY <2>1
    <2>3. IsFiniteSet(0..t)
      BY <2>1, FS_Interval
    <2> HIDE DEF S
    <2>4. IsFiniteSet(S)
      <3>1. S \in SUBSET (0..t)
        BY <2>2
      <3> QED BY <2>3, <3>1, FS_Subset
    <2>5. Cardinality(S) \in Nat
      BY <2>4, FS_CardinalityType
    <2>6. Cardinality(S) # 0
      BY <2>2, <2>4, FS_EmptySet
    <2>7. Rank(ids, t) = Cardinality(S)
      BY DEF Rank, S
    <2>8. Len(Pool) \in Nat
      BY PoolAssumption
    <2> QED BY <2>5, <2>6, <2>7, <2>8, <1>2
  <1>3. \A i \in 1 .. Len(Pool) :
           Pool[i] \in Kind /\ amounts[i] \in Nat /\ (Pool[i] = "motto" => amounts[i] = 1)
    BY <1>1, PoolAssumption, Amounts
  <1>4. ASSUME NEW t \in TaskId
        PROVE  \/ f[t] = Nil
               \/ \E k \in Kind, a \in Nat : f[t] = Fresh(k, a) /\ (k = "motto" => a = 1)
    <2>1. CASE t \in ids /\ Rank(ids, t) <= Len(Pool)
      <3>1. f[t] = Fresh(Pool[Rank(ids, t)], amounts[Rank(ids, t)])
        BY <1>1, <2>1
      <3>2. /\ Pool[Rank(ids, t)] \in Kind /\ amounts[Rank(ids, t)] \in Nat
            /\ Pool[Rank(ids, t)] = "motto" => amounts[Rank(ids, t)] = 1
        BY <1>2, <1>3, <2>1
      <3> QED BY <3>1, <3>2
    <2>2. CASE ~ (t \in ids /\ Rank(ids, t) <= Len(Pool))
      BY <1>1, <2>2
    <2> QED BY <2>1, <2>2
  <1>5. f = [t \in TaskId |-> f[t]]
    BY <1>1
  <1>6. \A t \in TaskId : f[t] \in Task \cup {Nil}
    BY <1>4, FreshTasks
  <1>7. f \in [TaskId -> Task \cup {Nil}]
    BY <1>5, <1>6
  <1>8. \A t \in TaskId : f[t] # Nil =>
           f[t].player_id = Nil /\ \A m, u \in BOOLEAN : Sound(f[t], 0, 0, m, u)
    BY <1>4, FreshTasks
  <1> QED BY <1>7, <1>8
----------------------------------------------------------------------------
\* What a step may make of the task t.
Turn(t) ==
    \/ tasks'[t] = Nil
    \/ tasks'[t] = tasks[t] /\ done'[t] = done[t] /\ paid'[t] = paid[t]
    \/ Sound(tasks'[t], done'[t], paid'[t], mistimed', Unfinished')

\* What went wrong remains so.
Later == (mistimed => mistimed') /\ (Unfinished => Unfinished') /\ mistimed' \in BOOLEAN

LEMMA SoundLater ==
    ASSUME NEW x, NEW d, NEW n, Sound(x, d, n, mistimed, Unfinished), Later
    PROVE  Sound(x, d, n, mistimed', Unfinished')
  BY DEF Sound, Later

LEMMA Booleans == Unfinished \in BOOLEAN /\ Unfinished' \in BOOLEAN
  BY DEF Unfinished

LEMMA Turns ==
    ASSUME TasksInv, Later, \A t \in TaskId : Turn(t)
    PROVE  AllSound'
  <1> SUFFICES ASSUME NEW t \in TaskId, tasks'[t] # Nil
               PROVE  Sound(tasks'[t], done'[t], paid'[t], mistimed', Unfinished')
    BY DEF AllSound, Live
  <1>1. CASE tasks'[t] = tasks[t] /\ done'[t] = done[t] /\ paid'[t] = paid[t]
    <2>1. Sound(tasks[t], done[t], paid[t], mistimed, Unfinished)
      BY <1>1 DEF TasksInv, AllSound, Live
    <2> QED BY <1>1, <2>1, SoundLater
  <1> QED BY <1>1 DEF Turn

LEMMA Unharmed ==
    ASSUME TasksInv, UNCHANGED <<wrong, mistimed>>
    PROVE  Later /\ PaidOnce' /\ RewardEarned' /\ Unfinished' = Unfinished
  BY DEF TasksInv, Typed, PaidOnce, RewardEarned, Unfinished, Later

\* The variables of a step that no task changes by.
LEMMA Stays ==
    ASSUME TasksInv, UNCHANGED <<tasks, done, paid, wrong, mistimed>>
    PROVE  AllSound' /\ PaidOnce' /\ RewardEarned'
  <1>1. \A t \in TaskId : Turn(t)
    BY DEF Turn
  <1> QED BY <1>1, Unharmed, Turns

LEMMA KnowsLater ==
    ASSUME TasksInv, mistimed => mistimed', mistimed' \in BOOLEAN, NEW s \in Client, NEW r \in Request,
           Knows(r, mistimed'), req' = [req EXCEPT ![s] = r] \/ req' = req
    PROVE  req' \in [Client -> Request] /\ AllKnow'
  <1>1. \A u \in Client : Knows(req[u], mistimed')
    BY DEF TasksInv, Typed, AllKnow, Knows
  <1>2. \A u \in Client : Knows(req'[u], mistimed')
    BY <1>1 DEF TasksInv, Typed
  <1> QED BY <1>2 DEF TasksInv, Typed, AllKnow

LEMMA KnowsStill ==
    ASSUME TasksInv, mistimed => mistimed', mistimed' \in BOOLEAN, req' = req
    PROVE  AllKnow'
  BY DEF TasksInv, Typed, AllKnow, Knows

LEMMA IdleRequest == Idle \in Request /\ Idle.pc = "idle" /\ \A m \in BOOLEAN : Knows(Idle, m)
  BY DEF Idle, Request, Knows

LEMMA LiveTasks ==
    ASSUME TasksInv, NEW t \in Live
    PROVE  /\ t \in TaskId /\ tasks[t] \in Task /\ Sound(tasks[t], done[t], paid[t], mistimed, Unfinished)
           /\ done[t] \in Nat /\ paid[t] \in Nat /\ mistimed \in BOOLEAN
  BY DEF TasksInv, Typed, AllSound, Live
----------------------------------------------------------------------------
(* Reservations                                                             *)

LEMMA Reserves ==
    ASSUME TasksInv, NEW s \in Client, NEW p \in Player, NEW t \in TaskId, reserveTask(s, p, t)
    PROVE  TasksInv'
  <1> DEFINE r == [Idle EXCEPT !.pc = "start", !.player = p, !.task = t, !.copy = tasks[t]]
  <1>1. t \in Live /\ tasks[t].player_id = Nil
    BY DEF reserveTask
  <1>2. /\ tasks[t] \in Task /\ OneAsked(tasks[t]) /\ mistimed \in BOOLEAN
        /\ ~mistimed => Whole(tasks[t]) /\ OneStepped(tasks[t])
    BY <1>1, LiveTasks DEF Sound
  <1>3. r \in Request /\ r.pc = "start" /\ r.player = p /\ r.task = t /\ r.copy = tasks[t]
    BY <1>2, IdleRequest DEF Request
  <1>4. req' = [req EXCEPT ![s] = r] /\ UNCHANGED <<tasks, jobs, clock, history>>
    BY DEF reserveTask
  <1>5. UNCHANGED <<tasks, jobs, clock, done, paid, wrong, mistimed>>
    BY <1>4 DEF history
  <1> HIDE DEF r
  <1>6. Knows(r, mistimed)
    BY <1>2, <1>3 DEF Knows
  <1>7. req' \in [Client -> Request] /\ AllKnow'
    <2>1. PICK n : n = r
      OBVIOUS
    <2>2. n \in Request /\ Knows(n, mistimed') /\ req' = [req EXCEPT ![s] = n]
      BY <2>1, <1>3, <1>4, <1>5, <1>6
    <2> QED BY <2>2, <1>2, <1>5, KnowsLater
  <1> QED BY <1>2, <1>5, <1>7, Stays DEF TasksInv, Typed

\* A reservation that ends, or does not commit.
LEMMA Idles ==
    ASSUME TasksInv, NEW s \in Client, req' = [req EXCEPT ![s] = Idle],
           UNCHANGED <<tasks, clock, done, paid, wrong, mistimed>>, jobs' \subseteq Timer
    PROVE  TasksInv'
  <1>1. mistimed \in BOOLEAN
    BY DEF TasksInv, Typed
  <1>2. req' \in [Client -> Request] /\ AllKnow'
    BY <1>1, IdleRequest, KnowsLater
  <1> QED BY <1>1, <1>2, Stays DEF TasksInv, Typed

LEMMA Transacts ==
    ASSUME TasksInv, NEW s \in Client, startTransaction(s)
    PROVE  TasksInv'
  <1>1. PICK r, seen, n : /\ r = req[s]
                          /\ seen = [t \in HeldBy(req[s].player) \cup {req[s].task} |-> tasks[t]]
                          /\ n = [req[s] EXCEPT !.pc = "commit", !.seen = seen]
    OBVIOUS
  <1>2. r \in Request /\ r.pc = "start" /\ Knows(r, mistimed) /\ mistimed \in BOOLEAN
    BY <1>1 DEF startTransaction, At, TasksInv, Typed, AllKnow
  <1>3. r.player \in Player /\ r.task \in TaskId /\ r.copy \in Task /\ OneAsked(r.copy)
        /\ (~mistimed => Whole(r.copy) /\ OneStepped(r.copy))
    BY <1>2 DEF Knows
  <1>4. /\ DOMAIN seen = HeldBy(r.player) \cup {r.task}
        /\ \A t \in DOMAIN seen : seen[t] = tasks[t]
        /\ seen \in [DOMAIN seen -> Task \cup {Nil}]
        /\ DOMAIN seen \subseteq TaskId
    BY <1>1, <1>3 DEF HeldBy, Live, TasksInv, Typed
  <1>5. seen \in UNION {[D -> Task \cup {Nil}] : D \in SUBSET TaskId}
    BY <1>4
  <1>6. /\ n \in Request /\ n.pc = "commit" /\ n.seen = seen /\ n.player = r.player
        /\ n.task = r.task /\ n.copy = r.copy
    BY <1>1, <1>2, <1>5 DEF Request
  <1>7. \A t \in DOMAIN n.seen \ {n.task} : t \in TaskId /\ n.seen[t] # Nil
    BY <1>4, <1>6 DEF HeldBy, Live
  <1>8. Knows(n, mistimed)
    BY <1>3, <1>6, <1>7 DEF Knows
  <1>9. UNCHANGED <<tasks, jobs, clock, done, paid, wrong, mistimed>>
    BY DEF startTransaction, history
  <1>10. req' = [req EXCEPT ![s] = n]
    BY <1>1 DEF startTransaction, TasksInv, Typed
  <1>11. Knows(n, mistimed')
    BY <1>8, <1>9
  <1>12. req' \in [Client -> Request] /\ AllKnow'
    BY <1>2, <1>6, <1>9, <1>10, <1>11, KnowsLater
  <1> QED BY <1>2, <1>9, <1>12, Stays DEF TasksInv, Typed

LEMMA Commits ==
    ASSUME TasksInv, NEW s \in Client, commitReservation(s)
    PROVE  TasksInv'
  <1>1. PICK r, given, copied, after :
          /\ r = req[s]
          /\ given = DOMAIN r.seen \ {r.task}
          /\ copied = [r.copy EXCEPT !.player_id = r.player, !.startedAt = clock + 1,
                                     !.isRewarded = tasks[r.task].isRewarded]
          /\ after = [t \in TaskId |-> IF t = r.task THEN copied
                                       ELSE IF t \in given THEN Relinquished(tasks[t])
                                       ELSE tasks[t]]
    OBVIOUS
  <1>2. /\ r.pc = "commit" /\ r.task \in Live
        /\ \A t \in DOMAIN r.seen : tasks[t] = r.seen[t]
        /\ UniqueHolder(r.player, after)
        /\ tasks' = after
        /\ clock' = clock + 1
        /\ done' = [t \in TaskId |-> IF t \in given THEN 0 ELSE done[t]]
        /\ paid' = [t \in TaskId |-> IF t \in given THEN 0 ELSE paid[t]]
        /\ UNCHANGED <<jobs, wrong, mistimed>>
    BY <1>1 DEF commitReservation, At
  <1>3. r \in Request /\ Knows(r, mistimed) /\ mistimed \in BOOLEAN
    BY <1>1 DEF TasksInv, Typed, AllKnow
  <1>4. r.player \in Player /\ r.task \in TaskId /\ r.copy \in Task /\ OneAsked(r.copy)
        /\ (~mistimed => Whole(r.copy) /\ OneStepped(r.copy))
    BY <1>2, <1>3 DEF Knows
  <1>5. /\ tasks[r.task] \in Task /\ done[r.task] \in Nat /\ paid[r.task] \in Nat
        /\ ~Unfinished /\ paid[r.task] > 0 => tasks[r.task].isRewarded
    BY <1>2, LiveTasks DEF Sound
  <1>6. /\ copied \in Task /\ copied.player_id = r.player /\ copied.amount = r.copy.amount
        /\ copied.amountLeft = r.copy.amountLeft /\ copied.isRewarded = tasks[r.task].isRewarded
        /\ copied.kind = r.copy.kind
    <2>1. clock + 1 \in Nat /\ tasks[r.task].isRewarded \in BOOLEAN
      BY <1>5 DEF TasksInv, Typed, Task
    <2> QED BY <2>1, <1>1, <1>4 DEF Task
  <1>7. \A t \in given : t \in Live /\ t # r.task
    BY <1>1, <1>2, <1>3 DEF Knows, Live
  <1>8. ASSUME NEW t \in TaskId
        PROVE  /\ t = r.task => tasks'[t] = copied /\ done'[t] = done[t] /\ paid'[t] = paid[t]
               /\ t \in given => /\ tasks'[t] \in Task /\ tasks'[t].player_id = Nil
                                 /\ Sound(tasks'[t], done'[t], paid'[t], mistimed', Unfinished')
               /\ t # r.task /\ t \notin given =>
                    tasks'[t] = tasks[t] /\ done'[t] = done[t] /\ paid'[t] = paid[t]
    <2>1. t = r.task => t \notin given
      BY <1>7
    <2>2. ASSUME t \in given
          PROVE  /\ tasks'[t] \in Task /\ tasks'[t].player_id = Nil
                 /\ Sound(tasks'[t], done'[t], paid'[t], mistimed', Unfinished')
      <3>1. tasks'[t] = Relinquished(tasks[t]) /\ done'[t] = 0 /\ paid'[t] = 0
        BY <1>1, <1>2, <1>7, <2>2
      <3>2. tasks[t] \in Task /\ OneAsked(tasks[t])
        BY <1>7, <2>2, LiveTasks DEF Sound
      <3> QED BY <1>2, <1>3, <3>1, <3>2, RelinquishedTasks, Booleans
    <2> QED BY <1>1, <1>2, <2>1, <2>2
  <1>9. tasks' \in [TaskId -> Task \cup {Nil}]
    <2>1. \A t \in TaskId : tasks'[t] \in Task \cup {Nil}
      BY <1>6, <1>8 DEF TasksInv, Typed
    <2>2. tasks' = [t \in TaskId |-> tasks'[t]]
      BY <1>1, <1>2
    <2> QED BY <2>1, <2>2
  <1>10. done' \in [TaskId -> Nat] /\ paid' \in [TaskId -> Nat]
    BY <1>2 DEF TasksInv, Typed
  <1>11. AllSound'
    <2> SUFFICES ASSUME NEW t \in TaskId, tasks'[t] # Nil
                 PROVE  Sound(tasks'[t], done'[t], paid'[t], mistimed', Unfinished')
      BY DEF AllSound, Live
    <2>1. CASE t = r.task
      <3>1. Sound(copied, done[t], paid[t], mistimed, Unfinished)
        BY <1>4, <1>5, <1>6, <2>1, NilAssumption DEF Sound, Whole, Task, OneAsked, OneStepped
      <3> QED BY <1>2, <1>8, <2>1, <3>1, Unharmed
    <2>2. CASE t # r.task /\ t \notin given
      <3>1. t \in Live
        BY <1>8, <2>2 DEF Live
      <3> QED BY <1>2, <1>8, <2>2, <3>1, LiveTasks, Unharmed
    <2> QED BY <1>8, <2>1, <2>2
  <1>13. req' \in [Client -> Request] /\ AllKnow'
    <2>1. PICK n : n = [Idle EXCEPT !.pc = "enqueue", !.task = r.task, !.copy = copied]
      OBVIOUS
    <2>2. n \in Request /\ n.pc = "enqueue" /\ n.task = r.task /\ n.copy = copied
      BY <2>1, <1>4, <1>6, IdleRequest DEF Request
    <2>3. Knows(n, mistimed')
      BY <2>2, <1>4, <1>6 DEF Knows
    <2>4. req' = [req EXCEPT ![s] = n]
      BY <1>1, <2>1 DEF commitReservation
    <2> QED BY <1>2, <1>3, <2>2, <2>3, <2>4, KnowsLater
  <1>14. clock' \in Nat
    BY <1>2 DEF TasksInv, Typed
  <1>15. PaidOnce' /\ RewardEarned'
    BY <1>2, Unharmed
  <1> QED BY <1>2, <1>9, <1>10, <1>11, <1>13, <1>14, <1>15 DEF TasksInv, Typed

LEMMA Enqueues ==
    ASSUME TasksInv, NEW s \in Client, addDailyTask(s)
    PROVE  TasksInv'
  <1>1. req[s] \in Request /\ Knows(req[s], mistimed) /\ req[s].pc = "enqueue"
    BY DEF TasksInv, Typed, AllKnow, addDailyTask, At
  <1>2. req[s].task \in TaskId /\ req[s].copy \in Task
    BY <1>1 DEF Knows
  <1>3. req[s].copy.amount \in Nat /\ req[s].copy.startedAt \in Nat
    BY <1>2 DEF Task
  <1>4. jobs' \subseteq Timer
    BY <1>2, <1>3 DEF addDailyTask, TasksInv, Typed, Timer
  <1> QED BY <1>4, Idles DEF addDailyTask, history
----------------------------------------------------------------------------
(* Steps and rewards                                                        *)

\* A step that changes tasks and no request.
LEMMA Changes ==
    ASSUME TasksInv, UNCHANGED <<req, clock>>, Later, jobs' \subseteq Timer,
           tasks' \in [TaskId -> Task \cup {Nil}], done' \in [TaskId -> Nat], paid' \in [TaskId -> Nat],
           \A t \in TaskId : Turn(t), PaidOnce', RewardEarned'
    PROVE  TasksInv'
  <1>1. AllSound'
    BY Turns
  <1>2. AllKnow' /\ mistimed' \in BOOLEAN
    BY KnowsStill DEF Later
  <1> QED BY <1>1, <1>2 DEF TasksInv, Typed

LEMMA Renews ==
    ASSUME TasksInv, NEW t \in Live, NEW task \in Task, task.player_id = Nil,
           \A m, u \in BOOLEAN : Sound(task, 0, 0, m, u), Renew(t, task)
    PROVE  TasksInv'
  <1>1. t \in TaskId /\ mistimed \in BOOLEAN /\ Unfinished \in BOOLEAN
    BY LiveTasks DEF Unfinished
  <1>2. /\ tasks' = [tasks EXCEPT ![t] = task] /\ done' = [done EXCEPT ![t] = 0]
        /\ paid' = [paid EXCEPT ![t] = 0] /\ UNCHANGED <<jobs, req, clock, wrong, mistimed>>
    BY DEF Renew
  <1>3. /\ tasks' \in [TaskId -> Task \cup {Nil}] /\ done' \in [TaskId -> Nat]
        /\ paid' \in [TaskId -> Nat]
    BY <1>2 DEF TasksInv, Typed
  <1>4. \A u \in TaskId : Turn(u)
    <2> SUFFICES ASSUME NEW u \in TaskId PROVE Turn(u)
      OBVIOUS
    <2>1. CASE u = t
      <3>1. tasks'[u] = task /\ done'[u] = 0 /\ paid'[u] = 0
        BY <1>2, <2>1 DEF TasksInv, Typed
      <3>2. Sound(task, 0, 0, mistimed', Unfinished')
        BY <1>1, <1>2, Unharmed
      <3> QED BY <3>1, <3>2 DEF Turn
    <2>2. CASE u # t
      BY <1>2, <2>2 DEF Turn, TasksInv, Typed
    <2> QED BY <2>1, <2>2
  <1> QED BY <1>2, <1>3, <1>4, Changes, Unharmed DEF TasksInv, Typed

LEMMA Replaces ==
    ASSUME TasksInv, NEW t \in Live, NEW task \in FreshTask, Replace(t, task), mistimed' = mistimed
    PROVE  /\ tasks' \in [TaskId -> Task \cup {Nil}] /\ done' \in [TaskId -> Nat]
           /\ paid' \in [TaskId -> Nat]
           /\ \A u \in TaskId : Turn(u)
  <1>1. PICK new : new = Min(Unused)
    OBVIOUS
  <1>2. /\ tasks' = [tasks EXCEPT ![t] = Nil, ![new] = task]
        /\ done' = [done EXCEPT ![t] = 0, ![new] = 0]
        /\ paid' = [paid EXCEPT ![t] = 0, ![new] = 0]
    BY <1>1 DEF Replace
  <1>3. task \in Task /\ task.player_id = Nil /\ Sound(task, 0, 0, mistimed', Unfinished') /\ t \in TaskId
    BY FreshOnes, LiveTasks, Booleans
  <1>4. /\ tasks' \in [TaskId -> Task \cup {Nil}] /\ done' \in [TaskId -> Nat]
        /\ paid' \in [TaskId -> Nat]
    BY <1>2, <1>3 DEF TasksInv, Typed
  <1>5. ASSUME NEW u \in TaskId
        PROVE  Turn(u)
    <2>1. CASE u = new
      <3>1. tasks'[u] = task /\ done'[u] = 0 /\ paid'[u] = 0
        BY <1>2, <2>1 DEF TasksInv, Typed
      <3> QED BY <1>3, <3>1 DEF Turn
    <2>2. CASE u = t /\ u # new
      BY <1>2, <2>2 DEF Turn, TasksInv, Typed
    <2>3. CASE u # t /\ u # new
      BY <1>2, <2>3 DEF Turn, TasksInv, Typed
    <2> QED BY <2>1, <2>2, <2>3
  <1> QED BY <1>4, <1>5

\* A reward of a sound task is the first, if it is for the last step, and after the
\* other steps; only a clan task that a timer hit is rewarded before that.
LEMMA Rewards ==
    ASSUME TasksInv, NEW t \in Live, ~tasks[t].isRewarded, Reward(t), mistimed' = mistimed,
           tasks[t].amountLeft = 1 \/ (tasks[t].amountLeft > 0 /\ tasks[t].kind = "motto")
    PROVE  /\ PaidOnce' /\ RewardEarned' /\ Later
           /\ tasks[t].amountLeft = 1 => Unfinished' = Unfinished
           /\ tasks[t].amountLeft > 1 => mistimed /\ Unfinished'
  <1>1. Sound(tasks[t], done[t], paid[t], mistimed, Unfinished) /\ tasks[t] \in Task
    BY LiveTasks
  <1>2. tasks[t].amountLeft \in Nat /\ tasks[t].amount \in Nat /\ done[t] \in Nat /\ paid[t] \in Nat
    BY <1>1 DEF Sound, Task
  <1>3. /\ ~Unfinished => ~ (paid[t] > 0)
        /\ ~mistimed => tasks[t].amountLeft = 1 /\ ~ (done[t] + 1 < tasks[t].amount)
    BY <1>1, <1>2 DEF Sound, OneStepped
  <1>4. /\ "again" \in wrong' => "again" \in wrong \/ paid[t] > 0
        /\ "early" \in wrong' => "early" \in wrong \/ done[t] + 1 < tasks[t].amount
        /\ "unfinished" \in wrong' <=> "unfinished" \in wrong \/ tasks[t].amountLeft > 1
    BY DEF Reward
  <1> QED BY <1>2, <1>3, <1>4 DEF TasksInv, Typed, PaidOnce, RewardEarned, Unfinished, Later

\* A step that leaves the task unfinished.
LEMMA Steps ==
    ASSUME TasksInv, NEW t \in Live, tasks[t].player_id # Nil, tasks[t].amountLeft > 0,
           tasks' = [tasks EXCEPT ![t] = OneStep(@)], done' = [done EXCEPT ![t] = @ + 1],
           UNCHANGED <<paid, mistimed, wrong>>
    PROVE  /\ tasks' \in [TaskId -> Task \cup {Nil}] /\ done' \in [TaskId -> Nat]
           /\ paid' \in [TaskId -> Nat]
           /\ \A u \in TaskId : Turn(u)
  <1>1. PICK x, y : x = tasks[t] /\ y = OneStep(x)
    OBVIOUS
  <1>2. /\ x \in Task /\ Sound(x, done[t], paid[t], mistimed, Unfinished) /\ t \in TaskId
        /\ x.player_id # Nil /\ x.amountLeft > 0
    BY <1>1, LiveTasks
  <1>3. /\ y \in Task /\ y.player_id = x.player_id /\ y.amount = x.amount
        /\ y.amountLeft = x.amountLeft - 1 /\ y.isRewarded = x.isRewarded /\ y.kind = x.kind
    BY <1>1, <1>2 DEF OneStep, Task
  <1>4. /\ tasks'[t] = y /\ done'[t] = done[t] + 1 /\ paid'[t] = paid[t]
        /\ \A u \in TaskId : u # t => tasks'[u] = tasks[u] /\ done'[u] = done[u] /\ paid'[u] = paid[u]
    BY <1>1, <1>2 DEF TasksInv, Typed
  <1>5. Sound(y, done[t] + 1, paid[t], mistimed', Unfinished')
    <2>1. Sound(y, done[t] + 1, paid[t], mistimed, Unfinished)
      BY <1>2, <1>3 DEF Sound, Task, OneAsked, OneStepped
    <2> QED BY <2>1, Unharmed
  <1>6. \A u \in TaskId : Turn(u)
    BY <1>1, <1>3, <1>4, <1>5 DEF Turn
  <1>7. tasks' \in [TaskId -> Task \cup {Nil}]
    BY <1>1, <1>3 DEF TasksInv, Typed
  <1>8. done' \in [TaskId -> Nat] /\ paid' \in [TaskId -> Nat]
    BY <1>2 DEF TasksInv, Typed
  <1> QED BY <1>6, <1>7, <1>8

LEMMA HeldTasks ==
    ASSUME NEW p \in Player, NEW t \in HeldBy(p)
    PROVE  t \in Live /\ tasks[t].player_id # Nil
  BY NilAssumption DEF HeldBy

LEMMA EventSteps ==
    ASSUME TasksInv, NEW p \in Player, handleDailyTaskEvent(p)
    PROVE  TasksInv'
  <1>1. PICK t \in HeldBy(p) :
          /\ tasks[t].amountLeft > 0 /\ ~tasks[t].isRewarded
          /\ \/ tasks[t].amountLeft = 1 /\ Reward(t) /\ \E task \in FreshTask : Replace(t, task)
             \/ /\ tasks' = [tasks EXCEPT ![t] = OneStep(@)]
                /\ done' = [done EXCEPT ![t] = @ + 1]
                /\ UNCHANGED <<paid, wrong>>
    BY DEF handleDailyTaskEvent, updateTask
  <1>2. UNCHANGED <<jobs, req, clock, mistimed>>
    BY DEF handleDailyTaskEvent
  <1>3. t \in Live /\ tasks[t].player_id # Nil
    BY HeldTasks
  <1>4. /\ tasks' \in [TaskId -> Task \cup {Nil}] /\ done' \in [TaskId -> Nat]
        /\ paid' \in [TaskId -> Nat]
        /\ \A u \in TaskId : Turn(u)
    BY <1>1, <1>2, <1>3, Replaces, Steps
  <1>5. PaidOnce' /\ RewardEarned' /\ Later
    BY <1>1, <1>2, <1>3, Rewards, Unharmed
  <1> QED BY <1>2, <1>4, <1>5, Changes DEF TasksInv, Typed

LEMMA UISteps ==
    ASSUME TasksInv, NEW p \in Player, updateUITask(p)
    PROVE  TasksInv'
  <1>1. PICK t \in HeldBy(p) :
          /\ tasks[t].amountLeft > 0 /\ ~tasks[t].isRewarded
          /\ \/ /\ tasks[t].amountLeft = 1 /\ Reward(t)
                /\ tasks' = [tasks EXCEPT ![t] = Nil] /\ done' = [done EXCEPT ![t] = 0]
             \/ /\ tasks' = [tasks EXCEPT ![t] = OneStep(@)]
                /\ done' = [done EXCEPT ![t] = @ + 1]
                /\ UNCHANGED wrong
          /\ UNCHANGED <<jobs, req, clock, paid, mistimed>>
    BY DEF updateUITask
  <1>2. t \in Live /\ tasks[t].player_id # Nil
    BY HeldTasks
  <1>3. ASSUME tasks' = [tasks EXCEPT ![t] = Nil] /\ done' = [done EXCEPT ![t] = 0]
        PROVE  /\ tasks' \in [TaskId -> Task \cup {Nil}] /\ done' \in [TaskId -> Nat]
               /\ \A u \in TaskId : Turn(u)
    BY <1>1, <1>3 DEF Turn, TasksInv, Typed
  <1>4. paid' \in [TaskId -> Nat]
    BY <1>1 DEF TasksInv, Typed
  <1>5. /\ tasks' \in [TaskId -> Task \cup {Nil}] /\ done' \in [TaskId -> Nat]
        /\ \A u \in TaskId : Turn(u)
    BY <1>1, <1>2, <1>3, Steps
  <1>6. PaidOnce' /\ RewardEarned' /\ Later
    BY <1>1, <1>2, Rewards, Unharmed
  <1> QED BY <1>1, <1>4, <1>5, <1>6, Changes DEF TasksInv, Typed

\* A step of a clan task that stays: its last one marks it rewarded.
LEMMA ClanStays ==
    ASSUME TasksInv, NEW t \in Live, NEW y, StayRewarded(t, y), ~tasks[t].isRewarded, Later,
           tasks[t].amountLeft > 0, mistimed' = mistimed,
           \/ y = [OneStep(tasks[t]) EXCEPT !.isRewarded = TRUE] /\ tasks[t].player_id # Nil
           \/ y = OneStep(tasks[t]) /\ mistimed /\ Unfinished'
    PROVE  /\ tasks' \in [TaskId -> Task \cup {Nil}] /\ done' \in [TaskId -> Nat]
           /\ paid' \in [TaskId -> Nat]
           /\ \A u \in TaskId : Turn(u)
  <1>1. PICK x : x = tasks[t]
    OBVIOUS
  <1>2. /\ x \in Task /\ Sound(x, done[t], paid[t], mistimed, Unfinished) /\ t \in TaskId
        /\ x.amountLeft > 0
    BY <1>1, LiveTasks
  <1>3. /\ y \in Task /\ y.player_id = x.player_id /\ y.amount = x.amount /\ y.kind = x.kind
        /\ y.amountLeft = x.amountLeft - 1
        /\ (y.isRewarded /\ x.player_id # Nil) \/ (mistimed /\ Unfinished')
    <2>1. x.amountLeft - 1 \in Nat
      BY <1>2 DEF Task
    <2>2. CASE y = [x EXCEPT !.amountLeft = @ - 1]
      BY <1>1, <1>2, <2>1, <2>2 DEF Task, OneStep
    <2>3. CASE y = [[x EXCEPT !.amountLeft = @ - 1] EXCEPT !.isRewarded = TRUE]
      BY <1>1, <1>2, <2>1, <2>3 DEF Task, OneStep
    <2> QED BY <1>1, <2>2, <2>3 DEF OneStep
  <1>4. /\ tasks'[t] = y /\ done'[t] = done[t] + 1 /\ paid'[t] = paid[t] + 1
        /\ \A u \in TaskId : u # t => tasks'[u] = tasks[u] /\ done'[u] = done[u] /\ paid'[u] = paid[u]
        /\ tasks' = [u \in TaskId |-> tasks'[u]]
    BY <1>2 DEF StayRewarded, TasksInv, Typed
  <1>5. Sound(y, done[t] + 1, paid[t] + 1, mistimed', Unfinished')
    BY <1>2, <1>3 DEF Sound, Task, OneAsked, OneStepped
  <1>6. \A u \in TaskId : Turn(u)
    BY <1>4, <1>5 DEF Turn
  <1>7. done' \in [TaskId -> Nat] /\ paid' \in [TaskId -> Nat]
    BY <1>2 DEF StayRewarded, TasksInv, Typed
  <1>8. \A u \in TaskId : tasks'[u] \in Task \cup {Nil}
    BY <1>3, <1>4 DEF TasksInv, Typed
  <1>9. tasks' \in [TaskId -> Task \cup {Nil}]
    BY <1>4, <1>8
  <1> QED BY <1>6, <1>7, <1>9

LEMMA MottoSteps ==
    ASSUME TasksInv, NEW p \in Player, updateClanTask(p)
    PROVE  TasksInv'
  <1>1. PICK t \in Live :
          /\ tasks[t].kind = "motto" /\ tasks[t].amountLeft > 0 /\ ~tasks[t].isRewarded
          /\ Reward(t) /\ ClanStep(p, t)
          /\ UNCHANGED <<jobs, req, clock, mistimed>>
    BY DEF updateClanTask
  <1>2. /\ PaidOnce' /\ RewardEarned' /\ Later
        /\ tasks[t].amountLeft > 1 => mistimed /\ Unfinished'
    BY <1>1, Rewards
  <1>3. tasks[t].amountLeft \in Nat
    BY LiveTasks DEF Task
  <1>4. \/ \E task \in FreshTask : Replace(t, task)
        \/ \E y : /\ StayRewarded(t, y)
                  /\ \/ y = [OneStep(tasks[t]) EXCEPT !.isRewarded = TRUE] /\ tasks[t].player_id # Nil
                     \/ y = OneStep(tasks[t]) /\ mistimed /\ Unfinished'
    <2>1. CASE tasks[t].amountLeft > 1
      BY <1>1, <1>2, <2>1 DEF ClanStep
    <2>2. CASE tasks[t].amountLeft = 1 /\ MayDelete(p, t)
      BY <1>1, <2>2 DEF ClanStep
    <2>3. CASE tasks[t].amountLeft = 1 /\ ~MayDelete(p, t)
      BY <1>1, <2>3 DEF ClanStep, MayDelete
    <2> QED BY <1>1, <1>3, <2>1, <2>2, <2>3
  <1>5. /\ tasks' \in [TaskId -> Task \cup {Nil}] /\ done' \in [TaskId -> Nat]
        /\ paid' \in [TaskId -> Nat]
        /\ \A u \in TaskId : Turn(u)
    BY <1>1, <1>2, <1>4, ClanStays, Replaces
  <1> QED BY <1>1, <1>2, <1>5, Changes DEF TasksInv, Typed
----------------------------------------------------------------------------
(* Time                                                                     *)

LEMMA Expires ==
    ASSUME TasksInv, NEW j \in jobs, handleExpiredTask(j)
    PROVE  TasksInv'
  <1>1. j \in Timer /\ jobs' \subseteq Timer /\ mistimed \in BOOLEAN
    BY DEF handleExpiredTask, TasksInv, Typed
  <1>2. j.task \in TaskId /\ j.amount \in Nat
    BY <1>1 DEF Timer
  <1>3. UNCHANGED <<req, clock, paid, wrong>>
    BY DEF handleExpiredTask
  <1>4. CASE j.task \notin Live
    <2>1. UNCHANGED <<tasks, done, mistimed>>
      BY <1>4 DEF handleExpiredTask
    <2>2. \A u \in TaskId : Turn(u)
      BY <1>3, <2>1 DEF Turn
    <2> QED BY <1>1, <1>3, <2>1, <2>2, Changes, Unharmed DEF TasksInv, Typed
  <1>5. CASE j.task \in Live
    <2>1. PICK t, x, y : /\ t = j.task /\ x = tasks[t]
                         /\ y = [x EXCEPT !.amountLeft = j.amount, !.player_id = Nil, !.startedAt = 0]
      OBVIOUS
    <2>2. /\ tasks' = [tasks EXCEPT ![t].amountLeft = j.amount, ![t].player_id = Nil, ![t].startedAt = 0]
          /\ done' = [done EXCEPT ![t] = 0]
          /\ mistimed' = (mistimed \/ j.amount # x.amount)
      BY <1>5, <2>1 DEF handleExpiredTask
    <2>3. x \in Task /\ Sound(x, done[t], paid[t], mistimed, Unfinished) /\ t \in TaskId
      BY <1>5, <2>1, LiveTasks
    <2>4. /\ y \in Task /\ y.player_id = Nil /\ y.amount = x.amount
          /\ y.amountLeft = j.amount /\ y.isRewarded = x.isRewarded /\ y.kind = x.kind
      BY <1>2, <2>1, <2>3 DEF Task
    <2>5. /\ tasks'[t] = y /\ done'[t] = 0 /\ paid'[t] = paid[t]
          /\ \A u \in TaskId : u # t => tasks'[u] = tasks[u] /\ done'[u] = done[u] /\ paid'[u] = paid[u]
      BY <1>3, <2>1, <2>2, <2>3 DEF TasksInv, Typed
    <2>6. Later /\ PaidOnce' /\ RewardEarned' /\ Unfinished' = Unfinished
      BY <1>1, <1>3, <2>2 DEF Later, Unfinished, PaidOnce, RewardEarned, TasksInv
    <2>7. ~mistimed' => ~mistimed /\ j.amount = x.amount
      BY <2>2
    <2>8. Sound(y, 0, paid[t], mistimed', Unfinished')
      BY <1>2, <2>3, <2>4, <2>6, <2>7 DEF Sound, Whole, Task, OneAsked, OneStepped
    <2>9. \A u \in TaskId : Turn(u)
      BY <2>4, <2>5, <2>8 DEF Turn
    <2>10. tasks' \in [TaskId -> Task \cup {Nil}]
      <3>1. \A u \in TaskId : tasks'[u] \in Task \cup {Nil}
        BY <2>4, <2>5 DEF TasksInv, Typed
      <3>2. tasks' = [u \in TaskId |-> tasks'[u]]
        BY <2>2 DEF TasksInv, Typed
      <3> QED BY <3>1, <3>2
    <2>11. done' \in [TaskId -> Nat] /\ paid' \in [TaskId -> Nat]
      BY <1>3, <2>2 DEF TasksInv, Typed
    <2> QED BY <1>1, <1>3, <2>6, <2>9, <2>10, <2>11, Changes DEF TasksInv, Typed
  <1> QED BY <1>4, <1>5

LEMMA Fails ==
    ASSUME TasksInv, NEW j \in jobs, failExpiredTask(j)
    PROVE  TasksInv'
  <1>1. UNCHANGED <<tasks, req, clock, done, paid, wrong, mistimed>> /\ jobs' \subseteq Timer
    BY DEF failExpiredTask, TasksInv, Typed
  <1>2. AllKnow'
    BY <1>1, KnowsStill DEF TasksInv, Typed
  <1> QED BY <1>1, <1>2, Stays DEF TasksInv, Typed

LEMMA Resets ==
    ASSUME TasksInv, resetDailyTasks
    PROVE  TasksInv'
  <1>1. /\ tasks' \in Days(Unused) /\ done' = [t \in TaskId |-> 0] /\ paid' = [t \in TaskId |-> 0]
        /\ UNCHANGED <<jobs, req, clock, wrong, mistimed>>
    BY DEF resetDailyTasks
  <1>2. Unused \in SUBSET TaskId /\ mistimed \in BOOLEAN
    BY DEF Unused, TasksInv, Typed
  <1>3. PICK f \in Days(Unused) : tasks' = f
    BY <1>1
  <1>4. /\ f \in [TaskId -> Task \cup {Nil}]
        /\ \A t \in TaskId : f[t] # Nil =>
             f[t].player_id = Nil /\ \A m, u \in BOOLEAN : Sound(f[t], 0, 0, m, u)
    BY <1>2, FreshDays
  <1>5. \A t \in TaskId : Turn(t)
    <2>1. mistimed' \in BOOLEAN /\ Unfinished' \in BOOLEAN
      BY <1>1, <1>2 DEF Unfinished
    <2> QED BY <1>1, <1>3, <1>4, <2>1 DEF Turn
  <1>6. done' \in [TaskId -> Nat] /\ paid' \in [TaskId -> Nat]
    BY <1>1
  <1> QED BY <1>1, <1>3, <1>4, <1>5, <1>6, Changes, Unharmed DEF TasksInv, Typed

LEMMA Stops ==
    ASSUME TasksInv, Stop
    PROVE  TasksInv'
  <1>1. req' = [s \in Client |-> Idle] /\ UNCHANGED <<tasks, jobs, clock, done, paid, wrong, mistimed>>
    BY DEF Stop
  <1>2. mistimed \in BOOLEAN
    BY DEF TasksInv, Typed
  <1>3. req' \in [Client -> Request] /\ AllKnow'
    BY <1>1, <1>2, IdleRequest DEF AllKnow
  <1> QED BY <1>1, <1>2, <1>3, Stays DEF TasksInv, Typed
----------------------------------------------------------------------------
LEMMA TasksStep == TasksInv /\ [Next]_vars => TasksInv'
  <1> SUFFICES ASSUME TasksInv, [Next]_vars PROVE TasksInv'
    OBVIOUS
  <1>1. ASSUME NEW s \in Client, RequestStep(s)
        PROVE  TasksInv'
    <2>1. CASE cancelTransaction(s)
      BY <2>1, Idles DEF cancelTransaction, history, TasksInv, Typed
    <2> QED BY <1>1, <2>1, Transacts, Commits, Enqueues DEF RequestStep
  <1>2. ASSUME NEW p \in Player, unreserveTask(p)
        PROVE  TasksInv'
    <2>1. PICK t \in HeldBy(p) : Renew(t, Relinquished(tasks[t]))
      BY <1>2 DEF unreserveTask
    <2>2. t \in Live /\ tasks[t] \in Task /\ OneAsked(tasks[t])
      BY HeldTasks, LiveTasks DEF Sound
    <2>3. PICK task : task = Relinquished(tasks[t])
      OBVIOUS
    <2>4. task \in Task /\ task.player_id = Nil /\ \A m, u \in BOOLEAN : Sound(task, 0, 0, m, u)
      BY <2>2, <2>3, RelinquishedTasks
    <2> QED BY <2>1, <2>2, <2>3, <2>4, Renews
  <1>3. ASSUME NEW p \in Player, relinquishTaskById(p)
        PROVE  TasksInv'
    <2>1. PICK t \in HeldBy(p) : \E task \in FreshTask : Renew(t, task)
      BY <1>3 DEF relinquishTaskById
    <2> QED BY <2>1, HeldTasks, FreshOnes, Renews
  <1>4. CASE UNCHANGED vars
    <2>1. UNCHANGED <<tasks, jobs, req, clock, done, paid, wrong, mistimed>>
      BY <1>4 DEF vars, history
    <2> QED BY <2>1, Stays, KnowsStill DEF TasksInv, Typed
  <1> QED
    BY <1>1, <1>2, <1>3, <1>4, Reserves, EventSteps, UISteps, MottoSteps, Expires, Fails,
       Resets, Stops DEF Next

LEMMA TasksAlways == Spec => []TasksInv
  <1>1. Init => TasksInv
    <2> SUFFICES ASSUME Init PROVE TasksInv
      OBVIOUS
    <2>1. PICK f \in Days(TaskId) : tasks = f
      BY DEF Init
    <2>2. /\ f \in [TaskId -> Task \cup {Nil}]
          /\ \A t \in TaskId : f[t] # Nil =>
               f[t].player_id = Nil /\ \A m, u \in BOOLEAN : Sound(f[t], 0, 0, m, u)
      BY FreshDays
    <2>3. AllSound
      BY <2>1, <2>2, Booleans DEF Init, AllSound, Live
    <2>4. PaidOnce /\ RewardEarned
      BY DEF Init, PaidOnce, RewardEarned, Unfinished
    <2>5. req \in [Client -> Request] /\ AllKnow
      BY IdleRequest DEF Init, AllKnow
    <2> QED BY <2>1, <2>2, <2>3, <2>4, <2>5 DEF Init, TasksInv, Typed
  <1> QED BY <1>1, TasksStep, PTL DEF Spec

----------------------------------------------------------------------------
(* Timers                                                                   *)

Free(t) == tasks[t] = Nil \/ tasks[t].player_id = Nil

TaskIsTimed(t) ==
    ~Free(t) => Timed(t, tasks[t].startedAt) \/ tasks[t].startedAt \in untimed

\* Whoever holds the task t after a step held it before, under the same reservation.
HoldKept(t) == Free(t)' \/ (~Free(t) /\ tasks'[t].startedAt = tasks[t].startedAt)

\* A timer ends with the reservation, and one that is lost or fails is noted.
TimersKept ==
    /\ untimed \subseteq untimed'
    /\ \A j \in jobs : j \in jobs' \/ j.startedAt \in untimed' \/ Free(j.task)'
    /\ \A s \in Client : At(s, "enqueue") =>
         \/ At(s, "enqueue")' /\ req'[s] = req[s]
         \/ \E j \in jobs' : j.task = req[s].task /\ j.startedAt = req[s].copy.startedAt
         \/ req[s].copy.startedAt \in untimed'

LEMMA TimedStill ==
    ASSUME NEW t \in TaskId, TaskIsTimed(t), HoldKept(t), TimersKept
    PROVE  TaskIsTimed(t)'
  <1> SUFFICES ASSUME ~Free(t)'
               PROVE  Timed(t, tasks[t].startedAt)' \/ tasks'[t].startedAt \in untimed'
    BY DEF TaskIsTimed
  <1>1. PICK n : n = tasks[t].startedAt /\ n = tasks'[t].startedAt
    BY DEF HoldKept
  <1>2. Timed(t, n) \/ n \in untimed
    BY <1>1 DEF HoldKept, TaskIsTimed
  <1>3. ASSUME NEW j \in jobs, j.task = t, j.startedAt = n
        PROVE  Timed(t, n)' \/ n \in untimed'
    BY <1>3 DEF TimersKept, Timed
  <1>4. ASSUME NEW s \in Client, At(s, "enqueue"), req[s].task = t, req[s].copy.startedAt = n
        PROVE  Timed(t, n)' \/ n \in untimed'
    BY <1>4 DEF TimersKept, Timed
  <1>5. Timed(t, n)' \/ n \in untimed'
    BY <1>2, <1>3, <1>4 DEF Timed, TimersKept
  <1>6. Timed(t, n)' => Timed(t, tasks[t].startedAt)'
    BY <1>1 DEF Timed
  <1> QED BY <1>1, <1>5, <1>6

LEMMA SameTimers == ASSUME UNCHANGED <<jobs, req, untimed>> PROVE TimersKept
  BY DEF TimersKept, At

AllTimed == \A t \in TaskId : TaskIsTimed(t)

LEMMA TimedCommits ==
    ASSUME TasksInv, AllTimed, NEW s \in Client, commitReservation(s)
    PROVE  AllTimed'
  <1>1. PICK r, given, copied :
          /\ r = req[s]
          /\ given = DOMAIN r.seen \ {r.task}
          /\ copied = [r.copy EXCEPT !.player_id = r.player, !.startedAt = clock + 1,
                                     !.isRewarded = tasks[r.task].isRewarded]
    OBVIOUS
  <1>2. /\ r.pc = "commit" /\ r.task \in Live
        /\ tasks' = [t \in TaskId |-> IF t = r.task THEN copied
                                      ELSE IF t \in given THEN Relinquished(tasks[t])
                                      ELSE tasks[t]]
        /\ req' = [req EXCEPT ![s] = [Idle EXCEPT !.pc = "enqueue", !.task = r.task,
                                                  !.copy = copied]]
        /\ UNCHANGED <<jobs, untimed>>
    BY <1>1 DEF commitReservation, At
  <1>3. /\ req'[s].pc = "enqueue" /\ req'[s].task = r.task /\ req'[s].copy = copied
        /\ \A c \in Client : c # s => req'[c] = req[c]
    BY <1>2 DEF TasksInv, Typed, Idle
  <1>4. TimersKept
    BY <1>1, <1>2, <1>3 DEF TimersKept, At
  <1>5. ASSUME NEW t \in TaskId
        PROVE  TaskIsTimed(t)'
    <2>1. CASE t = r.task
      <3>1. tasks'[t] = copied
        BY <1>2, <2>1
      <3>2. Timed(t, tasks[t].startedAt)'
        BY <1>3, <2>1, <3>1 DEF Timed, At
      <3> QED BY <3>2 DEF TaskIsTimed
    <2>2. CASE t # r.task
      <3>1. HoldKept(t)
        <4>1. tasks'[t] = tasks[t] \/ tasks'[t] = Relinquished(tasks[t])
          BY <1>2, <2>2
        <4> QED BY <4>1 DEF HoldKept, Free, Relinquished, Fresh
      <3> QED BY <1>4, <3>1, TimedStill DEF AllTimed
    <2> QED BY <2>1, <2>2
  <1> QED BY <1>5 DEF AllTimed

\* A request that starts, or ends without a reservation.
LEMMA TimedRequests ==
    ASSUME TasksInv, AllTimed, NEW s \in Client, NEW r, ~At(s, "enqueue"),
           req' = [req EXCEPT ![s] = r], UNCHANGED <<tasks, jobs, untimed>>
    PROVE  AllTimed'
  <1>1. TimersKept
    BY DEF TimersKept, At, TasksInv, Typed
  <1>2. \A t \in TaskId : HoldKept(t)
    BY DEF HoldKept, Free
  <1> QED BY <1>1, <1>2, TimedStill DEF AllTimed

LEMMA TimedEnqueues ==
    ASSUME TasksInv, AllTimed, NEW s \in Client, addDailyTask(s)
    PROVE  AllTimed'
  <1>1. PICK timer : /\ timer = [task |-> req[s].task, amount |-> req[s].copy.amount,
                                 startedAt |-> req[s].copy.startedAt]
                     /\ jobs' = jobs \cup {timer}
    BY DEF addDailyTask
  <1>2. /\ req' = [req EXCEPT ![s] = Idle] /\ UNCHANGED <<tasks, untimed>>
    BY DEF addDailyTask, history
  <1>3. timer \in jobs' /\ timer.task = req[s].task /\ timer.startedAt = req[s].copy.startedAt
    BY <1>1
  <1>4. \A c \in Client : c # s => req'[c] = req[c]
    BY <1>2 DEF TasksInv, Typed
  <1>5. TimersKept
    BY <1>1, <1>2, <1>3, <1>4 DEF TimersKept, At
  <1>6. \A t \in TaskId : HoldKept(t)
    BY <1>2 DEF HoldKept, Free
  <1> QED BY <1>5, <1>6, TimedStill DEF AllTimed

\* A step of one task t, after which its holder has not changed or is gone.
LEMMA TimedTasks ==
    ASSUME TasksInv, AllTimed, NEW t \in Live, NEW x, tasks' = [tasks EXCEPT ![t] = x],
           x = Nil \/ x.player_id = Nil \/ (x.player_id = tasks[t].player_id /\ x.startedAt = tasks[t].startedAt),
           UNCHANGED <<jobs, req, untimed>>
    PROVE  AllTimed'
  <1>1. t \in TaskId /\ tasks[t] # Nil
    BY DEF Live
  <1>2. tasks'[t] = x /\ \A u \in TaskId : u # t => tasks'[u] = tasks[u]
    BY <1>1 DEF TasksInv, Typed
  <1>3. HoldKept(t)
    BY <1>1, <1>2 DEF HoldKept, Free
  <1>4. \A u \in TaskId : u # t => HoldKept(u)
    BY <1>2 DEF HoldKept, Free
  <1> QED BY <1>3, <1>4, SameTimers, TimedStill DEF AllTimed

LEMMA TimedReplaces ==
    ASSUME TasksInv, AllTimed, NEW t \in Live, NEW task \in FreshTask, Replace(t, task),
           UNCHANGED <<jobs, req, untimed>>
    PROVE  AllTimed'
  <1>1. PICK new : tasks' = [tasks EXCEPT ![t] = Nil, ![new] = task]
    BY DEF Replace
  <1>2. \A u \in TaskId : tasks'[u] \in {Nil, task, tasks[u]}
    BY <1>1 DEF TasksInv, Typed
  <1>3. task.player_id = Nil
    BY FreshOnes
  <1>4. \A u \in TaskId : HoldKept(u)
    BY <1>2, <1>3 DEF HoldKept, Free
  <1> QED BY <1>4, SameTimers, TimedStill DEF AllTimed

LEMMA TimedSteps ==
    ASSUME TasksInv, AllTimed, NEW t \in Live, UNCHANGED <<jobs, req, untimed>>,
           \/ tasks' = [tasks EXCEPT ![t] = OneStep(@)]
           \/ tasks' = [tasks EXCEPT ![t] = [OneStep(tasks[t]) EXCEPT !.isRewarded = TRUE]]
    PROVE  AllTimed'
  <1>1. PICK x : /\ tasks' = [tasks EXCEPT ![t] = x]
                 /\ x = OneStep(tasks[t]) \/ x = [OneStep(tasks[t]) EXCEPT !.isRewarded = TRUE]
    OBVIOUS
  <1>2. x.player_id = tasks[t].player_id /\ x.startedAt = tasks[t].startedAt
    BY <1>1, LiveTasks DEF OneStep, Task
  <1> QED BY <1>1, <1>2, TimedTasks

\* The steps of members on the tasks.
LEMMA TimedMembers ==
    ASSUME TasksInv, AllTimed, NEW p \in Player,
           \/ unreserveTask(p) \/ relinquishTaskById(p) \/ handleDailyTaskEvent(p)
           \/ updateUITask(p) \/ updateClanTask(p)
    PROVE  AllTimed'
  <1>1. ASSUME NEW t \in HeldBy(p), NEW task, task.player_id = Nil, Renew(t, task)
        PROVE  AllTimed'
    BY <1>1, HeldTasks, TimedTasks DEF Renew
  <1>2. CASE unreserveTask(p)
    BY <1>1, <1>2 DEF unreserveTask, Relinquished, Fresh
  <1>3. CASE relinquishTaskById(p)
    BY <1>1, <1>3, FreshOnes DEF relinquishTaskById
  <1>4. CASE handleDailyTaskEvent(p)
    BY <1>4, HeldTasks, TimedReplaces, TimedSteps DEF handleDailyTaskEvent, updateTask
  <1>5. CASE updateUITask(p)
    <2>1. PICK t \in HeldBy(p) :
            /\ tasks' = [tasks EXCEPT ![t] = Nil] \/ tasks' = [tasks EXCEPT ![t] = OneStep(@)]
            /\ UNCHANGED <<jobs, req, untimed>>
      BY <1>5 DEF updateUITask
    <2> QED BY <2>1, HeldTasks, TimedTasks, TimedSteps
  <1>6. CASE updateClanTask(p)
    <2>1. PICK t \in Live : ClanStep(p, t) /\ UNCHANGED <<jobs, req, untimed>>
      BY <1>6 DEF updateClanTask
    <2>2. \/ \E task \in FreshTask : Replace(t, task)
          \/ tasks' = [tasks EXCEPT ![t] = OneStep(tasks[t])]
          \/ tasks' = [tasks EXCEPT ![t] = [OneStep(tasks[t]) EXCEPT !.isRewarded = TRUE]]
      BY <2>1 DEF ClanStep, StayRewarded
    <2> QED BY <2>1, <2>2, TimedReplaces, TimedSteps
  <1> QED BY <1>2, <1>3, <1>4, <1>5, <1>6

\* A timer that runs out frees the task, whoever holds it.
LEMMA TimedExpires ==
    ASSUME TasksInv, AllTimed, NEW j \in jobs, handleExpiredTask(j) \/ failExpiredTask(j)
    PROVE  AllTimed'
  <1>1. CASE handleExpiredTask(j)
    <2>1. jobs' = jobs \ {j} /\ UNCHANGED <<req, untimed>> /\ j.task \in TaskId
      BY <1>1 DEF handleExpiredTask, TasksInv, Typed, Timer
    <2>2. /\ \A t \in TaskId : t # j.task => tasks'[t] = tasks[t]
          /\ Free(j.task)'
      <3>1. CASE j.task \in Live
        <4>1. tasks' = [tasks EXCEPT ![j.task].amountLeft = j.amount, ![j.task].player_id = Nil,
                                     ![j.task].startedAt = 0]
          BY <1>1, <3>1 DEF handleExpiredTask
        <4>2. tasks[j.task] \in Task
          BY <3>1, LiveTasks
        <4>3. tasks'[j.task].player_id = Nil
          BY <2>1, <4>1, <4>2 DEF TasksInv, Typed, Task
        <4> QED BY <2>1, <4>1, <4>3 DEF TasksInv, Typed, Free
      <3>2. CASE j.task \notin Live
        BY <1>1, <2>1, <3>2 DEF handleExpiredTask, Free, Live
      <3> QED BY <3>1, <3>2
    <2>3. TimersKept
      BY <2>1, <2>2 DEF TimersKept, At
    <2>4. \A t \in TaskId : HoldKept(t)
      BY <2>2 DEF HoldKept, Free
    <2> QED BY <2>3, <2>4, TimedStill DEF AllTimed
  <1>2. CASE failExpiredTask(j)
    <2>1. /\ jobs' = jobs \ {j} /\ untimed' = untimed \cup {j.startedAt}
          /\ UNCHANGED <<tasks, req>>
      BY <1>2 DEF failExpiredTask
    <2>2. TimersKept
      BY <2>1 DEF TimersKept, At
    <2>3. \A t \in TaskId : HoldKept(t)
      BY <2>1 DEF HoldKept, Free
    <2> QED BY <2>2, <2>3, TimedStill DEF AllTimed
  <1> QED BY <1>1, <1>2

LEMMA TimedResets ==
    ASSUME TasksInv, AllTimed, resetDailyTasks \/ Stop
    PROVE  AllTimed'
  <1>1. CASE resetDailyTasks
    <2>1. tasks' \in Days(Unused) /\ UNCHANGED <<jobs, req, untimed>> /\ Unused \in SUBSET TaskId
      BY <1>1 DEF resetDailyTasks, Unused
    <2>2. \A f \in Days(Unused) : \A t \in TaskId : f[t] # Nil => f[t].player_id = Nil
      BY <2>1, FreshDays
    <2>3. \A t \in TaskId : HoldKept(t)
      BY <2>1, <2>2 DEF HoldKept, Free
    <2> QED BY <2>1, <2>3, SameTimers, TimedStill DEF AllTimed
  <1>2. CASE Stop
    <2>1. /\ untimed' = untimed \cup {req[s].copy.startedAt : s \in {c \in Client : At(c, "enqueue")}}
          /\ UNCHANGED <<tasks, jobs>>
      BY <1>2 DEF Stop
    <2>2. TimersKept
      BY <2>1 DEF TimersKept
    <2>3. \A t \in TaskId : HoldKept(t)
      BY <2>1 DEF HoldKept, Free
    <2> QED BY <2>2, <2>3, TimedStill DEF AllTimed
  <1> QED BY <1>1, <1>2

LEMMA TimedStep == TasksInv /\ AllTimed /\ [Next]_vars => AllTimed'
  <1> SUFFICES ASSUME TasksInv, AllTimed, [Next]_vars PROVE AllTimed'
    OBVIOUS
  <1>1. ASSUME NEW s \in Client, NEW p \in Player, NEW t \in TaskId, reserveTask(s, p, t)
        PROVE  AllTimed'
    BY <1>1, TimedRequests DEF reserveTask, history, At
  <1>2. ASSUME NEW s \in Client, RequestStep(s)
        PROVE  AllTimed'
    <2>1. CASE startTransaction(s)
      <3>1. PICK r : r = [req[s] EXCEPT !.pc = "commit",
                                 !.seen = [t \in HeldBy(req[s].player) \cup {req[s].task} |-> tasks[t]]]
        OBVIOUS
      <3>2. req' = [req EXCEPT ![s] = r] /\ UNCHANGED <<tasks, jobs, untimed>> /\ ~At(s, "enqueue")
        BY <2>1, <3>1 DEF startTransaction, history, At, TasksInv, Typed
      <3> QED BY <3>2, TimedRequests
    <2>2. CASE cancelTransaction(s)
      BY <2>2, TimedRequests DEF cancelTransaction, history, At
    <2> QED BY <1>2, <2>1, <2>2, TimedCommits, TimedEnqueues DEF RequestStep
  <1>3. CASE UNCHANGED vars
    <2>1. UNCHANGED <<tasks, jobs, req, untimed>>
      BY <1>3 DEF vars, history
    <2>2. \A t \in TaskId : HoldKept(t)
      BY <2>1 DEF HoldKept, Free
    <2> QED BY <2>1, <2>2, SameTimers, TimedStill DEF AllTimed
  <1> QED BY <1>1, <1>2, <1>3, TimedMembers, TimedExpires, TimedResets DEF Next

\* Every reservation has a timer of its own, which no other reservation's takes the
\* place of, however requests overlap and tasks change under their _ids; the timers a
\* stop loses, or whose update fails, are the exceptions (reserveTask, addDailyTask,
\* handleExpiredTask).
THEOREM ReservationsAreTimed == Spec => []HeldIsTimed
  <1>1. Init => AllTimed
    <2> SUFFICES ASSUME Init PROVE AllTimed
      OBVIOUS
    <2>1. \A f \in Days(TaskId) : \A t \in TaskId : f[t] # Nil => f[t].player_id = Nil
      BY FreshDays
    <2> QED BY <2>1 DEF Init, AllTimed, TaskIsTimed, Free
  <1>2. AllTimed => HeldIsTimed
    BY DEF AllTimed, TaskIsTimed, Free, HeldIsTimed, Live
  <1> QED BY <1>1, <1>2, TimedStep, TasksAlways, PTL DEF Spec
----------------------------------------------------------------------------
\* A task is rewarded once until it is given back or replaced, also when the clan
\* finishes what a member holds and its timer fills it up again, but for the steps of
\* a clan task that the timer of an earlier task gave several (updateClanTask).
THEOREM TaskRewardedOnce == Spec => []PaidOnce
  <1>1. TasksInv => PaidOnce
    BY DEF TasksInv, PaidOnce
  <1> QED BY <1>1, TasksAlways, PTL

\* A reward is for as many steps as the task asks for, where no timer ran out on a
\* task that was replaced under its _id (updateTask, handleExpiredTask), although a
\* reservation writes the copy it read before its transaction.
THEOREM RewardsAreEarned == Spec => []RewardEarned
  <1>1. TasksInv => RewardEarned
    BY DEF TasksInv, RewardEarned
  <1> QED BY <1>1, TasksAlways, PTL
=============================================================================
