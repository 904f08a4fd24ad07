------------------------- MODULE MatchLifecycleProofs -------------------------
(***************************************************************************)
(* Results are paid once, in full before they are stored, and a match       *)
(* starts with its last player.  What the first rests on: what a holder of  *)
(* the lock has still to pay was never paid before.                         *)
(***************************************************************************)
EXTENDS MatchLifecycle, SequenceTheorems, TLAPS

LEMMA TeamTypes ==
    /\ TeamPlayers["A"] \in Seq(Player) /\ TeamPlayers["B"] \in Seq(Player)
    /\ "A" \in Side /\ "B" \in Side
    /\ RealPlayers \subseteq Player
  BY TeamAssumption DEF Side, RealPlayers

Elements(s) == {s[i] : i \in 1..Len(s)}

Distinct(s) == \A i, j \in 1..Len(s) : s[i] = s[j] => i = j

LEMMA ElementsOfSeq ==
    ASSUME NEW S, NEW s \in Seq(S)
    PROVE  Elements(s) \subseteq S
  BY DEF Elements

LEMMA JoinedElements ==
    ASSUME NEW S, NEW s \in Seq(S), NEW t \in Seq(S)
    PROVE  s \o t \in Seq(S) /\ Elements(s \o t) = Elements(s) \cup Elements(t)
  <1> DEFINE u == s \o t
  <1>1. /\ u \in Seq(S) /\ Len(u) = Len(s) + Len(t) /\ Len(s) \in Nat /\ Len(t) \in Nat
        /\ \A i \in 1..Len(s) : u[i] = s[i]
        /\ \A i \in 1..Len(t) : u[Len(s) + i] = t[i]
    OBVIOUS
  <1>2. \A i \in 1..Len(u) : i \in 1..Len(s) \/ (i - Len(s) \in 1..Len(t) /\ i = Len(s) + (i - Len(s)))
    BY <1>1
  <1>3. \A i \in 1..Len(s) : i \in 1..Len(u)
    BY <1>1
  <1>4. \A i \in 1..Len(t) : Len(s) + i \in 1..Len(u)
    BY <1>1
  <1> HIDE DEF u
  <1>5. \A i \in 1..Len(u) : u[i] \in Elements(s) \cup Elements(t)
    BY <1>1, <1>2 DEF Elements
  <1>6. Elements(s) \subseteq Elements(u)
    BY <1>1, <1>3 DEF Elements
  <1>7. Elements(t) \subseteq Elements(u)
    BY <1>1, <1>4 DEF Elements
  <1>8. Elements(u) \subseteq Elements(s) \cup Elements(t)
    BY <1>5 DEF Elements
  <1> QED BY <1>1, <1>6, <1>7, <1>8 DEF u

LEMMA JoinedDistinct ==
    ASSUME NEW S, NEW s \in Seq(S), NEW t \in Seq(S), Distinct(s), Distinct(t),
           Elements(s) \cap Elements(t) = {}
    PROVE  Distinct(s \o t)
  <1> DEFINE u == s \o t
  <1>1. /\ u \in Seq(S) /\ Len(u) = Len(s) + Len(t) /\ Len(s) \in Nat /\ Len(t) \in Nat
        /\ \A i \in 1..Len(s) : u[i] = s[i]
        /\ \A i \in 1..Len(t) : u[Len(s) + i] = t[i]
    OBVIOUS
  <1>2. \A i \in 1..Len(u) :
           \/ i \in 1..Len(s) /\ u[i] = s[i]
           \/ i - Len(s) \in 1..Len(t) /\ u[i] = t[i - Len(s)] /\ i \in Int
    BY <1>1
  <1> HIDE DEF u
  <1> SUFFICES ASSUME NEW i \in 1..Len(u), NEW j \in 1..Len(u), u[i] = u[j]
               PROVE  i = j
    BY DEF Distinct, u
  <1>3. \A k \in 1..Len(s), l \in 1..Len(t) : s[k] # t[l]
    BY DEF Elements
  <1>4. CASE i \in 1..Len(s) /\ u[i] = s[i] /\ j \in 1..Len(s) /\ u[j] = s[j]
    BY <1>4 DEF Distinct
  <1>5. CASE /\ i - Len(s) \in 1..Len(t) /\ u[i] = t[i - Len(s)]
             /\ j - Len(s) \in 1..Len(t) /\ u[j] = t[j - Len(s)]
    <2>1. i - Len(s) = j - Len(s)
      BY <1>5 DEF Distinct
    <2> QED BY <2>1, <1>1
  <1> QED BY <1>2, <1>3, <1>4, <1>5

LEMMA TailElements ==
    ASSUME NEW S, NEW s \in Seq(S), s # <<>>
    PROVE  /\ Head(s) \in S /\ Tail(s) \in Seq(S)
           /\ Elements(s) = {Head(s)} \cup Elements(Tail(s))
           /\ Distinct(s) => Distinct(Tail(s)) /\ Head(s) \notin Elements(Tail(s))
           /\ (Len(s) = 1) => Tail(s) = <<>>
  <1> DEFINE t == Tail(s)
  <1>1. /\ Len(s) \in Nat /\ Len(s) > 0 /\ Len(t) = Len(s) - 1 /\ Head(s) = s[1] /\ t \in Seq(S)
        /\ \A i \in 1..Len(t) : t[i] = s[i + 1]
    OBVIOUS
  <1>2. \A i \in 1..Len(s) : i = 1 \/ (i - 1 \in 1..Len(t) /\ s[i] = t[i - 1])
    BY <1>1
  <1>3. \A i \in 1..Len(t) : i + 1 \in 1..Len(s) /\ i + 1 # 1
    BY <1>1
  <1>4. 1 \in 1..Len(s)
    BY <1>1
  <1>5. Len(s) = 1 => t = <<>>
    <2>1. Len(s) = 1 => Len(t) = 0
      BY <1>1
    <2> HIDE DEF t
    <2> QED BY <1>1, <2>1, EmptySeq
  <1>6. Head(s) \in S
    BY <1>1, <1>4
  <1> HIDE DEF t
  <1>7. Elements(s) \subseteq {Head(s)} \cup Elements(t)
    BY <1>1, <1>2 DEF Elements
  <1>8. {Head(s)} \cup Elements(t) \subseteq Elements(s)
    BY <1>1, <1>3, <1>4 DEF Elements
  <1>9. Distinct(s) => Distinct(t)
    <2> SUFFICES ASSUME Distinct(s), NEW i \in 1..Len(t), NEW j \in 1..Len(t), t[i] = t[j]
                 PROVE  i = j
      BY DEF Distinct
    <2>1. i + 1 = j + 1
      BY <1>1, <1>3 DEF Distinct
    <2> QED BY <2>1, <1>1
  <1>10. Distinct(s) => Head(s) \notin Elements(t)
    BY <1>1, <1>3, <1>4 DEF Elements, Distinct
  <1> QED BY <1>1, <1>5, <1>6, <1>7, <1>8, <1>9, <1>10 DEF t
----------------------------------------------------------------------------
\* What is done for the players of a team.
LEMMA EachOne ==
    ASSUME NEW kind \in {"pay", "task"}, NEW ps \in Seq(Player)
    PROVE  /\ Each(kind, ps) \in Seq(Effect)
           /\ \A e \in Elements(Each(kind, ps)) : e.kind = kind /\ e.player \in Elements(ps)
           /\ \A p \in Elements(ps) : [kind |-> kind, player |-> p] \in Elements(Each(kind, ps))
           /\ Distinct(ps) => Distinct(Each(kind, ps))
  <1> DEFINE u == Each(kind, ps)
  <1>1. DOMAIN ps = 1..Len(ps) /\ Len(ps) \in Nat /\ \A i \in 1..Len(ps) : ps[i] \in Player
    OBVIOUS
  <1>2. \A i \in 1..Len(ps) : [kind |-> kind, player |-> ps[i]] \in Effect
    BY <1>1 DEF Effect
  <1>3. u \in [1..Len(ps) -> Effect]
    BY <1>1, <1>2 DEF Each
  <1>4. u \in Seq(Effect) /\ Len(u) = Len(ps)
    BY <1>1, <1>3
  <1>5. \A i \in 1..Len(ps) : u[i] = [kind |-> kind, player |-> ps[i]]
    BY <1>1 DEF Each
  <1> HIDE DEF u
  <1>6. \A i \in 1..Len(ps) : u[i].kind = kind /\ u[i].player = ps[i]
    <2> SUFFICES ASSUME NEW i \in 1..Len(ps)
                 PROVE  u[i].kind = kind /\ u[i].player = ps[i]
      OBVIOUS
    <2>1. u[i] = [kind |-> kind, player |-> ps[i]]
      BY <1>5
    <2> QED BY <2>1
  <1>7. \A e \in Elements(u) : e.kind = kind /\ e.player \in Elements(ps)
    BY <1>4, <1>6 DEF Elements
  <1>8. \A p \in Elements(ps) : [kind |-> kind, player |-> p] \in Elements(u)
    BY <1>4, <1>5 DEF Elements
  <1>9. Distinct(ps) => Distinct(u)
    BY <1>4, <1>6 DEF Distinct
  <1> QED BY <1>4, <1>7, <1>8, <1>9 DEF u

\* The effects of a clan's share of the result.
ClanShare(t) == IF matchType = "CLAN" /\ TeamClan[t] # Nil
                THEN <<[kind |-> "clan", side |-> t]>> ELSE <<>>

LEMMA ClanOne ==
    ASSUME NEW t \in Side
    PROVE  /\ ClanShare(t) \in Seq(Effect)
           /\ \A e \in Elements(ClanShare(t)) : e.kind = "clan" /\ e.side = t
           /\ matchType = "CLAN" /\ TeamClan[t] # Nil =>
                [kind |-> "clan", side |-> t] \in Elements(ClanShare(t))
           /\ Distinct(ClanShare(t))
  <1> DEFINE e == [kind |-> "clan", side |-> t]
  <1>1. e \in Effect /\ e.kind = "clan" /\ e.side = t
    BY DEF Effect
  <1> HIDE DEF e
  <1>2. <<e>> \in Seq(Effect) /\ Len(<<e>>) = 1 /\ <<e>>[1] = e
    BY <1>1
  <1>3. <<>> \in Seq(Effect) /\ Len(<<>>) = 0
    OBVIOUS
  <1>4. Elements(<<e>>) = {e} /\ Distinct(<<e>>)
    BY <1>2 DEF Elements, Distinct
  <1>5. Elements(<<>>) = {} /\ Distinct(<<>>)
    BY <1>3 DEF Elements, Distinct
  <1>6. ClanShare(t) = IF matchType = "CLAN" /\ TeamClan[t] # Nil THEN <<e>> ELSE <<>>
    BY DEF ClanShare, e
  <1>7. CASE matchType = "CLAN" /\ TeamClan[t] # Nil
    BY <1>7, <1>1, <1>2, <1>4, <1>6 DEF e
  <1>8. CASE ~ (matchType = "CLAN" /\ TeamClan[t] # Nil)
    BY <1>8, <1>3, <1>5, <1>6
  <1> QED BY <1>7, <1>8

\* No player is in the match twice.
PlayersDiffer == Distinct(TeamPlayers["A"] \o TeamPlayers["B"])

LEMMA HalvesDiffer ==
    ASSUME NEW S, NEW s \in Seq(S), NEW t \in Seq(S), Distinct(s \o t)
    PROVE  Distinct(s) /\ Distinct(t) /\ Elements(s) \cap Elements(t) = {}
  <1> DEFINE u == s \o t
  <1>1. /\ u \in Seq(S) /\ Len(u) = Len(s) + Len(t) /\ Len(s) \in Nat /\ Len(t) \in Nat
        /\ \A i \in 1..Len(s) : u[i] = s[i]
        /\ \A i \in 1..Len(t) : u[Len(s) + i] = t[i]
    OBVIOUS
  <1>2. \A i, j \in 1..Len(u) : u[i] = u[j] => i = j
    BY DEF Distinct
  <1> HIDE DEF u
  <1>3. \A i \in 1..Len(s) : i \in 1..Len(u)
    BY <1>1
  <1>4. \A i \in 1..Len(t) : Len(s) + i \in 1..Len(u)
    BY <1>1
  <1>5. Distinct(s)
    BY <1>1, <1>2, <1>3 DEF Distinct
  <1>6. Distinct(t)
    <2> SUFFICES ASSUME NEW i \in 1..Len(t), NEW j \in 1..Len(t), t[i] = t[j] PROVE i = j
      BY DEF Distinct
    <2>1. Len(s) + i = Len(s) + j
      BY <1>1, <1>2, <1>4
    <2> QED BY <2>1, <1>1
  <1>7. \A i \in 1..Len(s), j \in 1..Len(t) : s[i] # t[j]
    <2> SUFFICES ASSUME NEW i \in 1..Len(s), NEW j \in 1..Len(t), s[i] = t[j] PROVE FALSE
      OBVIOUS
    <2>1. i = Len(s) + j
      BY <1>1, <1>2, <1>3, <1>4
    <2> QED BY <2>1, <1>1
  <1> QED BY <1>5, <1>6, <1>7 DEF Elements
----------------------------------------------------------------------------
LEMMA EffectKinds ==
    ASSUME NEW e \in Effect
    PROVE  /\ e.kind \in {"pay", "task", "clan"}
           /\ e.kind \in {"pay", "task"} => e.player \in Player /\ e = [kind |-> e.kind, player |-> e.player]
           /\ e.kind = "clan" => e.side \in Side /\ e = [kind |-> "clan", side |-> e.side]
  <1>1. CASE e \in [kind : {"pay", "task"}, player : Player]
    BY <1>1
  <1>2. CASE e \in [kind : {"clan"}, side : Side]
    BY <1>2
  <1> QED BY <1>1, <1>2 DEF Effect

\* What finishMatch does reaches every player and both clans, and nobody twice.
LEMMA EffectsReachAll ==
    /\ Effects \in Seq(Effect)
    /\ \A p \in RealPlayers : [kind |-> "pay", player |-> p] \in Elements(Effects)
    /\ \A t \in Side : matchType = "CLAN" /\ TeamClan[t] # Nil =>
                         [kind |-> "clan", side |-> t] \in Elements(Effects)
    /\ PlayersDiffer => Distinct(Effects)
  <1> DEFINE A == TeamPlayers["A"]
             B == TeamPlayers["B"]
             payA == Each("pay", A)
             payB == Each("pay", B)
             both == Each("task", A \o B)
             s1 == payA \o payB
             s2 == s1 \o ClanShare("A")
             s3 == s2 \o ClanShare("B")
             s4 == s3 \o both
  <1>1. Effects = s4
    BY DEF Effects, ClanShare
  <1>2. A \in Seq(Player) /\ B \in Seq(Player) /\ "A" \in Side /\ "B" \in Side
    BY TeamTypes
  <1>3. \A p \in RealPlayers : p \in Elements(A) \/ p \in Elements(B)
    BY <1>2 DEF RealPlayers, Elements
  <1> HIDE DEF A, B
  <1>4. A \o B \in Seq(Player)
    BY <1>2
  <1>5. /\ payA \in Seq(Effect) /\ (\A e \in Elements(payA) : e.kind = "pay" /\ e.player \in Elements(A))
        /\ (\A p \in Elements(A) : [kind |-> "pay", player |-> p] \in Elements(payA))
        /\ Distinct(A) => Distinct(payA)
    BY <1>2, EachOne
  <1>6. /\ payB \in Seq(Effect) /\ (\A e \in Elements(payB) : e.kind = "pay" /\ e.player \in Elements(B))
        /\ (\A p \in Elements(B) : [kind |-> "pay", player |-> p] \in Elements(payB))
        /\ Distinct(B) => Distinct(payB)
    BY <1>2, EachOne
  <1>7. /\ both \in Seq(Effect) /\ (\A e \in Elements(both) : e.kind = "task")
        /\ Distinct(A \o B) => Distinct(both)
    BY <1>4, EachOne
  <1> DEFINE cA == ClanShare("A")
             cB == ClanShare("B")
  <1>8. /\ cA \in Seq(Effect) /\ (\A e \in Elements(cA) : e.kind = "clan" /\ e.side = "A")
        /\ (matchType = "CLAN" /\ TeamClan["A"] # Nil => [kind |-> "clan", side |-> "A"] \in Elements(cA))
        /\ Distinct(cA)
    BY <1>2, ClanOne
  <1>9. /\ cB \in Seq(Effect) /\ (\A e \in Elements(cB) : e.kind = "clan" /\ e.side = "B")
        /\ (matchType = "CLAN" /\ TeamClan["B"] # Nil => [kind |-> "clan", side |-> "B"] \in Elements(cB))
        /\ Distinct(cB)
    BY <1>2, ClanOne
  <1>10. s1 = payA \o payB /\ s2 = s1 \o cA /\ s3 = s2 \o cB /\ s4 = s3 \o both
    OBVIOUS
  <1> HIDE DEF payA, payB, both, s1, s2, s3, s4, cA, cB
  <1>11. s1 \in Seq(Effect) /\ Elements(s1) = Elements(payA) \cup Elements(payB)
    BY <1>5, <1>6, <1>10, JoinedElements
  <1>12. s2 \in Seq(Effect) /\ Elements(s2) = Elements(s1) \cup Elements(cA)
    <2>1. cA \in Seq(Effect) /\ s1 \in Seq(Effect) /\ s2 = s1 \o cA
      BY <1>8, <1>10, <1>11
    <2> QED BY <2>1, JoinedElements
  <1>13. s3 \in Seq(Effect) /\ Elements(s3) = Elements(s2) \cup Elements(cB)
    <2>1. cB \in Seq(Effect) /\ s2 \in Seq(Effect) /\ s3 = s2 \o cB
      BY <1>9, <1>10, <1>12
    <2> QED BY <2>1, JoinedElements
  <1>14. s4 \in Seq(Effect) /\ Elements(s4) = Elements(s3) \cup Elements(both)
    <2>1. both \in Seq(Effect) /\ s3 \in Seq(Effect) /\ s4 = s3 \o both
      BY <1>7, <1>10, <1>13
    <2> QED BY <2>1, JoinedElements
  <1>15. \A p \in RealPlayers : [kind |-> "pay", player |-> p] \in Elements(s4)
    BY <1>3, <1>5, <1>6, <1>11, <1>12, <1>13, <1>14
  <1>16. \A t \in Side : matchType = "CLAN" /\ TeamClan[t] # Nil => [kind |-> "clan", side |-> t] \in Elements(s4)
    BY <1>8, <1>9, <1>11, <1>12, <1>13, <1>14 DEF Side
  <1>17. ASSUME PlayersDiffer PROVE Distinct(s4)
    <2>1. Distinct(A \o B)
      BY <1>17 DEF PlayersDiffer, A, B
    <2>2. Distinct(A) /\ Distinct(B) /\ Elements(A) \cap Elements(B) = {}
      BY <2>1, <1>2, HalvesDiffer
    <2>3. Elements(payA) \cap Elements(payB) = {}
      BY <1>5, <1>6, <2>2
    <2>4. Distinct(s1)
      BY <1>5, <1>6, <1>10, <2>2, <2>3, JoinedDistinct
    <2>5. \A e \in Elements(s1) : e.kind = "pay"
      BY <1>5, <1>6, <1>11
    <2>6. Elements(s1) \cap Elements(cA) = {}
      BY <1>8, <2>5
    <2>7. Distinct(s2)
      BY <1>8, <1>10, <1>11, <2>4, <2>6, JoinedDistinct
    <2>8. \A e \in Elements(s2) : e.kind = "pay" \/ (e.kind = "clan" /\ e.side = "A")
      BY <2>5, <1>8, <1>12
    <2>9. Elements(s2) \cap Elements(cB) = {}
      BY <1>9, <2>8
    <2>10. Distinct(s3)
      BY <1>9, <1>10, <1>12, <2>7, <2>9, JoinedDistinct
    <2>11. \A e \in Elements(s3) : e.kind # "task"
      BY <2>8, <1>9, <1>13
    <2>12. Elements(s3) \cap Elements(both) = {}
      BY <1>7, <2>11
    <2> QED BY <1>7, <1>10, <1>13, <2>1, <2>10, <2>12, JoinedDistinct
  <1> QED BY <1>1, <1>14, <1>15, <1>16, <1>17
----------------------------------------------------------------------------
\* What a request knows.
Knows(r) ==
    /\ r.pc = "startSave" => /\ r.seen \in MatchRecord /\ r.seen # Nil
                             /\ r.seen.status = "ACTIVE" /\ r.player \in RealPlayers
    /\ r.pc = "publish" => r.player \in RealPlayers
    /\ r.pc \in {"lock", "effects", "finishSave"} =>
         /\ r.seen \in MatchRecord /\ r.seen # Nil /\ r.winner \in Side
    /\ r.pc = "finishSave" => r.todo = <<>>

Typed ==
    /\ TypeOK
    /\ \A s \in Slot : Knows(req[s])

LEMMA IdleRequest == Idle \in Request /\ Idle.pc = "idle" /\ Knows(Idle)
  BY DEF Idle, Request, Knows

\* One slot goes over to the request r.
LEMMA Continues ==
    ASSUME Typed, NEW s \in Slot, NEW r \in Request, Knows(r), Continue(s, r)
    PROVE  /\ req' \in [Slot -> Request]
           /\ \A u \in Slot : Knows(req'[u])
           /\ req'[s] = r
           /\ \A u \in Slot : u # s => req'[u] = req[u]
  BY DEF Typed, TypeOK, Continue

LEMMA Returns ==
    ASSUME Typed, NEW s \in Slot, Return(s)
    PROVE  /\ req' \in [Slot -> Request]
           /\ \A u \in Slot : Knows(req'[u])
           /\ req'[s] = Idle
           /\ \A u \in Slot : u # s => req'[u] = req[u]
  BY IdleRequest, Continues DEF Return

\* How often an effect has been had.
Count(e) == IF e.kind = "pay" THEN Battles(e.player)
            ELSE IF e.kind = "task" THEN tasks[e.player] ELSE clanPaid[e.side]

\* A payment was made, for this winner.
Settled(e, w) == IF e.kind = "pay" THEN paid[e.player][w] > 0
                 ELSE e.kind = "clan" => clanPaid[e.side] > 0

LEMMA Applies ==
    ASSUME Typed, NEW e \in Effect, NEW w \in Side, Apply(e, w)
    PROVE  /\ paid' \in [Player -> [Side -> Nat]]
           /\ clanPaid' \in [Side -> Nat]
           /\ tasks' \in [Player -> Nat]
           /\ Settled(e, w)'
           /\ \A f \in Effect, v \in Side : Settled(f, v) => Settled(f, v)'
           /\ Count(e)' = Count(e) + 1
           /\ \A f \in Effect : f # e => Count(f)' = Count(f)
  <1> USE DEF Side
  <1>1. /\ paid \in [Player -> [Side -> Nat]] /\ clanPaid \in [Side -> Nat] /\ tasks \in [Player -> Nat]
    BY DEF Typed, TypeOK
  <1>2. CASE e.kind = "pay"
    <2>1. e.player \in Player /\ e = [kind |-> "pay", player |-> e.player]
      BY <1>2, EffectKinds
    <2>2. /\ paid' = [paid EXCEPT ![e.player] = Won(@, w)] /\ clanPaid' = clanPaid /\ tasks' = tasks
      BY <1>2 DEF Apply
    <2> DEFINE old == paid[e.player]
               new == Won(old, w)
    <2>3. old \in [Side -> Nat]
      BY <1>1, <2>1
    <2>4. /\ new \in [Side -> Nat] /\ new[w] = old[w] + 1
          /\ \A v \in Side : v # w => new[v] = old[v]
      BY <2>3 DEF Won
    <2>5. paid'[e.player] = new /\ \A p \in Player : p # e.player => paid'[p] = paid[p]
      BY <1>1, <2>1, <2>2
    <2>6. paid' \in [Player -> [Side -> Nat]]
      BY <1>1, <2>1, <2>2, <2>4
    <2> HIDE DEF new
    <2>7. new["A"] + new["B"] = old["A"] + old["B"] + 1
      BY <2>3, <2>4
    <2>8. Settled(e, w)'
      BY <1>2, <2>3, <2>4, <2>5 DEF Settled
    <2>9. Count(e)' = Count(e) + 1
      BY <1>2, <2>5, <2>7 DEF Count, Battles
    <2>10. ASSUME NEW f \in Effect, f # e
           PROVE  Count(f)' = Count(f) /\ \A v \in Side : Settled(f, v) => Settled(f, v)'
      <3>1. f.kind = "pay" => f.player \in Player /\ f.player # e.player
        BY <2>1, <2>10, EffectKinds
      <3>2. f.kind = "pay" => paid'[f.player] = paid[f.player]
        BY <3>1, <2>5
      <3> QED BY <2>2, <3>2 DEF Count, Settled, Battles
    <2>11. \A v \in Side : Settled(e, v) => Settled(e, v)'
      BY <1>2, <2>3, <2>4, <2>5 DEF Settled
    <2> QED BY <1>1, <2>2, <2>6, <2>8, <2>9, <2>10, <2>11
  <1>3. CASE e.kind = "task"
    <2>1. e.player \in Player /\ e = [kind |-> "task", player |-> e.player]
      BY <1>3, EffectKinds
    <2>2. /\ tasks' = [tasks EXCEPT ![e.player] = @ + 1] /\ clanPaid' = clanPaid /\ paid' = paid
      BY <1>3 DEF Apply
    <2>3. /\ tasks' \in [Player -> Nat] /\ tasks'[e.player] = tasks[e.player] + 1
          /\ \A p \in Player : p # e.player => tasks'[p] = tasks[p]
      BY <1>1, <2>1, <2>2
    <2>4. ASSUME NEW f \in Effect, f # e
          PROVE  Count(f)' = Count(f)
      <3>1. f.kind = "task" => f.player \in Player /\ f.player # e.player
        BY <2>1, <2>4, EffectKinds
      <3> QED BY <2>2, <2>3, <3>1 DEF Count, Battles
    <2>5. Count(e)' = Count(e) + 1
      BY <1>3, <2>3 DEF Count
    <2>6. Settled(e, w)' /\ \A f \in Effect, v \in Side : Settled(f, v) => Settled(f, v)'
      BY <1>3, <2>2 DEF Settled
    <2> QED BY <1>1, <2>2, <2>3, <2>4, <2>5, <2>6
  <1>4. CASE e.kind = "clan"
    <2>1. e.side \in Side /\ e = [kind |-> "clan", side |-> e.side]
      BY <1>4, EffectKinds
    <2>2. /\ clanPaid' = [clanPaid EXCEPT ![e.side] = @ + 1] /\ tasks' = tasks /\ paid' = paid
      BY <1>4 DEF Apply
    <2>3. /\ clanPaid' \in [Side -> Nat] /\ clanPaid'[e.side] = clanPaid[e.side] + 1
          /\ \A t \in Side : t # e.side => clanPaid'[t] = clanPaid[t]
      BY <1>1, <2>1, <2>2
    <2>4. ASSUME NEW f \in Effect, f # e
          PROVE  Count(f)' = Count(f)
      <3>1. f.kind = "clan" => f.side \in Side /\ f.side # e.side
        BY <2>1, <2>4, EffectKinds
      <3>2. f.kind \in {"pay", "task", "clan"}
        BY EffectKinds
      <3> QED BY <2>2, <2>3, <3>1, <3>2 DEF Count, Battles
    <2>5. Count(e)' = Count(e) + 1
      BY <1>4, <2>3 DEF Count
    <2>6. Settled(e, w)'
      BY <1>1, <1>4, <2>1, <2>3 DEF Settled
    <2>7. ASSUME NEW f \in Effect, NEW v \in Side, Settled(f, v)
          PROVE  Settled(f, v)'
      <3>1. f.kind = "clan" => f.side \in Side
        BY EffectKinds
      <3>2. f.kind = "clan" => clanPaid'[f.side] >= clanPaid[f.side]
        BY <1>1, <2>1, <2>3, <3>1
      <3> QED BY <1>1, <2>2, <2>3, <2>7, <3>1, <3>2 DEF Settled
    <2> QED BY <1>1, <2>2, <2>3, <2>4, <2>5, <2>6, <2>7
  <1> QED BY <1>2, <1>3, <1>4, EffectKinds
----------------------------------------------------------------------------
(* What the actions do, as the proofs need it.                              *)

\* The request a call begins with.
Starting(p) == [Idle EXCEPT !.pc = "startSave", !.player = p, !.seen = match]

Finishing(p, w) == [Idle EXCEPT !.pc = "lock", !.player = p, !.seen = match, !.winner = w]

LEMMA StartBegun ==
    ASSUME Typed, NEW s \in Slot, NEW p \in Player, startMatch(s, p)
    PROVE  /\ Continue(s, Starting(p)) /\ Starting(p) \in Request /\ Knows(Starting(p))
           /\ Starting(p).pc = "startSave" /\ Starting(p).player = p /\ Starting(p).seen = match
           /\ Playing(p) /\ At(s, "idle")
           /\ UNCHANGED <<match, lasting, lock, paid, clanPaid, tasks, confirmed, published,
                          raced, lapsed>>
  <1> DEFINE r == Starting(p)
  <1>1. match \in MatchRecord /\ match # Nil /\ match.status = "ACTIVE" /\ p \in RealPlayers
    BY DEF startMatch, Playing, Typed, TypeOK
  <1>2. r \in Request /\ r.pc = "startSave" /\ r.player = p /\ r.seen = match
    BY <1>1, IdleRequest DEF Starting, Request
  <1>3. /\ Continue(s, r) /\ Playing(p) /\ At(s, "idle")
        /\ UNCHANGED <<match, lasting, lock, paid, clanPaid, tasks, confirmed, published, raced, lapsed>>
    BY DEF startMatch, Starting
  <1> HIDE DEF r
  <1>4. Knows(r)
    BY <1>1, <1>2 DEF Knows
  <1> QED BY <1>2, <1>3, <1>4 DEF r

LEMMA FinishBegun ==
    ASSUME Typed, NEW s \in Slot, NEW p \in Player, NEW w \in Side, finishMatch(s, p, w)
    PROVE  /\ Continue(s, Finishing(p, w)) /\ Finishing(p, w) \in Request /\ Knows(Finishing(p, w))
           /\ Finishing(p, w).pc = "lock" /\ Finishing(p, w).seen = match
           /\ Playing(p) /\ At(s, "idle")
           /\ UNCHANGED <<match, lasting, lock, paid, clanPaid, tasks, confirmed, published,
                          raced, lapsed>>
  <1> DEFINE r == Finishing(p, w)
  <1>1. match \in MatchRecord /\ match # Nil /\ match.status = "ACTIVE" /\ p \in RealPlayers
    BY DEF finishMatch, Playing, Typed, TypeOK
  <1>2. r \in Request /\ r.pc = "lock" /\ r.winner = w /\ r.seen = match
    BY <1>1, IdleRequest DEF Finishing, Request
  <1>3. /\ Continue(s, r) /\ Playing(p) /\ At(s, "idle")
        /\ UNCHANGED <<match, lasting, lock, paid, clanPaid, tasks, confirmed, published, raced, lapsed>>
    BY DEF finishMatch, Finishing, history, events
  <1> HIDE DEF r
  <1>4. Knows(r)
    BY <1>1, <1>2 DEF Knows
  <1> QED BY <1>2, <1>3, <1>4 DEF r

LEMMA StartSaves ==
    ASSUME Typed, NEW s \in Slot, StartSave(s)
    PROVE  LET r == req[s]
               ready == Ready(r.seen, r.player)
           IN  /\ At(s, "startSave") /\ r \in Request /\ Knows(r)
               /\ match' \in MatchRecord /\ match'.status = "ACTIVE" /\ match'.ready = ready
               /\ match'.started = (r.seen.started \/ AllReady(ready))
               /\ raced' = (raced \/ match # r.seen)
               /\ UNCHANGED <<lock, paid, clanPaid, tasks, published, lapsed>>
               /\ lasting' = TRUE
               /\ \/ /\ Starts(r.seen, ready) /\ confirmed' = confirmed
                     /\ Continue(s, [r EXCEPT !.pc = "publish"])
                  \/ /\ ~Starts(r.seen, ready) /\ confirmed' = confirmed \cup {r.player}
                     /\ Return(s)
  <1> DEFINE r == req[s]
             ready == Ready(r.seen, r.player)
             started == r.seen.started \/ AllReady(ready)
  <1>1. r \in Request /\ Knows(r) /\ r.pc = "startSave"
    BY DEF StartSave, Typed, TypeOK, At
  <1>2. r.seen \in MatchRecord /\ r.seen.status = "ACTIVE" /\ r.player \in RealPlayers
    BY <1>1 DEF Knows
  <1>3. ready \subseteq Player
    BY <1>2, TeamTypes DEF Ready
  <1>4. started \in BOOLEAN
    BY <1>2 DEF AllReady, MatchRecord
  <1>5. match' = [r.seen EXCEPT !.ready = ready, !.started = started]
    BY DEF StartSave, Save
  <1> HIDE DEF ready, started
  <1>6. /\ match' \in MatchRecord /\ match'.status = "ACTIVE" /\ match'.ready = ready
        /\ match'.started = started
    BY <1>2, <1>3, <1>4, <1>5 DEF MatchRecord
  <1> USE DEF ready, started
  <1>7. /\ raced' = (raced \/ match # r.seen)
        /\ UNCHANGED <<lock, paid, clanPaid, tasks, published, lapsed>> /\ lasting' = TRUE
    BY DEF StartSave, Save
  <1>8. \/ /\ Starts(r.seen, ready) /\ confirmed' = confirmed
           /\ Continue(s, [r EXCEPT !.pc = "publish"])
        \/ /\ ~Starts(r.seen, ready) /\ confirmed' = confirmed \cup {r.player}
           /\ Return(s)
    BY DEF StartSave
  <1> QED BY <1>1, <1>6, <1>7, <1>8 DEF At

LEMMA FinishSaves ==
    ASSUME Typed, NEW s \in Slot, FinishSave(s)
    PROVE  LET r == req[s]
           IN  /\ At(s, "finishSave") /\ r \in Request /\ Knows(r)
               /\ match' \in MatchRecord /\ match'.status = "FINISHED" /\ match'.winner = r.winner
               /\ match'.ready = r.seen.ready /\ match'.started = r.seen.started
               /\ raced' = (raced \/ match # r.seen)
               /\ UNCHANGED <<lock, paid, clanPaid, tasks, confirmed, published, lapsed>>
               /\ lasting' = FALSE
               /\ Return(s)
  <1> DEFINE r == req[s]
  <1>1. r \in Request /\ Knows(r) /\ r.pc = "finishSave"
    BY DEF FinishSave, Typed, TypeOK, At
  <1>2. r.seen \in MatchRecord /\ r.winner \in Side
    BY <1>1 DEF Knows
  <1>3. match' = [r.seen EXCEPT !.status = "FINISHED", !.winner = r.winner]
    BY DEF FinishSave, Save
  <1>4. /\ match' \in MatchRecord /\ match'.status = "FINISHED" /\ match'.winner = r.winner
        /\ match'.ready = r.seen.ready /\ match'.started = r.seen.started
    BY <1>2, <1>3 DEF MatchRecord
  <1> QED BY <1>1, <1>4 DEF FinishSave, Save, events, At

\* A request that has effects to have goes over to the rest of them.
Rest(r) == [r EXCEPT !.todo = Tail(r.todo), !.pc = EffectPC(r.todo)]

LEMMA RestIs ==
    ASSUME NEW r \in Request, Knows(r), r.pc = "effects", r.todo # <<>>
    PROVE  /\ Rest(r) \in Request /\ Knows(Rest(r)) /\ Rest(r).todo = Tail(r.todo)
           /\ Rest(r).winner = r.winner /\ Rest(r).pc \in {"effects", "finishSave"}
           /\ Rest(r).seen = r.seen
           /\ Head(r.todo) \in Effect /\ r.winner \in Side
  <1> DEFINE todo == r.todo
             rest == Tail(todo)
             pc == EffectPC(todo)
             n == [r EXCEPT !.todo = rest, !.pc = pc]
  <1>1. todo \in Seq(Effect) /\ todo # <<>>
    BY DEF Request
  <1>2. r.seen \in MatchRecord /\ r.seen # Nil /\ r.winner \in Side
    BY DEF Knows
  <1> HIDE DEF todo
  <1>3. rest \in Seq(Effect) /\ Head(todo) \in Effect
    BY <1>1, TailElements
  <1>4. pc \in {"effects", "finishSave"} /\ (pc = "finishSave" => rest = <<>>)
    BY <1>1, TailElements DEF EffectPC
  <1> HIDE DEF rest, pc
  <1>5. /\ n \in Request /\ n.pc = pc /\ n.todo = rest /\ n.winner = r.winner /\ n.seen = r.seen
    BY <1>3, <1>4 DEF Request
  <1>6. Knows(n)
    <2> HIDE DEF n
    <2> QED BY <1>2, <1>4, <1>5 DEF Knows
  <1>7. n = Rest(r)
    BY DEF Rest, rest, pc, todo
  <1> HIDE DEF n
  <1> QED BY <1>2, <1>3, <1>4, <1>5, <1>6, <1>7 DEF rest, todo

LEMMA EffectsGoOn ==
    ASSUME Typed, NEW s \in Slot, FinishEffect(s) \/ FinishFails(s)
    PROVE  LET r == req[s]
           IN  /\ r \in Request /\ Knows(r) /\ r.pc = "effects" /\ r.todo # <<>>
               /\ UNCHANGED <<match, lasting, lock, confirmed, published, raced, lapsed>>
               /\ \/ Continue(s, Rest(r)) /\ Apply(Head(r.todo), r.winner)
                  \/ /\ Continue(s, Rest(r)) /\ Head(r.todo).kind = "task"
                     /\ UNCHANGED <<paid, clanPaid, tasks>>
                  \/ Return(s) /\ UNCHANGED <<paid, clanPaid, tasks>>
  <1>1. req[s] \in Request /\ Knows(req[s])
    BY DEF Typed, TypeOK
  <1>2. CASE FinishEffect(s)
    BY <1>1, <1>2 DEF FinishEffect, Rest, Apply, At
  <1>3. CASE FinishFails(s)
    BY <1>1, <1>3 DEF FinishFails, Rest, At, history, events
  <1> QED BY <1>2, <1>3

LEMMA Locks ==
    ASSUME Typed, NEW s \in Slot, FinishLock(s)
    PROVE  LET r == req[s]
               n == [r EXCEPT !.pc = "effects", !.todo = Effects]
           IN  /\ r \in Request /\ r.pc = "lock"
               /\ n \in Request /\ Knows(n) /\ n.pc = "effects" /\ n.todo = Effects
               /\ n.winner = r.winner /\ r.winner \in Side
               /\ lock' = TRUE
               /\ UNCHANGED <<match, lasting, paid, clanPaid, tasks, confirmed, published, raced, lapsed>>
               /\ (lock /\ Return(s)) \/ (~lock /\ Continue(s, n))
  <1> DEFINE r == req[s]
             fx == Effects
             n == [r EXCEPT !.pc = "effects", !.todo = fx]
  <1>1. r \in Request /\ Knows(r) /\ r.pc = "lock"
    BY DEF Typed, TypeOK, FinishLock, At
  <1>2. fx \in Seq(Effect)
    BY EffectsReachAll
  <1>3. r.seen \in MatchRecord /\ r.seen # Nil /\ r.winner \in Side
    BY <1>1 DEF Knows
  <1> HIDE DEF fx
  <1>4. n \in Request /\ n.pc = "effects" /\ n.todo = fx /\ n.winner = r.winner /\ n.seen = r.seen
    BY <1>1, <1>2 DEF Request
  <1>5. Knows(n)
    <2> HIDE DEF n
    <2> QED BY <1>3, <1>4 DEF Knows
  <1>6. /\ lock' = TRUE
        /\ UNCHANGED <<match, lasting, paid, clanPaid, tasks, confirmed, published, raced, lapsed>>
        /\ (lock /\ Return(s)) \/ (~lock /\ Continue(s, n))
    BY DEF FinishLock, history, events, fx
  <1> QED BY <1>1, <1>3, <1>4, <1>5, <1>6 DEF fx
----------------------------------------------------------------------------
LEMMA TypedInit == Init => Typed
  <1> SUFFICES ASSUME Init PROVE Typed
    OBVIOUS
  <1>1. match \in MatchRecord
    BY DEF Init, MatchRecord
  <1>2. paid \in [Player -> [Side -> Nat]] /\ clanPaid \in [Side -> Nat] /\ tasks \in [Player -> Nat]
    BY DEF Init
  <1>3. req \in [Slot -> Request] /\ \A s \in Slot : Knows(req[s])
    BY IdleRequest DEF Init
  <1> QED BY <1>1, <1>2, <1>3 DEF Init, Typed, TypeOK

LEMMA TypedStep == Typed /\ [Next]_vars => Typed'
  <1> SUFFICES ASSUME Typed, [Next]_vars PROVE Typed'
    OBVIOUS
  <1> USE DEF Typed, TypeOK
  <1>0. RealPlayers \subseteq Player
    BY TeamTypes
  <1>1. ASSUME NEW s \in Slot, Call(s)
        PROVE  Typed'
    <2>1. PICK p \in Player : startMatch(s, p) \/ \E w \in Side : finishMatch(s, p, w)
      BY <1>1 DEF Call
    <2>2. CASE startMatch(s, p)
      <3>1. req' \in [Slot -> Request] /\ \A u \in Slot : Knows(req'[u])
        BY <2>2, StartBegun, Continues
      <3> QED BY <2>2, <3>1, StartBegun
    <2>3. ASSUME NEW w \in Side, finishMatch(s, p, w)
          PROVE  Typed'
      <3>1. req' \in [Slot -> Request] /\ \A u \in Slot : Knows(req'[u])
        BY <2>3, FinishBegun, Continues
      <3> QED BY <2>3, <3>1, FinishBegun
    <2> QED BY <2>1, <2>2, <2>3
  <1>2. ASSUME NEW s \in Slot, StartSave(s)
        PROVE  Typed'
    <2> DEFINE n == [req[s] EXCEPT !.pc = "publish"]
    <2>1. /\ req[s] \in Request /\ req[s].player \in RealPlayers /\ n \in Request /\ Knows(n)
      BY <1>2, StartSaves DEF Request, Knows, At
    <2>2. /\ match' \in MatchRecord /\ raced' \in BOOLEAN
          /\ UNCHANGED <<lock, paid, clanPaid, tasks, published, lapsed>> /\ lasting' = TRUE
          /\ confirmed' \subseteq confirmed \cup {req[s].player}
          /\ Continue(s, n) \/ Return(s)
      BY <1>2, StartSaves
    <2> HIDE DEF n
    <2>3. req' \in [Slot -> Request] /\ \A u \in Slot : Knows(req'[u])
      BY <2>1, <2>2, Continues, Returns
    <2> QED BY <1>0, <2>1, <2>2, <2>3
  <1>3. ASSUME NEW s \in Slot, Publish(s)
        PROVE  Typed'
    <2>1. req' \in [Slot -> Request] /\ \A u \in Slot : Knows(req'[u])
      BY <1>3, Returns DEF Publish
    <2>2. req[s].player \in RealPlayers
      BY <1>3 DEF Publish, At, Knows
    <2> QED BY <1>0, <1>3, <2>1, <2>2 DEF Publish
  <1>4. ASSUME NEW s \in Slot, FinishLock(s)
        PROVE  Typed'
    <2>1. req' \in [Slot -> Request] /\ \A u \in Slot : Knows(req'[u])
      BY <1>4, Locks, Continues, Returns
    <2> QED BY <1>4, <2>1, Locks
  <1>5. ASSUME NEW s \in Slot, FinishEffect(s) \/ FinishFails(s)
        PROVE  Typed'
    <2>1. req[s] \in Request /\ Knows(req[s]) /\ req[s].pc = "effects" /\ req[s].todo # <<>>
      BY <1>5, EffectsGoOn
    <2>2. /\ UNCHANGED <<match, lasting, lock, confirmed, published, raced, lapsed>>
          /\ Continue(s, Rest(req[s])) \/ Return(s)
          /\ Apply(Head(req[s].todo), req[s].winner) \/ UNCHANGED <<paid, clanPaid, tasks>>
      BY <1>5, EffectsGoOn
    <2>3. Rest(req[s]) \in Request /\ Knows(Rest(req[s])) /\ Head(req[s].todo) \in Effect /\ req[s].winner \in Side
      BY <2>1, RestIs
    <2>4. req' \in [Slot -> Request] /\ \A u \in Slot : Knows(req'[u])
      BY <2>2, <2>3, Continues, Returns
    <2>5. paid' \in [Player -> [Side -> Nat]] /\ clanPaid' \in [Side -> Nat] /\ tasks' \in [Player -> Nat]
      BY <2>2, <2>3, Applies
    <2> QED BY <2>2, <2>4, <2>5
  <1>6. ASSUME NEW s \in Slot, FinishSave(s)
        PROVE  Typed'
    <2>1. req' \in [Slot -> Request] /\ \A u \in Slot : Knows(req'[u])
      BY <1>6, FinishSaves, Returns
    <2> QED BY <1>6, <2>1, FinishSaves
  <1>7. ASSUME NEW s \in Slot, Crash(s)
        PROVE  Typed'
    <2>1. req' \in [Slot -> Request] /\ \A u \in Slot : Knows(req'[u])
      BY <1>7, Returns DEF Crash
    <2> QED BY <1>7, <2>1 DEF Crash, history, events
  <1>8. CASE ExpireMatch
    BY <1>8 DEF ExpireMatch, history, events
  <1>9. CASE ExpireLock
    BY <1>9 DEF ExpireLock, events
  <1>10. CASE UNCHANGED vars
    BY <1>10 DEF vars, history, events
  <1> QED
    BY <1>1, <1>2, <1>3, <1>4, <1>5, <1>6, <1>7, <1>8, <1>9, <1>10 DEF Next, Step
----------------------------------------------------------------------------
(* A stored result was paid                                                 *)

\* All payments of the match were made for winner w, but those of todo.
PaidBut(todo, w) ==
    \A e \in Elements(Effects) : e.kind = "task" \/ e \in Elements(todo) \/ Settled(e, w)

Pays(r) == r.pc \in {"effects", "finishSave"}

PaymentInv ==
    /\ \A s \in Slot : Pays(req[s]) => PaidBut(req[s].todo, req[s].winner)
    /\ match # Nil /\ match.status = "FINISHED" =>
         match.winner \in Side /\ PaidBut(<<>>, match.winner)

NothingUnpaid == \A f \in Effect, v \in Side : Settled(f, v) => Settled(f, v)'

LEMMA EffectsAreEffects == Elements(Effects) \subseteq Effect
  BY EffectsReachAll, ElementsOfSeq

\* A step that undoes no payment, and makes those it claims.
LEMMA PaymentFrame ==
    ASSUME Typed, PaymentInv, NothingUnpaid, NEW s \in Slot, NEW n,
           req'[s] = n, \A u \in Slot : u # s => req'[u] = req[u],
           Pays(n) => PaidBut(n.todo, n.winner)',
           \/ match' = match \/ match' = Nil
           \/ match'.status = "ACTIVE"
           \/ Pays(req[s]) /\ req[s].todo = <<>> /\ match'.winner = req[s].winner
    PROVE  PaymentInv'
  <1>1. ASSUME NEW todo, NEW w \in Side, PaidBut(todo, w)
        PROVE  PaidBut(todo, w)'
    BY <1>1, EffectsAreEffects DEF PaidBut, NothingUnpaid
  <1>2. \A u \in Slot : Pays(req[u]) => req[u].winner \in Side
    BY DEF Typed, Knows, Pays
  <1>3. \A u \in Slot : u # s /\ Pays(req[u]) => PaidBut(req[u].todo, req[u].winner)'
    <2> SUFFICES ASSUME NEW u \in Slot, u # s, Pays(req[u])
                 PROVE  PaidBut(req[u].todo, req[u].winner)'
      OBVIOUS
    <2>1. PICK todo, w : todo = req[u].todo /\ w = req[u].winner
      OBVIOUS
    <2>2. w \in Side /\ PaidBut(todo, w)
      BY <2>1, <1>2 DEF PaymentInv
    <2>3. PaidBut(todo, w)'
      BY <2>2, <1>1
    <2>4. req'[u].todo = todo /\ req'[u].winner = w
      BY <2>1
    <2> QED BY <2>3, <2>4 DEF PaidBut, Settled
  <1>4. Pays(n) => PaidBut(req[s].todo, req[s].winner)'
    BY DEF PaidBut, Settled
  <1>5. \A u \in Slot : Pays(req[u])' => PaidBut(req[u].todo, req[u].winner)'
    <2> SUFFICES ASSUME NEW u \in Slot, Pays(req[u])'
                 PROVE  PaidBut(req[u].todo, req[u].winner)'
      OBVIOUS
    <2>1. CASE u = s
      <3>1. Pays(n)
        BY <2>1 DEF Pays
      <3> QED BY <3>1, <2>1, <1>4
    <2>2. CASE u # s
      <3>1. Pays(req[u])
        BY <2>2 DEF Pays
      <3> QED BY <3>1, <2>2, <1>3
    <2> QED BY <2>1, <2>2
  <1>6. ASSUME match' # Nil, match'.status = "FINISHED"
        PROVE  match'.winner \in Side /\ PaidBut(<<>>, match.winner)'
    <2>1. PICK w : w = match'.winner
      OBVIOUS
    <2>2. w \in Side /\ PaidBut(<<>>, w)
      BY <1>2, <1>6, <2>1 DEF PaymentInv
    <2>3. PaidBut(<<>>, w)'
      BY <2>2, <1>1
    <2> QED BY <2>1, <2>2, <2>3 DEF PaidBut, Settled
  <1> QED BY <1>5, <1>6 DEF PaymentInv

LEMMA PaymentStep == Typed /\ PaymentInv /\ [Next]_vars => PaymentInv'
  <1> SUFFICES ASSUME Typed, PaymentInv, [Next]_vars PROVE PaymentInv'
    OBVIOUS
  <1>0. ASSUME UNCHANGED <<paid, clanPaid>>
        PROVE  NothingUnpaid
    BY <1>0 DEF NothingUnpaid, Settled
  <1>1. ASSUME NEW s \in Slot, Call(s)
        PROVE  PaymentInv'
    <2>1. PICK p \in Player : startMatch(s, p) \/ \E w \in Side : finishMatch(s, p, w)
      BY <1>1 DEF Call
    <2>2. \E n \in Request : Continue(s, n) /\ Knows(n) /\ ~Pays(n) /\ UNCHANGED <<match, paid, clanPaid>>
      BY <2>1, StartBegun, FinishBegun DEF Pays
    <2> QED BY <2>2, <1>0, Continues, PaymentFrame
  <1>2. ASSUME NEW s \in Slot, StartSave(s)
        PROVE  PaymentInv'
    <2> DEFINE n == [req[s] EXCEPT !.pc = "publish"]
    <2>1. /\ n \in Request /\ Knows(n) /\ ~Pays(n)
      BY <1>2, StartSaves DEF Request, Knows, At, Pays
    <2>2. /\ match'.status = "ACTIVE" /\ UNCHANGED <<paid, clanPaid>>
          /\ Continue(s, n) \/ Return(s)
      BY <1>2, StartSaves
    <2> HIDE DEF n
    <2>3. \E r : ~Pays(r) /\ req'[s] = r /\ \A u \in Slot : u # s => req'[u] = req[u]
      BY <2>1, <2>2, Continues, Returns, IdleRequest DEF Pays
    <2> QED BY <2>2, <2>3, <1>0, PaymentFrame
  <1>3. ASSUME NEW s \in Slot, Publish(s) \/ Crash(s)
        PROVE  PaymentInv'
    <2>1. UNCHANGED <<match, paid, clanPaid>> /\ Return(s)
      BY <1>3 DEF Publish, Crash, history, events
    <2> QED BY <2>1, <1>0, Returns, PaymentFrame, IdleRequest DEF Pays
  <1>4. ASSUME NEW s \in Slot, FinishLock(s)
        PROVE  PaymentInv'
    <2> DEFINE n == [req[s] EXCEPT !.pc = "effects", !.todo = Effects]
    <2>1. n \in Request /\ Knows(n) /\ n.todo = Effects
      BY <1>4, Locks
    <2>2. UNCHANGED <<match, paid, clanPaid>> /\ (Return(s) \/ Continue(s, n))
      BY <1>4, Locks
    <2> HIDE DEF n
    <2>4. CASE Return(s)
      BY <2>2, <2>4, <1>0, Returns, PaymentFrame, IdleRequest DEF Pays
    <2>5. CASE Continue(s, n)
      <3>1. req'[s] = n /\ \A u \in Slot : u # s => req'[u] = req[u]
        BY <2>1, <2>5, Continues
      <3>2. PICK m : m = n
        OBVIOUS
      <3>3. PaidBut(m.todo, m.winner)'
        BY <2>1, <3>2 DEF PaidBut
      <3> QED BY <2>2, <3>1, <3>2, <3>3, <1>0, PaymentFrame
    <2> QED BY <2>2, <2>4, <2>5
  <1>5. ASSUME NEW s \in Slot, FinishEffect(s) \/ FinishFails(s)
        PROVE  PaymentInv'
    <2>1. PICK r, n, todo, w : r = req[s] /\ n = Rest(req[s]) /\ todo = req[s].todo /\ w = req[s].winner
      OBVIOUS
    <2>2. /\ r \in Request /\ Knows(r) /\ r.pc = "effects" /\ todo # <<>>
          /\ match' = match
          /\ \/ Continue(s, n) /\ Apply(Head(todo), w)
             \/ /\ Continue(s, n) /\ Head(todo).kind = "task" /\ UNCHANGED <<paid, clanPaid>>
             \/ Return(s) /\ UNCHANGED <<paid, clanPaid>>
      BY <2>1, <1>5, EffectsGoOn
    <2>3. /\ n \in Request /\ Knows(n) /\ n.todo = Tail(todo) /\ n.winner = w
          /\ Head(todo) \in Effect /\ w \in Side
      BY <2>1, <2>2, RestIs
    <2>4. todo \in Seq(Effect)
      BY <2>1, <2>2 DEF Request
    <2>5. Elements(todo) = {Head(todo)} \cup Elements(Tail(todo))
      BY <2>2, <2>4, TailElements
    <2>6. PaidBut(todo, w)
      BY <2>1, <2>2 DEF PaymentInv, Pays
    <2>7. NothingUnpaid
      BY <2>2, <2>3, <1>0, Applies DEF NothingUnpaid
    <2>8. CASE Return(s)
      BY <2>2, <2>7, <2>8, Returns, PaymentFrame, IdleRequest DEF Pays
    <2>9. CASE Continue(s, n) /\ (Head(todo).kind = "task" \/ Settled(Head(todo), w)')
      <3>1. req'[s] = n /\ \A u \in Slot : u # s => req'[u] = req[u]
        BY <2>3, <2>9, Continues
      <3>2. \A e \in Elements(Effects) : e.kind = "task" \/ e \in Elements(Tail(todo)) \/ Settled(e, w)'
        <4> SUFFICES ASSUME NEW e \in Elements(Effects), e.kind # "task", e \notin Elements(Tail(todo))
                     PROVE  Settled(e, w)'
          OBVIOUS
        <4>1. e = Head(todo) \/ Settled(e, w)
          BY <2>5, <2>6 DEF PaidBut
        <4>2. Settled(e, w) => Settled(e, w)'
          BY <2>3, <2>7, EffectsAreEffects DEF NothingUnpaid
        <4> QED BY <4>1, <4>2, <2>9
      <3>3. PaidBut(n.todo, n.winner)'
        BY <3>2, <2>3 DEF PaidBut
      <3> QED BY <2>2, <2>7, <3>1, <3>3, PaymentFrame
    <2> QED BY <2>2, <2>3, <2>8, <2>9, Applies
  <1>6. ASSUME NEW s \in Slot, FinishSave(s)
        PROVE  PaymentInv'
    <2>1. Pays(req[s]) /\ req[s].todo = <<>> /\ match'.winner = req[s].winner /\ UNCHANGED <<paid, clanPaid>> /\ Return(s)
      BY <1>6, FinishSaves DEF Pays, At, Knows
    <2> QED BY <2>1, <1>0, Returns, PaymentFrame, IdleRequest DEF Pays
  <1>7. CASE ExpireMatch \/ ExpireLock \/ UNCHANGED vars
    <2>1. (match' = match \/ match' = Nil) /\ UNCHANGED <<paid, clanPaid, req>>
      BY <1>7 DEF ExpireMatch, ExpireLock, vars, history, events
    <2> QED BY <2>1 DEF PaymentInv, PaidBut, Settled, Pays
  <1> QED
    BY <1>1, <1>2, <1>3, <1>4, <1>5, <1>6, <1>7 DEF Next, Step

LEMMA TypedAlways == Spec => []Typed
  BY TypedInit, TypedStep, PTL DEF Spec

\* The match, its lock, what was paid and what requests remember keep their types.
THEOREM LifecycleTypeOK == Spec => []TypeOK
  <1>1. Typed => TypeOK
    BY DEF Typed
  <1> QED BY <1>1, TypedAlways, PTL

\* A stored result was paid in full: every real player and both clans, in favour
\* of the winner that is stored (finishMatch pays before saveActiveMatch).
THEOREM FinishedPaysAll == Spec => []FinishedIsPaid
  <1>1. Init => PaymentInv
    BY IdleRequest DEF Init, PaymentInv, Pays
  <1>2. ASSUME PaymentInv PROVE FinishedIsPaid
    <2> SUFFICES ASSUME match # Nil, match.status = "FINISHED"
                 PROVE  /\ \A p \in RealPlayers : paid[p][match.winner] > 0
                        /\ matchType = "CLAN" => \A t \in Side : TeamClan[t] # Nil => clanPaid[t] > 0
      BY DEF FinishedIsPaid
    <2>1. PaidBut(<<>>, match.winner)
      BY <1>2 DEF PaymentInv
    <2>2. Elements(<<>>) = {}
      BY DEF Elements
    <2>3. \A e \in Elements(Effects) : e.kind = "task" \/ Settled(e, match.winner)
      BY <2>1, <2>2 DEF PaidBut
    <2>4. ASSUME NEW p \in RealPlayers
          PROVE  paid[p][match.winner] > 0
      <3> DEFINE e == [kind |-> "pay", player |-> p]
      <3>1. e \in Elements(Effects) /\ e.kind = "pay" /\ e.player = p
        BY EffectsReachAll
      <3> QED BY <3>1, <2>3 DEF Settled
    <2>5. ASSUME NEW t \in Side, matchType = "CLAN", TeamClan[t] # Nil
          PROVE  clanPaid[t] > 0
      <3> DEFINE e == [kind |-> "clan", side |-> t]
      <3>1. e \in Elements(Effects) /\ e.kind = "clan" /\ e.side = t
        BY <2>5, EffectsReachAll
      <3> QED BY <3>1, <2>3 DEF Settled
    <2> QED BY <2>4, <2>5
  <1> QED BY <1>1, <1>2, TypedAlways, PaymentStep, PTL DEF Spec
----------------------------------------------------------------------------
(* Nothing is paid twice                                                    *)

Over == Quiet /\ ~ (match # Nil /\ match.status = "ACTIVE")

Unpaid ==
    /\ \A e \in Effect : Count(e) = 0
    /\ \A s \in Slot : ~Pays(req[s])

\* Whoever has effects still to have got the lock, and is the only one to have.
LockGuards ==
    /\ ~lock => Unpaid \/ Over
    /\ \A s, u \in Slot : Pays(req[s]) /\ Pays(req[u]) => s = u
    /\ \A s \in Slot : Pays(req[s]) =>
         /\ Distinct(req[s].todo)
         /\ \A e \in Elements(req[s].todo) : Count(e) = 0
    /\ \A e \in Effect : Count(e) <= 1

OnceInv == ~lapsed => LockGuards

\* A step of a request that has no effect: it may only give up its effects.
LEMMA OnceFrame ==
    ASSUME Typed, OnceInv, UNCHANGED <<paid, clanPaid, tasks, lapsed>>, NEW s \in Slot, NEW n,
           lock' = lock \/ lock', ~Over,
           req'[s] = n, \A u \in Slot : u # s => req'[u] = req[u],
           Pays(n) => Pays(req[s]) /\ Distinct(n.todo) /\ Elements(n.todo) \subseteq Elements(req[s].todo)
    PROVE  OnceInv'
  <1> SUFFICES ASSUME ~lapsed, LockGuards PROVE LockGuards'
    BY DEF OnceInv
  <1>1. \A e : Count(e)' = Count(e)
    BY DEF Count, Battles
  <1>2. \A u \in Slot : Pays(req[u])' => Pays(req[u])
    BY DEF Pays
  <1>3. (~lock => Unpaid \/ Over)'
    BY <1>1, <1>2 DEF LockGuards, Unpaid
  <1>4. (\A u, v \in Slot : Pays(req[u]) /\ Pays(req[v]) => u = v)'
    BY <1>2 DEF LockGuards
  <1>5. ASSUME NEW u \in Slot, Pays(req[u])'
        PROVE  Distinct(req[u].todo)' /\ \A e \in Elements(req[u].todo)' : Count(e)' = 0
    <2>1. Pays(req[u]) /\ Distinct(req[u].todo) /\ \A e \in Elements(req[u].todo) : Count(e) = 0
      BY <1>2, <1>5 DEF LockGuards
    <2>2. CASE u = s
      <3>1. Pays(n)
        BY <1>5, <2>2 DEF Pays
      <3>2. Distinct(n.todo) /\ Elements(n.todo) \subseteq Elements(req[s].todo)
        BY <3>1
      <3>3. Distinct(req[u].todo)'
        BY <2>2, <3>2 DEF Distinct
      <3>4. Elements(req[u].todo)' = Elements(n.todo)
        BY <2>2 DEF Elements
      <3> QED BY <1>1, <2>1, <2>2, <3>2, <3>3, <3>4
    <2>3. CASE u # s
      <3>1. Distinct(req[u].todo)' /\ Elements(req[u].todo)' = Elements(req[u].todo)
        BY <2>1, <2>3 DEF Distinct, Elements
      <3> QED BY <1>1, <2>1, <3>1
    <2> QED BY <2>2, <2>3
  <1>6. (\A e \in Effect : Count(e) <= 1)'
    BY <1>1 DEF LockGuards
  <1> QED BY <1>3, <1>4, <1>5, <1>6 DEF LockGuards

LEMMA OnceStep ==
    ASSUME PlayersDiffer
    PROVE  Typed /\ OnceInv /\ [Next]_vars => OnceInv'
  <1> SUFFICES ASSUME Typed, OnceInv, [Next]_vars PROVE OnceInv'
    OBVIOUS
  <1>0. ASSUME NEW s \in Slot, req[s].pc # "idle"
        PROVE  ~Over
    BY <1>0 DEF Over, Quiet, At
  <1>1. ASSUME NEW s \in Slot, Call(s)
        PROVE  OnceInv'
    <2>1. PICK p \in Player : startMatch(s, p) \/ \E w \in Side : finishMatch(s, p, w)
      BY <1>1 DEF Call
    <2>2. \E n \in Request : /\ Continue(s, n) /\ Knows(n) /\ ~Pays(n) /\ ~Over /\ lock' = lock
                             /\ UNCHANGED <<paid, clanPaid, tasks, lapsed>>
      BY <2>1, StartBegun, FinishBegun DEF Pays, Over, Playing
    <2> QED BY <2>2, Continues, OnceFrame
  <1>2. ASSUME NEW s \in Slot, StartSave(s)
        PROVE  OnceInv'
    <2> DEFINE n == [req[s] EXCEPT !.pc = "publish"]
    <2>1. /\ n \in Request /\ Knows(n) /\ ~Pays(n) /\ ~Over
      BY <1>0, <1>2, StartSaves DEF Request, Knows, At, Pays
    <2>2. /\ UNCHANGED <<paid, clanPaid, tasks, lapsed, lock>>
          /\ Continue(s, n) \/ Return(s)
      BY <1>2, StartSaves
    <2> HIDE DEF n
    <2>3. \E r : ~Pays(r) /\ req'[s] = r /\ \A u \in Slot : u # s => req'[u] = req[u]
      BY <2>1, <2>2, Continues, Returns, IdleRequest DEF Pays
    <2> QED BY <2>1, <2>2, <2>3, OnceFrame
  <1>3. ASSUME NEW s \in Slot, Publish(s) \/ Crash(s) \/ FinishSave(s)
        PROVE  OnceInv'
    <2>1. UNCHANGED <<paid, clanPaid, tasks, lapsed, lock>> /\ Return(s) /\ req[s].pc # "idle"
      BY <1>3, FinishSaves DEF Publish, Crash, history, events, At
    <2>2. ~Over
      BY <2>1, <1>0
    <2> QED BY <2>1, <2>2, Returns, OnceFrame, IdleRequest DEF Pays
  <1>4. ASSUME NEW s \in Slot, FinishLock(s)
        PROVE  OnceInv'
    <2>1. PICK n : n = [req[s] EXCEPT !.pc = "effects", !.todo = Effects]
      OBVIOUS
    <2>2. /\ n \in Request /\ Knows(n) /\ n.todo = Effects /\ req[s].pc = "lock" /\ lock' = TRUE
          /\ UNCHANGED <<paid, clanPaid, tasks, lapsed>>
          /\ (lock /\ Return(s)) \/ (~lock /\ Continue(s, n))
      BY <2>1, <1>4, Locks
    <2>3. ~Over
      BY <2>2, <1>0
    <2>4. CASE Return(s)
      BY <2>2, <2>3, <2>4, Returns, OnceFrame, IdleRequest DEF Pays
    <2>5. CASE ~lock /\ Continue(s, n)
      <3> SUFFICES ASSUME ~lapsed, LockGuards PROVE LockGuards'
        BY <2>2 DEF OnceInv
      <3>1. req'[s] = n /\ \A u \in Slot : u # s => req'[u] = req[u]
        BY <2>2, <2>5, Continues
      <3>2. Unpaid
        BY <2>3, <2>5 DEF LockGuards
      <3>3. \A e : Count(e)' = Count(e)
        BY <2>2 DEF Count, Battles
      <3>4. \A u \in Slot : u # s => ~Pays(req[u])'
        BY <3>1, <3>2 DEF Unpaid, Pays
      <3>5. Distinct(n.todo) /\ Elements(n.todo) \subseteq Effect
        BY <2>2, EffectsReachAll, EffectsAreEffects
      <3>6. Distinct(req[s].todo)' /\ Elements(req[s].todo)' = Elements(n.todo)
        BY <3>1, <3>5 DEF Distinct, Elements
      <3>7. (\A u, v \in Slot : Pays(req[u]) /\ Pays(req[v]) => u = v)'
        BY <3>4
      <3>8. (\A u \in Slot : Pays(req[u]) =>
               Distinct(req[u].todo) /\ \A e \in Elements(req[u].todo) : Count(e) = 0)'
        BY <3>2, <3>3, <3>4, <3>5, <3>6 DEF Unpaid
      <3>9. (\A e \in Effect : Count(e) <= 1)'
        BY <3>3 DEF LockGuards
      <3> QED BY <2>2, <3>7, <3>8, <3>9 DEF LockGuards
    <2> QED BY <2>2, <2>4, <2>5
  <1>5. ASSUME NEW s \in Slot, FinishEffect(s) \/ FinishFails(s)
        PROVE  OnceInv'
    <2>1. PICK r, n, todo, w : r = req[s] /\ n = Rest(req[s]) /\ todo = req[s].todo /\ w = req[s].winner
      OBVIOUS
    <2>2. /\ r \in Request /\ Knows(r) /\ r.pc = "effects" /\ todo # <<>>
          /\ UNCHANGED <<lock, lapsed>>
          /\ \/ Continue(s, n) /\ Apply(Head(todo), w)
             \/ Continue(s, n) /\ UNCHANGED <<paid, clanPaid, tasks>>
             \/ Return(s) /\ UNCHANGED <<paid, clanPaid, tasks>>
      BY <2>1, <1>5, EffectsGoOn
    <2>3. /\ n \in Request /\ Knows(n) /\ n.todo = Tail(todo) /\ n.winner = w
          /\ Head(todo) \in Effect /\ w \in Side
      BY <2>1, <2>2, RestIs
    <2>4. todo \in Seq(Effect)
      BY <2>1, <2>2 DEF Request
    <2>5. /\ Elements(todo) = {Head(todo)} \cup Elements(Tail(todo))
          /\ Distinct(todo) => Distinct(Tail(todo)) /\ Head(todo) \notin Elements(Tail(todo))
      BY <2>2, <2>4, TailElements
    <2>6. ~Over /\ Pays(req[s])
      BY <2>1, <2>2, <1>0 DEF Pays
    <2> SUFFICES ASSUME ~lapsed, LockGuards PROVE OnceInv'
      BY <2>2 DEF OnceInv
    <2>7. Distinct(todo) /\ \A e \in Elements(todo) : Count(e) = 0
      BY <2>1, <2>6 DEF LockGuards
    <2>8. CASE Return(s) /\ UNCHANGED <<paid, clanPaid, tasks>>
      BY <2>2, <2>6, <2>8, Returns, OnceFrame, IdleRequest DEF Pays
    <2>9. CASE Continue(s, n) /\ UNCHANGED <<paid, clanPaid, tasks>>
      <3>1. req'[s] = n /\ \A u \in Slot : u # s => req'[u] = req[u]
        BY <2>3, <2>9, Continues
      <3>2. Distinct(n.todo) /\ Elements(n.todo) \subseteq Elements(req[s].todo)
        BY <2>1, <2>3, <2>5, <2>7
      <3> QED BY <2>2, <2>6, <2>9, <3>1, <3>2, OnceFrame
    <2>10. CASE Continue(s, n) /\ Apply(Head(todo), w)
      <3>1. req'[s] = n /\ \A u \in Slot : u # s => req'[u] = req[u]
        BY <2>3, <2>10, Continues
      <3>2. PICK head : head = Head(todo)
        OBVIOUS
      <3>3. /\ Count(head)' = Count(head) + 1
            /\ \A f \in Effect : f # head => Count(f)' = Count(f)
        BY <2>3, <2>10, <3>2, Applies
      <3>4. Count(head) = 0
        BY <2>5, <2>7, <3>2
      <3>5. lock
        BY <2>6 DEF LockGuards, Unpaid
      <3>6. \A u \in Slot : u # s => ~Pays(req[u])'
        <4>1. \A u \in Slot : u # s => ~Pays(req[u])
          BY <2>6 DEF LockGuards
        <4> QED BY <3>1, <4>1 DEF Pays
      <3>7. Distinct(n.todo) /\ Elements(n.todo) \subseteq Effect /\ head \notin Elements(n.todo)
            /\ Elements(n.todo) \subseteq Elements(todo)
        <4>1. Elements(todo) \subseteq Effect
          BY <2>4, ElementsOfSeq
        <4> QED BY <2>3, <2>5, <2>7, <3>2, <4>1
      <3>8. Distinct(req[s].todo)' /\ Elements(req[s].todo)' = Elements(n.todo)
        BY <3>1, <3>7 DEF Distinct, Elements
      <3>9. \A e \in Elements(n.todo) : Count(e)' = 0
        BY <2>7, <3>3, <3>7
      <3>10. (\A u, v \in Slot : Pays(req[u]) /\ Pays(req[v]) => u = v)'
        BY <3>6
      <3>11. (\A u \in Slot : Pays(req[u]) =>
               Distinct(req[u].todo) /\ \A e \in Elements(req[u].todo) : Count(e) = 0)'
        BY <3>6, <3>8, <3>9
      <3>12. (\A e \in Effect : Count(e) <= 1)'
        BY <3>3, <3>4 DEF LockGuards
      <3> QED BY <2>2, <3>5, <3>10, <3>11, <3>12 DEF LockGuards, OnceInv
    <2> QED BY <2>2, <2>8, <2>9, <2>10
  <1>6. CASE ExpireMatch
    <2>1. UNCHANGED <<paid, clanPaid, tasks, lapsed, lock, req>> /\ match' = Nil
      BY <1>6 DEF ExpireMatch, history, events
    <2>2. Over => Over'
      BY <2>1 DEF Over, Quiet, At
    <2>3. Unpaid => Unpaid'
      BY <2>1 DEF Unpaid, Count, Battles, Pays
    <2> QED BY <2>1, <2>2, <2>3 DEF OnceInv, LockGuards, Count, Battles, Pays, Distinct, Elements
  <1>7. CASE ExpireLock
    <2>1. UNCHANGED <<paid, clanPaid, tasks, match, req>> /\ Quiet
          /\ lapsed' = (lapsed \/ (match # Nil /\ match.status = "ACTIVE"))
      BY <1>7 DEF ExpireLock, events
    <2>2. ~lapsed' => ~lapsed /\ Over'
      BY <2>1 DEF Over, Quiet, At
    <2> QED BY <2>1, <2>2 DEF OnceInv, LockGuards, Count, Battles, Pays, Distinct, Elements
  <1>8. CASE UNCHANGED vars
    BY <1>8 DEF vars, history, events, OnceInv, LockGuards, Unpaid, Over, Quiet, At, Count, Battles,
                Pays, Distinct, Elements
  <1> QED
    BY <1>1, <1>2, <1>3, <1>4, <1>5, <1>6, <1>7, <1>8 DEF Next, Step

\* A player, a clan and a daily task are paid at most once, however many finish
\* calls race, fail or stop half-way, where the lock outlives a call that failed
\* and no player is in the match twice (setNx in finishMatch).
THEOREM PaysOnce ==
    ASSUME PlayersDiffer
    PROVE  Spec => []PaidOnce
  <1>1. Init => OnceInv
    <2> SUFFICES ASSUME Init PROVE OnceInv
      OBVIOUS
    <2>1. \A s \in Slot : ~Pays(req[s])
      BY IdleRequest DEF Init, Pays
    <2>2. \A e \in Effect : Count(e) = 0
      <3> SUFFICES ASSUME NEW e \in Effect PROVE Count(e) = 0
        OBVIOUS
      <3>1. /\ e.kind \in {"pay", "task", "clan"}
            /\ e.kind \in {"pay", "task"} => e.player \in Player
            /\ e.kind = "clan" => e.side \in Side
        BY EffectKinds
      <3>2. \A p \in Player : Battles(p) = 0 /\ tasks[p] = 0
        BY DEF Init, Battles, Side
      <3>3. \A t \in Side : clanPaid[t] = 0
        BY DEF Init
      <3> QED BY <3>1, <3>2, <3>3 DEF Count
    <2> QED BY <2>1, <2>2 DEF OnceInv, LockGuards, Unpaid
  <1>2. ASSUME OnceInv PROVE PaidOnce
    <2> SUFFICES ASSUME ~lapsed
                 PROVE  /\ \A p \in Player : Battles(p) <= 1 /\ tasks[p] <= 1
                        /\ \A t \in Side : clanPaid[t] <= 1
      BY DEF PaidOnce
    <2>1. \A e \in Effect : Count(e) <= 1
      BY <1>2 DEF OnceInv, LockGuards
    <2>2. ASSUME NEW p \in Player
          PROVE  Battles(p) <= 1 /\ tasks[p] <= 1
      <3>1. /\ [kind |-> "pay", player |-> p] \in Effect
            /\ [kind |-> "task", player |-> p] \in Effect
        BY DEF Effect
      <3>2. /\ Count([kind |-> "pay", player |-> p]) = Battles(p)
            /\ Count([kind |-> "task", player |-> p]) = tasks[p]
        BY DEF Count
      <3> QED BY <2>1, <3>1, <3>2
    <2>3. ASSUME NEW t \in Side
          PROVE  clanPaid[t] <= 1
      <3>1. [kind |-> "clan", side |-> t] \in Effect
        BY DEF Effect
      <3>2. Count([kind |-> "clan", side |-> t]) = clanPaid[t]
        BY DEF Count
      <3> QED BY <2>1, <3>1, <3>2
    <2> QED BY <2>2, <2>3
  <1>3. Typed /\ OnceInv /\ [Next]_vars => OnceInv'
    BY OnceStep
  <1> QED BY <1>1, <1>2, <1>3, TypedAlways, PTL DEF Spec
----------------------------------------------------------------------------
(* A match starts with its last player                                      *)

Publishes(r) == r.pc = "publish"

\* Of the saves none was over a newer match: the match knows who is ready.
Started ==
    /\ published <= 1
    /\ \A s, u \in Slot : Publishes(req[s]) /\ Publishes(req[u]) => s = u
    /\ \A s \in Slot : Publishes(req[s]) => published = 0
    /\ confirmed \subseteq RealPlayers
    /\ match # Nil =>
         /\ confirmed \subseteq match.ready
         /\ \A s \in Slot : Publishes(req[s]) => req[s].player \in match.ready
         /\ RealPlayers \subseteq match.ready => match.started
         /\ ~match.started => published = 0 /\ \A s \in Slot : ~Publishes(req[s])

StartInv == ~raced => Started

\* A step of a request that starts nothing and loses no readiness.
LEMMA StartFrame ==
    ASSUME Typed, StartInv, UNCHANGED <<published, confirmed>>, NEW s \in Slot, NEW n,
           req'[s] = n, \A u \in Slot : u # s => req'[u] = req[u], ~Publishes(n),
           raced => raced',
           ~raced' => \/ match' = match \/ match' = Nil
                      \/ match # Nil /\ match'.ready = match.ready /\ match'.started = match.started
    PROVE  StartInv'
  <1> SUFFICES ASSUME ~raced', Started PROVE Started'
    BY DEF StartInv
  <1>1. \A u \in Slot : Publishes(req[u])' => Publishes(req[u]) /\ req'[u] = req[u]
    BY DEF Publishes
  <1> QED BY <1>1 DEF Started

LEMMA StartStep ==
    ASSUME RealPlayers # {}
    PROVE  Typed /\ StartInv /\ [Next]_vars => StartInv'
  <1> SUFFICES ASSUME Typed, StartInv, [Next]_vars PROVE StartInv'
    OBVIOUS
  <1>1. ASSUME NEW s \in Slot, Call(s)
        PROVE  StartInv'
    <2>1. PICK p \in Player : startMatch(s, p) \/ \E w \in Side : finishMatch(s, p, w)
      BY <1>1 DEF Call
    <2>2. \E n \in Request : /\ Continue(s, n) /\ Knows(n) /\ ~Publishes(n)
                             /\ UNCHANGED <<published, confirmed, raced, match>>
      BY <2>1, StartBegun, FinishBegun DEF Publishes
    <2> QED BY <2>2, Continues, StartFrame
  <1>2. ASSUME NEW s \in Slot, StartSave(s)
        PROVE  StartInv'
    <2>1. PICK r, n, ready : /\ r = req[s] /\ n = [req[s] EXCEPT !.pc = "publish"]
                             /\ ready = Ready(req[s].seen, req[s].player)
      OBVIOUS
    <2>2. /\ r \in Request /\ Knows(r) /\ r.pc = "startSave"
          /\ match' \in MatchRecord /\ match'.ready = ready
          /\ match'.started = (r.seen.started \/ AllReady(ready))
          /\ raced' = (raced \/ match # r.seen)
          /\ published' = published
          /\ \/ Starts(r.seen, ready) /\ confirmed' = confirmed /\ Continue(s, n)
             \/ /\ ~Starts(r.seen, ready) /\ confirmed' = confirmed \cup {r.player}
                /\ Return(s)
      BY <2>1, <1>2, StartSaves DEF At
    <2>3. n \in Request /\ Knows(n) /\ Publishes(n) /\ n.player = r.player
      BY <2>1, <2>2 DEF Request, Knows, Publishes
    <2> SUFFICES ASSUME ~raced' PROVE Started'
      BY DEF StartInv
    <2>4. match = r.seen /\ match # Nil /\ Started /\ r.player \in RealPlayers
      BY <2>2 DEF StartInv, Knows
    <2>5. ready = (match.ready \cap RealPlayers) \cup {r.player}
      BY <2>1, <2>4 DEF Ready
    <2>6. /\ confirmed \subseteq ready /\ r.player \in ready
          /\ \A u \in Slot : Publishes(req[u]) => req[u].player \in ready
      BY <2>4, <2>5 DEF Started, Typed, Knows, Publishes
    <2>7. RealPlayers \subseteq ready => match'.started
      BY <2>2 DEF AllReady
    <2>8. match.started => match'.started
      BY <2>2, <2>4 DEF MatchRecord
    <2>9. CASE Starts(r.seen, ready) /\ confirmed' = confirmed /\ Continue(s, n)
      <3>1. req'[s] = n /\ \A u \in Slot : u # s => req'[u] = req[u]
        BY <2>3, <2>9, Continues
      <3>2. ~match.started /\ match'.started
        BY <2>2, <2>4, <2>9 DEF Starts
      <3>3. published = 0 /\ \A u \in Slot : ~Publishes(req[u])
        BY <2>4, <3>2 DEF Started
      <3>4. \A u \in Slot : Publishes(req[u])' => u = s
        BY <3>1, <3>3 DEF Publishes
      <3> QED BY <2>2, <2>3, <2>4, <2>6, <2>9, <3>1, <3>2, <3>3, <3>4 DEF Started
    <2>10. CASE ~Starts(r.seen, ready) /\ confirmed' = confirmed \cup {r.player} /\ Return(s)
      <3>1. req'[s] = Idle /\ \A u \in Slot : u # s => req'[u] = req[u]
        BY <2>10, Returns
      <3>2. \A u \in Slot : Publishes(req[u])' => Publishes(req[u]) /\ req'[u] = req[u]
        BY <3>1, IdleRequest DEF Publishes
      <3> QED BY <2>2, <2>4, <2>6, <2>7, <2>8, <2>10, <3>2 DEF Started
    <2> QED BY <2>2, <2>9, <2>10
  <1>3. ASSUME NEW s \in Slot, Publish(s)
        PROVE  StartInv'
    <2>1. /\ published' = published + 1 /\ confirmed' = confirmed \cup {req[s].player} /\ Return(s)
          /\ match' = match /\ raced' = raced /\ Publishes(req[s])
      BY <1>3 DEF Publish, At, Publishes
    <2>2. req'[s] = Idle /\ \A u \in Slot : u # s => req'[u] = req[u]
      BY <2>1, Returns
    <2> SUFFICES ASSUME Started PROVE Started'
      BY <2>1 DEF StartInv
    <2>3. published = 0 /\ published' = 1
      BY <2>1 DEF Started
    <2>4. \A u \in Slot : ~Publishes(req[u])'
      BY <2>1, <2>2, IdleRequest DEF Started, Publishes
    <2>5. req[s].player \in RealPlayers
      BY <2>1 DEF Typed, Knows, Publishes
    <2> QED BY <2>1, <2>3, <2>4, <2>5 DEF Started
  <1>4. ASSUME NEW s \in Slot, FinishLock(s)
        PROVE  StartInv'
    <2>1. PICK n : n = [req[s] EXCEPT !.pc = "effects", !.todo = Effects]
      OBVIOUS
    <2>2. /\ n \in Request /\ Knows(n) /\ ~Publishes(n)
          /\ UNCHANGED <<published, confirmed, raced, match>>
          /\ Return(s) \/ Continue(s, n)
      BY <2>1, <1>4, Locks DEF Publishes
    <2>3. \E r : /\ req'[s] = r /\ \A u \in Slot : u # s => req'[u] = req[u]
                 /\ ~Publishes(r)
      BY <2>2, Continues, Returns, IdleRequest DEF Publishes
    <2> QED BY <2>2, <2>3, StartFrame
  <1>5. ASSUME NEW s \in Slot, FinishEffect(s) \/ FinishFails(s)
        PROVE  StartInv'
    <2>1. /\ req[s] \in Request /\ Knows(req[s]) /\ req[s].pc = "effects" /\ req[s].todo # <<>>
          /\ UNCHANGED <<match, confirmed, published, raced>>
          /\ Continue(s, Rest(req[s])) \/ Return(s)
      BY <1>5, EffectsGoOn
    <2>2. \E n \in Request : /\ req'[s] = n /\ \A u \in Slot : u # s => req'[u] = req[u]
                             /\ ~Publishes(n)
      BY <2>1, RestIs, Continues, Returns, IdleRequest DEF Publishes
    <2> QED BY <2>1, <2>2, StartFrame
  <1>6. ASSUME NEW s \in Slot, FinishSave(s)
        PROVE  StartInv'
    <2>1. /\ UNCHANGED <<published, confirmed>> /\ Return(s)
          /\ raced' = (raced \/ match # req[s].seen) /\ req[s].seen # Nil
          /\ match'.ready = req[s].seen.ready /\ match'.started = req[s].seen.started
      BY <1>6, FinishSaves DEF At, Knows
    <2> QED BY <2>1, Returns, StartFrame, IdleRequest DEF Publishes
  <1>7. ASSUME NEW s \in Slot, Crash(s)
        PROVE  StartInv'
    <2>1. UNCHANGED <<published, confirmed, raced, match>> /\ Return(s)
      BY <1>7 DEF Crash, history, events
    <2> QED BY <2>1, Returns, StartFrame, IdleRequest DEF Publishes
  <1>8. CASE ExpireMatch \/ ExpireLock \/ UNCHANGED vars
    <2>1. (match' = match \/ match' = Nil) /\ UNCHANGED <<published, confirmed, raced, req>>
      BY <1>8 DEF ExpireMatch, ExpireLock, vars, history, events
    <2> QED BY <2>1 DEF StartInv, Started, Publishes
  <1> QED
    BY <1>1, <1>2, <1>3, <1>4, <1>5, <1>6, <1>7, <1>8 DEF Next, Step

\* As long as no result or readiness was stored over a newer match, the match is
\* started once all its players' startMatch returned, and published once: where
\* somebody plays in it (startMatch).
THEOREM StartsWithTheLast ==
    ASSUME RealPlayers # {}
    PROVE  Spec => []UnracedStarts
  <1>1. Init => StartInv
    BY IdleRequest DEF Init, StartInv, Started, Publishes
  <1>2. Typed /\ StartInv /\ [Next]_vars => StartInv'
    BY StartStep
  <1>3. StartInv => UnracedStarts
    BY DEF StartInv, Started, UnracedStarts
  <1> QED BY <1>1, <1>2, <1>3, TypedAlways, PTL DEF Spec
=============================================================================
