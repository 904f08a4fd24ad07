--------------------------- MODULE JukeboxProofs ---------------------------
(***************************************************************************)
(* The jukebox for any number of players, requests and songs: what is       *)
(* stored keeps playing, in order, and no song is played twice.             *)
(***************************************************************************)
EXTENDS Jukebox, FiniteSetTheorems, TLAPS

Playing(b) == heap[b].current # Nil

\* A change of song is coming.
Ahead == timers # {} \/ \E s \in Slot : At(s, "event")

\* What a request knows once it has read the jukebox.
Locals ==
    \A s \in Slot :
        /\ At(s, "limit") => req[s].box \in Box /\ req[s].player \in Player
        /\ At(s, "event") => req[s].box \in Box /\ req[s].song \in Song

\* What is stored plays and has a change of song ahead of it; an object whose
\* first song a request has started, and which it will store, plays, too.
DrivenInv ==
    /\ stored # Nil => Playing(stored) /\ (revived \/ Ahead)
    /\ \A s \in Slot : At(s, "event") => Playing(req[s].box)

\* Every song in use was added, what is the current song has been played, no
\* object has a queue without a current song and no two objects share a song.
SongsKnown ==
    /\ \A b \in Box : \A song \in Songs(b) : song <= Len(owner)
    /\ \A song \in played : song <= Len(owner)
    /\ \A b \in Box : Playing(b) => heap[b].current \in played
    /\ \A b \in Box : ~Playing(b) => heap[b].queue = <<>>
    /\ \A b1, b2 \in Box : b1 # b2 => Songs(b1) \cap Songs(b2) = {}

OrderInv == SongsKnown /\ InOrder /\ PlayedOnce

\* The counting of countPlayerAddedSongs is a number.
LEMMA CountIsNat ==
    ASSUME NEW box \in JukeboxRecord, NEW p \in Player
    PROVE  countPlayerAddedSongs(box, p) \in Nat
  <1> DEFINE own == {i \in DOMAIN box.queue : owner[box.queue[i]] = p}
  <1>1. own \subseteq 1 .. Len(box.queue) /\ Len(box.queue) \in Nat
    BY DEF JukeboxRecord
  <1>2. IsFiniteSet(own)
    BY <1>1, FS_Interval, FS_Subset
  <1>3. Cardinality(own) \in Nat
    BY <1>2, FS_CardinalityType
  <1> QED BY <1>3 DEF countPlayerAddedSongs

\* The steps of addSong that the proofs need, without its choice of an object.
LEMMA AddSongStep ==
    ASSUME TypeOK, NEW s \in Slot, NEW p \in Player, addSong(s, p)
    PROVE  \E b \in Box, n \in Nat :
             /\ IF stored # Nil THEN b = stored /\ heap' = heap
                ELSE Unused(b) /\ heap' = [heap EXCEPT ![b] = Empty]
             /\ req' = [req EXCEPT ![s] = [pc |-> "limit", player |-> p, box |-> b,
                                           count |-> n, song |-> Nil]]
             /\ At(s, "idle")
             /\ UNCHANGED <<stored, timers, owner, played, revived>>
  <1>1. PICK b \in Box :
          /\ IF stored # Nil THEN b = stored ELSE Unused(b)
          /\ heap' = IF stored # Nil THEN heap ELSE [heap EXCEPT ![b] = Empty]
          /\ req' = [req EXCEPT ![s] =
                [pc |-> "limit", player |-> p, box |-> b,
                 count |-> countPlayerAddedSongs(heap'[b], p), song |-> Nil]]
    BY DEF addSong, Continue
  <1>2. heap'[b] \in JukeboxRecord
    BY <1>1 DEF TypeOK, Empty, JukeboxRecord
  <1>3. countPlayerAddedSongs(heap'[b], p) \in Nat
    BY <1>2, CountIsNat
  <1>4. UNCHANGED <<stored, timers, owner, played, revived>> /\ At(s, "idle")
    BY DEF addSong
  <1> DEFINE n == countPlayerAddedSongs(heap'[b], p)
  <1>5. req' = [req EXCEPT ![s] = [pc |-> "limit", player |-> p, box |-> b,
                                   count |-> n, song |-> Nil]]
    BY <1>1
  <1>6. IF stored # Nil THEN b = stored /\ heap' = heap
        ELSE Unused(b) /\ heap' = [heap EXCEPT ![b] = Empty]
    BY <1>1
  <1>7. n \in Nat
    BY <1>3
  <1> HIDE DEF n
  <1> QED BY <1>4, <1>5, <1>6, <1>7

\* Putting a record in the place of one object.
LEMMA HeapChange ==
    ASSUME TypeOK, NEW b \in Box, NEW r \in JukeboxRecord, heap' = [heap EXCEPT ![b] = r]
    PROVE  /\ heap' \in [Box -> JukeboxRecord] /\ heap'[b] = r
           /\ \A c \in Box : c # b => heap'[c] = heap[c]
  BY DEF TypeOK

\* The elements of a concatenation.
LEMMA Joined ==
    ASSUME NEW S, NEW A \in Seq(S), NEW B \in Seq(S)
    PROVE  /\ A \o B \in Seq(S) /\ Len(A \o B) = Len(A) + Len(B)
           /\ \A j \in 1 .. Len(A) + Len(B) :
                (A \o B)[j] = IF j <= Len(A) THEN A[j] ELSE B[j - Len(A)]
  OBVIOUS

\* The elements of a sequence with one more.
LEMMA Appended ==
    ASSUME NEW S, NEW q \in Seq(S), NEW x \in S
    PROVE  /\ Append(q, x) \in Seq(S) /\ DOMAIN Append(q, x) = 1 .. Len(q) + 1
           /\ \A i \in 1 .. Len(q) : Append(q, x)[i] = q[i]
           /\ Append(q, x)[Len(q) + 1] = x
  OBVIOUS

\* Removing an element shifts the later ones by one place.
LEMMA Removed ==
    ASSUME NEW S, NEW q \in Seq(S), NEW i \in DOMAIN q
    PROVE  /\ RemoveAt(q, i) \in Seq(S)
           /\ Len(RemoveAt(q, i)) = Len(q) - 1
           /\ \A j \in DOMAIN RemoveAt(q, i) :
                RemoveAt(q, i)[j] = IF j < i THEN q[j] ELSE q[j + 1]
  <1>1. /\ SubSeq(q, 1, i - 1) \in Seq(S) /\ Len(SubSeq(q, 1, i - 1)) = i - 1
        /\ \A j \in 1 .. i - 1 : SubSeq(q, 1, i - 1)[j] = q[j]
    OBVIOUS
  <1>2. /\ SubSeq(q, i + 1, Len(q)) \in Seq(S) /\ Len(SubSeq(q, i + 1, Len(q))) = Len(q) - i
        /\ \A j \in 1 .. Len(q) - i : SubSeq(q, i + 1, Len(q))[j] = q[i + j]
    OBVIOUS
  <1> DEFINE A == SubSeq(q, 1, i - 1)
             B == SubSeq(q, i + 1, Len(q))
  <1>3. RemoveAt(q, i) = A \o B /\ i \in 1 .. Len(q) /\ Len(q) \in Nat
    BY DEF RemoveAt
  <1>4. /\ A \o B \in Seq(S) /\ Len(A \o B) = Len(q) - 1
        /\ \A j \in 1 .. Len(q) - 1 : (A \o B)[j] = IF j < i THEN A[j] ELSE B[j - (i - 1)]
    <2>1. A \in Seq(S) /\ B \in Seq(S) /\ Len(A) = i - 1 /\ Len(B) = Len(q) - i
      BY <1>1, <1>2
    <2> HIDE DEF A, B
    <2>2. /\ A \o B \in Seq(S) /\ Len(A \o B) = Len(A) + Len(B)
          /\ \A j \in 1 .. Len(A) + Len(B) :
               (A \o B)[j] = IF j <= Len(A) THEN A[j] ELSE B[j - Len(A)]
      BY <2>1, Joined
    <2>3. Len(A) + Len(B) = Len(q) - 1 /\ \A j \in 1 .. Len(q) - 1 : (j <= Len(A)) <=> (j < i)
      <3>1. ASSUME NEW a \in Nat, NEW b \in Nat, NEW n \in Nat, NEW k \in 1 .. n,
                   a = k - 1, b = n - k
            PROVE  a + b = n - 1 /\ \A j \in 1 .. n - 1 : (j <= a) <=> (j < k)
        BY <3>1, SMT
      <3>2. Len(A) \in Nat /\ Len(B) \in Nat
        BY <2>1, <1>3
      <3> HIDE <1>1, <1>2
      <3> QED BY <3>1, <3>2, <2>1, <1>3, Zenon
    <2> QED BY <2>1, <2>2, <2>3, Zenon
  <1>5. ASSUME NEW j \in 1 .. Len(q) - 1
        PROVE  RemoveAt(q, i)[j] = IF j < i THEN q[j] ELSE q[j + 1]
    <2>1. CASE j < i
      BY <2>1, <1>1, <1>3, <1>4
    <2>2. CASE ~(j < i)
      <3>1. j - (i - 1) \in 1 .. Len(q) - i /\ i + (j - (i - 1)) = j + 1
        <4>1. i \in Nat /\ j \in Nat /\ Len(q) \in Nat /\ i <= j /\ j <= Len(q) - 1
          BY <2>2, <1>3
        <4> HIDE DEF A, B
        <4> QED BY <4>1
      <3>2. B[j - (i - 1)] = q[i + (j - (i - 1))]
        BY <3>1, <1>2
      <3> QED BY <2>2, <3>1, <3>2, <1>3, <1>4
    <2> QED BY <2>1, <2>2
  <1> HIDE DEF A, B
  <1>6. DOMAIN RemoveAt(q, i) = 1 .. Len(q) - 1
    BY <1>3, <1>4
  <1> QED BY <1>3, <1>4, <1>5, <1>6, Zenon
----------------------------------------------------------------------------
\* Every step keeps the types and what the requests know.
LEMMA TypeStep ==
    ASSUME TypeOK, Locals, [Next]_vars PROVE TypeOK' /\ Locals'
  <1>1. ASSUME NEW s \in Slot, NEW p \in Player, addSong(s, p) PROVE TypeOK' /\ Locals'
    <2>1. PICK b \in Box, n \in Nat :
            /\ IF stored # Nil THEN b = stored /\ heap' = heap
               ELSE Unused(b) /\ heap' = [heap EXCEPT ![b] = Empty]
            /\ req' = [req EXCEPT ![s] = [pc |-> "limit", player |-> p, box |-> b,
                                          count |-> n, song |-> Nil]]
            /\ UNCHANGED <<stored, timers, owner, played, revived>>
      BY <1>1, AddSongStep
    <2>2. heap' \in [Box -> JukeboxRecord]
      <3>1. Empty \in JukeboxRecord /\ heap \in [Box -> JukeboxRecord]
        BY DEF Empty, JukeboxRecord, TypeOK
      <3> QED BY <2>1, <3>1
    <2> QED BY <2>1, <2>2 DEF TypeOK, Locals, At, Request
  <1>2. ASSUME NEW s \in Slot, Refuse(s) PROVE TypeOK' /\ Locals'
    BY <1>2 DEF TypeOK, Locals, At, Refuse, Continue, Idle, Request
  <1>3. ASSUME NEW s \in Slot, Accepted(s)
        PROVE  /\ owner' \in Seq(Player) /\ Len(owner') = Len(owner) + 1 /\ Len(owner') \in Song
               /\ req[s].box \in Box /\ req[s] \in Request
    <2>1. req[s].player \in Player /\ req[s].box \in Box /\ req[s] \in Request
      BY <1>3 DEF Accepted, Locals, TypeOK
    <2> QED BY <1>3, <2>1 DEF Accepted, TypeOK, Song
  <1>4. ASSUME NEW s \in Slot, Play(s) PROVE TypeOK' /\ Locals'
    <2>1. Accepted(s) /\ req[s].box \in Box /\ Len(owner') \in Song /\ owner' \in Seq(Player)
          /\ req[s] \in Request
      BY <1>4, <1>3 DEF Play
    <2>2. heap' \in [Box -> JukeboxRecord]
      BY <1>4, <2>1 DEF TypeOK, Play, JukeboxRecord
    <2>3. req' = [req EXCEPT ![s] = [req[s] EXCEPT !.pc = "event", !.song = Len(owner')]]
      BY <1>4 DEF Play, Continue
    <2>4. [req[s] EXCEPT !.pc = "event", !.song = Len(owner')] \in Request
      BY <2>1 DEF Request
    <2>5. req' \in [Slot -> Request]
      BY <2>3, <2>4 DEF TypeOK
    <2>6. Locals'
      BY <2>1, <2>3 DEF TypeOK, Locals, At, Request
    <2>7. played' \subseteq Song /\ UNCHANGED <<stored, timers, revived>>
      BY <1>4, <2>1 DEF Play, TypeOK
    <2> QED BY <2>1, <2>2, <2>5, <2>6, <2>7 DEF TypeOK
  <1>5. ASSUME NEW s \in Slot, Enqueue(s) PROVE TypeOK' /\ Locals'
    <2>1. Accepted(s) /\ req[s].box \in Box /\ Len(owner') \in Song /\ owner' \in Seq(Player)
      BY <1>5, <1>3 DEF Enqueue
    <2>2. heap' \in [Box -> JukeboxRecord]
      <3> DEFINE b == req[s].box
                 r == [heap[b] EXCEPT !.queue = Append(heap[b].queue, Len(owner'))]
      <3>1. heap' = [heap EXCEPT ![b] = r]
        BY <1>5 DEF Enqueue
      <3>2. heap[b] \in JukeboxRecord /\ heap[b].queue \in Seq(Song)
        BY <2>1 DEF TypeOK, JukeboxRecord
      <3>3. Append(heap[b].queue, Len(owner')) \in Seq(Song)
        BY <2>1, <3>2
      <3>4. r \in JukeboxRecord
        BY <3>2, <3>3 DEF JukeboxRecord
      <3> QED BY <2>1, <3>1, <3>4, HeapChange
    <2> QED BY <1>5, <2>1, <2>2 DEF TypeOK, Locals, At, Enqueue, publishPlaylistUpdate, Continue,
            Idle, Request
  <1>6. ASSUME NEW s \in Slot, StartTimer(s) PROVE TypeOK' /\ Locals'
    BY <1>6 DEF TypeOK, Locals, At, StartTimer, publishPlaylistUpdate, Continue, Idle, Request
  <1>7. ASSUME NEW song \in timers, startNextSong(song) PROVE TypeOK' /\ Locals'
    <2>1. CASE stored = Nil \/ (stored # Nil /\ heap[stored].queue = <<>>)
      BY <1>7, <2>1 DEF TypeOK, Locals, At, startNextSong
    <2>2. CASE ~(stored = Nil \/ (stored # Nil /\ heap[stored].queue = <<>>))
      <3>1. stored \in Box /\ heap[stored].queue \in Seq(Song) /\ heap[stored].queue # <<>>
        BY <2>2 DEF TypeOK, JukeboxRecord
      <3>2. Head(heap[stored].queue) \in Song /\ Tail(heap[stored].queue) \in Seq(Song)
        BY <3>1
      <3>3. heap' \in [Box -> JukeboxRecord] /\ timers' \subseteq Song /\ played' \subseteq Song
        <4> DEFINE next == Head(heap[stored].queue)
                   r == [queue |-> Tail(heap[stored].queue), current |-> next]
        <4>1. r \in JukeboxRecord
          BY <3>2 DEF JukeboxRecord
        <4>2. /\ heap' = [heap EXCEPT ![stored] = r]
              /\ timers' = (timers \ {song}) \cup {next} /\ played' = played \cup {next}
          BY <1>7, <2>2 DEF startNextSong
        <4>3. heap' \in [Box -> JukeboxRecord]
          BY <3>1, <4>1, <4>2, HeapChange
        <4> QED BY <3>2, <4>2, <4>3 DEF TypeOK
      <3> QED BY <1>7, <2>2, <3>3 DEF TypeOK, Locals, At, startNextSong
    <2> QED BY <2>1, <2>2
  <1>8. ASSUME NEW p \in Player, NEW song \in 1 .. Len(owner), removeSongFromQueue(p, song)
        PROVE  TypeOK' /\ Locals'
    <2>1. PICK i \in DOMAIN heap[stored].queue :
            heap' = [heap EXCEPT ![stored].queue = RemoveAt(@, i)]
      BY <1>8 DEF removeSongFromQueue
    <2>2. stored \in Box /\ heap[stored].queue \in Seq(Song)
      BY <1>8 DEF removeSongFromQueue, TypeOK, JukeboxRecord
    <2>3. RemoveAt(heap[stored].queue, i) \in Seq(Song)
      BY <2>1, <2>2, Removed
    <2>4. heap' \in [Box -> JukeboxRecord]
      BY <2>1, <2>2, <2>3 DEF TypeOK, JukeboxRecord
    <2> QED BY <1>8, <2>4 DEF TypeOK, Locals, At, removeSongFromQueue
  <1>9. CASE UNCHANGED vars
    BY <1>9 DEF TypeOK, Locals, At, vars
  <1> QED BY <1>1, <1>2, <1>4, <1>5, <1>6, <1>7, <1>8, <1>9 DEF Next, Step

\* The types hold in every reachable state, whatever the numbers of players,
\* requests, objects and songs.
THEOREM JukeboxTypes == Spec => [](TypeOK /\ Locals)
  <1>1. Init => TypeOK /\ Locals
    <2>1. Idle \in Request /\ Empty \in JukeboxRecord
      BY DEF Idle, Empty, JukeboxRecord, Request
    <2>2. Init => Locals
      BY DEF Init, Locals, At, Idle
    <2>3. Init => TypeOK
      <3> SUFFICES ASSUME Init PROVE TypeOK
        OBVIOUS
      <3>0. owner \in Seq(Player)
        BY DEF Init
      <3>1. stored \in Box \cup {Nil} /\ revived \in BOOLEAN
        BY DEF Init
      <3>2. heap \in [Box -> JukeboxRecord] /\ req \in [Slot -> Request]
        BY <2>1 DEF Init
      <3>3. timers \subseteq Song /\ played \subseteq Song
        BY DEF Init
      <3> QED BY <3>0, <3>1, <3>2, <3>3 DEF TypeOK
    <2> QED BY <2>2, <2>3
  <1>2. TypeOK /\ Locals /\ [Next]_vars => (TypeOK /\ Locals)'
    BY TypeStep
  <1> QED BY <1>1, <1>2, PTL DEF Spec

THEOREM JukeboxTypeOK == Spec => []TypeOK
  BY JukeboxTypes, PTL
----------------------------------------------------------------------------
\* Songs may end and objects be replaced between the steps of a request.
LEMMA DrivenStep ==
    ASSUME TypeOK, Locals, DrivenInv, [Next]_vars PROVE DrivenInv'
  <1>1. ASSUME NEW s \in Slot, NEW p \in Player, addSong(s, p) PROVE DrivenInv'
    <2>1. PICK b \in Box, n \in Nat :
            /\ IF stored # Nil THEN b = stored /\ heap' = heap
               ELSE Unused(b) /\ heap' = [heap EXCEPT ![b] = Empty]
            /\ req' = [req EXCEPT ![s] = [pc |-> "limit", player |-> p, box |-> b,
                                          count |-> n, song |-> Nil]]
            /\ At(s, "idle") /\ UNCHANGED <<stored, timers, owner, played, revived>>
      BY <1>1, AddSongStep
    <2>2. \A t \in Slot : t # s => req'[t] = req[t]
      BY <2>1 DEF TypeOK
    <2>3. req'[s].pc = "limit" /\ req'[s].box = b
      BY <2>1 DEF TypeOK
    <2>4. Ahead => Ahead'
      BY <2>1, <2>2 DEF Ahead, At
    <2>5. CASE stored # Nil
      BY <2>1, <2>2, <2>3, <2>4, <2>5 DEF DrivenInv, Playing, At
    <2>6. CASE stored = Nil
      <3>1. heap' = [heap EXCEPT ![b] = Empty] /\ \A t \in Slot : req[t].box # b
        BY <2>1, <2>6 DEF Unused
      <3>2. heap'[b].current = Nil /\ \A c \in Box : c # b => heap'[c] = heap[c]
        BY <3>1 DEF Empty, TypeOK
      <3> QED BY <2>1, <2>2, <2>3, <2>4, <2>6, <3>1, <3>2 DEF DrivenInv, Playing, At, Locals
    <2> QED BY <2>5, <2>6
  <1>2. ASSUME NEW s \in Slot, Refuse(s) PROVE DrivenInv'
    BY <1>2 DEF TypeOK, Refuse, Continue, Idle, DrivenInv, Ahead, Playing, At
  <1>3. ASSUME NEW s \in Slot, Play(s) PROVE DrivenInv'
    <2>1. req[s].box \in Box /\ Len(owner') # Nil /\ req[s] \in Request
      <3>1. req[s].player \in Player /\ owner' = Append(owner, req[s].player)
            /\ req[s].box \in Box /\ req[s] \in Request
        BY <1>3 DEF Play, Accepted, Locals, TypeOK
      <3>2. Len(owner') \in Nat
        BY <3>1 DEF TypeOK
      <3> QED BY <3>1, <3>2, NilAssumption
    <2>2. heap'[req[s].box].current # Nil
          /\ \A c \in Box : c # req[s].box => heap'[c] = heap[c]
      BY <1>3, <2>1 DEF Play, TypeOK, JukeboxRecord
    <2>3. /\ req'[s].pc = "event" /\ req'[s].box = req[s].box
          /\ \A t \in Slot : t # s => req'[t] = req[t]
      BY <1>3, <2>1 DEF Play, Continue, TypeOK, Request
    <2>4. Ahead'
      BY <2>3 DEF Ahead, At
    <2>5. UNCHANGED <<stored, revived>>
      BY <1>3 DEF Play
    <2> QED BY <2>2, <2>3, <2>4, <2>5 DEF DrivenInv, Playing, At, Locals, TypeOK
  <1>4. ASSUME NEW s \in Slot, Enqueue(s) PROVE DrivenInv'
    <2>1. At(s, "limit") /\ req[s].box \in Box /\ Playing(req[s].box)
      BY <1>4 DEF Enqueue, Accepted, Playing, Locals
    <2>2. revived' \/ Ahead
      BY <1>4 DEF DrivenInv, Enqueue, TypeOK
    <2>3. /\ stored' = req[s].box /\ timers' = timers /\ req'[s] = Idle
          /\ \A t \in Slot : t # s => req'[t] = req[t]
      BY <1>4 DEF Enqueue, Continue, publishPlaylistUpdate, TypeOK
    <2>4. \A c \in Box : heap'[c].current = heap[c].current
      BY <1>4 DEF Enqueue, TypeOK, JukeboxRecord
    <2>5. revived' \/ Ahead'
      BY <2>1, <2>2, <2>3 DEF Ahead, At
    <2> QED BY <2>1, <2>3, <2>4, <2>5 DEF DrivenInv, Playing, At, Locals, Idle
  <1>5. ASSUME NEW s \in Slot, StartTimer(s) PROVE DrivenInv'
    <2>1. /\ stored' = req[s].box /\ timers' # {} /\ heap' = heap /\ req'[s] = Idle
          /\ \A t \in Slot : t # s => req'[t] = req[t]
      BY <1>5 DEF StartTimer, Continue, publishPlaylistUpdate, TypeOK
    <2>2. Playing(req[s].box)
      BY <1>5 DEF StartTimer, DrivenInv
    <2> QED BY <2>1, <2>2 DEF DrivenInv, Ahead, Playing, At, Idle
  <1>6. ASSUME NEW song \in timers, startNextSong(song) PROVE DrivenInv'
    <2>1. req' = req /\ \A b \in Box : Playing(b) => Playing(b)'
      <3>1. CASE heap' = heap
        BY <1>6, <3>1 DEF startNextSong, Playing
      <3>2. CASE stored # Nil /\ heap[stored].queue # <<>>
        <4> DEFINE next == Head(heap[stored].queue)
        <4>1. stored \in Box /\ heap[stored].queue \in Seq(Song)
          BY <3>2 DEF TypeOK, JukeboxRecord
        <4>2. next \in Song
          BY <3>2, <4>1
        <4>3. heap' = [heap EXCEPT ![stored] =
                           [queue |-> Tail(heap[stored].queue), current |-> next]]
          BY <1>6, <3>2 DEF startNextSong
        <4> HIDE DEF next
        <4>4. next # Nil
          BY <4>2, NilAssumption DEF Song
        <4> QED BY <1>6, <4>1, <4>3, <4>4 DEF startNextSong, Playing, TypeOK
      <3> QED BY <1>6, <3>1, <3>2 DEF startNextSong
    <2>2. stored' # Nil => Playing(stored)' /\ timers' # {}
      <3>1. SUFFICES ASSUME stored' # Nil PROVE Playing(stored)' /\ timers' # {}
        OBVIOUS
      <3> DEFINE next == Head(heap[stored].queue)
      <3>2. /\ stored' = stored /\ stored # Nil /\ heap[stored].queue # <<>>
            /\ heap' = [heap EXCEPT ![stored] =
                           [queue |-> Tail(heap[stored].queue), current |-> next]]
            /\ timers' = (timers \ {song}) \cup {next}
        BY <1>6, <3>1 DEF startNextSong
      <3>3. stored \in Box /\ heap[stored].queue \in Seq(Song)
        BY <3>2 DEF TypeOK, JukeboxRecord
      <3>4. next \in Song
        BY <3>2, <3>3
      <3>5. heap'[stored'].current = next
        BY <3>2, <3>3 DEF TypeOK
      <3> QED BY <3>2, <3>4, <3>5, NilAssumption DEF Playing, Song
    <2> QED BY <2>1, <2>2 DEF DrivenInv, Ahead, At, Locals
  <1>7. ASSUME NEW p \in Player, NEW song \in 1 .. Len(owner), removeSongFromQueue(p, song)
        PROVE  DrivenInv'
    <2>1. UNCHANGED <<stored, timers, revived, req>>
          /\ \A c \in Box : heap'[c].current = heap[c].current
      BY <1>7 DEF removeSongFromQueue, TypeOK, JukeboxRecord
    <2> QED BY <2>1 DEF DrivenInv, Ahead, Playing, At, Locals, TypeOK
  <1>8. CASE UNCHANGED vars
    BY <1>8 DEF vars, DrivenInv, Ahead, Playing, At
  <1> QED BY <1>1, <1>2, <1>3, <1>4, <1>5, <1>6, <1>7, <1>8 DEF Next, Step

\* Whatever songs end and whatever objects are replaced between the steps of
\* requests, the stored jukebox never gets stuck, unless an object that the map
\* had lost was put back (addSongToClanJukebox, startNextSong).
THEOREM JukeboxDriven == Spec => []Driven
  <1>1. Init => DrivenInv
    BY DEF Init, DrivenInv, At, Idle
  <1>2. TypeOK /\ Locals /\ DrivenInv /\ [Next]_vars => DrivenInv'
    BY DrivenStep
  <1>3. DrivenInv => Driven
    BY DEF DrivenInv, Driven, Playing, Ahead
  <1> QED BY <1>1, <1>2, <1>3, JukeboxTypes, PTL DEF Spec
----------------------------------------------------------------------------
\* Songs is about the songs of the queue and the current song.
LEMMA SongsOf ==
    ASSUME TypeOK, NEW b \in Box
    PROVE  /\ \A i \in DOMAIN heap[b].queue :
                heap[b].queue[i] \in Song /\ heap[b].queue[i] \in Songs(b)
           /\ Playing(b) => heap[b].current \in Song /\ heap[b].current \in Songs(b)
           /\ \A song \in Songs(b) :
                \/ Playing(b) /\ song = heap[b].current
                \/ \E i \in DOMAIN heap[b].queue : song = heap[b].queue[i]
  <1>1. heap[b].queue \in Seq(Song) /\ heap[b].current \in Song \cup {Nil}
    BY DEF TypeOK, JukeboxRecord
  <1>2. \A i \in DOMAIN heap[b].queue : heap[b].queue[i] \in Song
    BY <1>1
  <1>3. Nil \notin Song
    BY NilAssumption DEF Song
  <1> QED BY <1>1, <1>2, <1>3 DEF Songs, ToSet, Playing

\* Replacing one object keeps the order if the object's songs are its old ones,
\* still in order and none of them played, or one that was just added.
LEMMA OrderStep ==
    ASSUME TypeOK, TypeOK', OrderInv,
           NEW b \in Box, NEW r \in JukeboxRecord, heap' = [heap EXCEPT ![b] = r],
           Len(owner) <= Len(owner'),
           \A i \in DOMAIN r.queue :
               \/ r.queue[i] \in Songs(b) /\ r.queue[i] \notin played
               \/ Len(owner) < r.queue[i] /\ r.queue[i] <= Len(owner'),
           \A i, j \in DOMAIN r.queue : i < j => r.queue[i] < r.queue[j],
           r.current # Nil =>
               /\ \/ r.current \in Songs(b)
                  \/ Len(owner) < r.current /\ r.current <= Len(owner')
               /\ r.current \in played'
               /\ \A i \in DOMAIN r.queue : r.current < r.queue[i],
           r.current = Nil => r.queue = <<>>,
           played \subseteq played', played' \subseteq played \cup {r.current}
    PROVE  OrderInv'
  <1>1. heap'[b] = r /\ \A c \in Box : c # b => heap'[c] = heap[c]
    BY HeapChange
  <1>2. \A c \in Box : c # b => Songs(c)' = Songs(c)
    BY <1>1 DEF Songs
  <1>3. \A song \in Songs(b)' : song \in Song /\ (song \in Songs(b)
                \/ (Len(owner) < song /\ song <= Len(owner')))
    BY <1>1, SongsOf, NilAssumption DEF Songs, ToSet, Song, JukeboxRecord
  <1>4. \A c \in Box : \A song \in Songs(c) : song \in Song /\ song <= Len(owner)
    BY SongsOf DEF OrderInv, SongsKnown
  <1>5. Len(owner) \in Nat /\ Len(owner') \in Nat
    BY DEF TypeOK
  <1>6. \A c \in Box : \A song \in Songs(c)' : song <= Len(owner')
    BY <1>2, <1>3, <1>4, <1>5 DEF Song
  <1>7. \A song \in played' : song <= Len(owner')
    <2>1. SUFFICES ASSUME NEW song \in played' PROVE song <= Len(owner')
      OBVIOUS
    <2>2. song \in Song
      BY <2>1 DEF TypeOK
    <2>3. CASE song \in played
      BY <2>2, <2>3, <1>5 DEF OrderInv, SongsKnown, Song
    <2>4. CASE song = r.current
      BY <2>2, <2>4, <1>4, <1>5, NilAssumption DEF Song
    <2> QED BY <2>1, <2>3, <2>4
  <1>8. \A c \in Box : Playing(c)' => heap'[c].current \in played'
    BY <1>1 DEF OrderInv, SongsKnown, Playing
  <1>9. \A c \in Box : ~Playing(c)' => heap'[c].queue = <<>>
    BY <1>1 DEF OrderInv, SongsKnown, Playing
  <1>10. \A b1, b2 \in Box : b1 # b2 => Songs(b1)' \cap Songs(b2)' = {}
    <2>1. ASSUME NEW c \in Box, c # b PROVE Songs(b)' \cap Songs(c)' = {}
      <3>1. SUFFICES ASSUME NEW song \in Songs(b)', song \in Songs(c) PROVE FALSE
        BY <2>1, <1>2
      <3>2. song \in Song /\ song <= Len(owner)
        BY <3>1, <2>1, <1>4
      <3>3. song \in Songs(b)
        BY <3>1, <3>2, <1>3, <1>5 DEF Song
      <3> QED BY <3>1, <3>3, <2>1 DEF OrderInv, SongsKnown
    <2>2. ASSUME NEW c \in Box, NEW d \in Box, c # b, d # b, c # d
          PROVE  Songs(c)' \cap Songs(d)' = {}
      BY <2>2, <1>2 DEF OrderInv, SongsKnown
    <2> QED BY <2>1, <2>2
  <1>11. InOrder'
    BY <1>1 DEF OrderInv, InOrder
  <1>12. PlayedOnce'
    <2>1. SUFFICES ASSUME NEW c \in Box, NEW i \in DOMAIN heap'[c].queue,
                          heap'[c].queue[i] \in played'
                   PROVE  FALSE
      BY DEF PlayedOnce, ToSet
    <2>2. CASE c = b
      <3>1. r.queue[i] \in played' /\ i \in DOMAIN r.queue /\ r.queue[i] \in Song
        BY <2>1, <2>2, <1>1 DEF JukeboxRecord
      <3>2. r.queue[i] # r.current
        <4>1. CASE r.current = Nil
          BY <4>1, <3>1
        <4>2. CASE r.current # Nil
          BY <4>2, <3>1 DEF JukeboxRecord, Song
        <4> QED BY <4>1, <4>2
      <3>3. r.queue[i] \in played
        BY <3>1, <3>2
      <3>4. r.queue[i] <= Len(owner)
        BY <3>3 DEF OrderInv, SongsKnown
      <3> QED BY <3>1, <3>3, <3>4, <1>5 DEF Song
    <2>3. CASE c # b
      <3>1. heap[c].queue[i] \in Songs(c) /\ i \in DOMAIN heap[c].queue
            /\ heap[c].queue[i] \in played' /\ heap[c].queue[i] \in Song
        BY <2>1, <2>3, <1>1, SongsOf
      <3>2. heap[c].queue[i] \notin played
        BY <3>1 DEF OrderInv, PlayedOnce, ToSet
      <3>3. heap[c].queue[i] = r.current
        BY <3>1, <3>2
      <3>4. r.current # Nil /\ r.current <= Len(owner)
        BY <3>1, <3>3, <1>4, NilAssumption DEF Song
      <3>5. r.current \in Songs(b)
        BY <3>1, <3>3, <3>4, <1>5 DEF Song
      <3> QED BY <3>1, <3>3, <3>5, <2>3 DEF OrderInv, SongsKnown
    <2> QED BY <2>2, <2>3
  <1> QED BY <1>6, <1>7, <1>8, <1>9, <1>10, <1>11, <1>12 DEF OrderInv, SongsKnown

\* The same for an object without a queue.
LEMMA OrderEmpty ==
    ASSUME TypeOK, TypeOK', OrderInv,
           NEW b \in Box, NEW r \in JukeboxRecord, heap' = [heap EXCEPT ![b] = r],
           Len(owner) <= Len(owner'), r.queue = <<>>,
           r.current # Nil =>
               /\ Len(owner) < r.current /\ r.current <= Len(owner')
               /\ r.current \in played',
           played \subseteq played', played' \subseteq played \cup {r.current}
    PROVE  OrderInv'
  <1>1. DOMAIN r.queue = {}
    OBVIOUS
  <1>2. \A i \in DOMAIN r.queue :
          \/ r.queue[i] \in Songs(b) /\ r.queue[i] \notin played
          \/ Len(owner) < r.queue[i] /\ r.queue[i] <= Len(owner')
    BY <1>1
  <1>3. \A i, j \in DOMAIN r.queue : i < j => r.queue[i] < r.queue[j]
    BY <1>1
  <1>4. \A i \in DOMAIN r.queue : r.current < r.queue[i]
    BY <1>1
  <1> QED BY <1>2, <1>3, <1>4, OrderStep

\* Every step changes at most one object, in a way OrderStep allows.
LEMMA OrderNext ==
    ASSUME TypeOK, Locals, OrderInv, [Next]_vars PROVE OrderInv'
  <1>1. TypeOK'
    BY TypeStep
  <1>2. ASSUME UNCHANGED <<heap, owner, played>> PROVE OrderInv'
    BY <1>2 DEF OrderInv, SongsKnown, InOrder, PlayedOnce, Songs, Playing
  <1>3. Len(owner) \in Nat
    BY DEF TypeOK
  <1>4. ASSUME NEW s \in Slot, NEW p \in Player, addSong(s, p) PROVE OrderInv'
    <2>1. PICK b \in Box, n \in Nat :
            /\ IF stored # Nil THEN b = stored /\ heap' = heap
               ELSE Unused(b) /\ heap' = [heap EXCEPT ![b] = Empty]
            /\ UNCHANGED <<stored, timers, owner, played, revived>>
      BY <1>4, AddSongStep
    <2>2. CASE heap' = heap
      BY <2>1, <2>2, <1>2
    <2>3. CASE heap' = [heap EXCEPT ![b] = Empty]
      <3> DEFINE r == Empty
      <3>1. r \in JukeboxRecord /\ r.queue = <<>> /\ r.current = Nil
        BY DEF Empty, JukeboxRecord
      <3>2. heap' = [heap EXCEPT ![b] = r]
        BY <2>3
      <3> HIDE DEF r
      <3>3. Len(owner) <= Len(owner') /\ played' = played
        BY <2>1, <1>3
      <3> QED BY <1>1, <3>1, <3>2, <3>3, OrderEmpty
    <2> QED BY <2>1, <2>2, <2>3
  <1>5. ASSUME NEW s \in Slot, Accepted(s)
        PROVE  Len(owner') = Len(owner) + 1 /\ req[s].box \in Box /\ Len(owner') \in Song
    <2>1. req[s].player \in Player /\ req[s].box \in Box
      BY <1>5 DEF Accepted, Locals
    <2> QED BY <1>5, <2>1, <1>3 DEF Accepted, TypeOK, Song
  <1>6. ASSUME NEW s \in Slot, Play(s) PROVE OrderInv'
    <2> DEFINE b == req[s].box
               r == [heap[b] EXCEPT !.current = Len(owner')]
    <2>1. b \in Box /\ Len(owner') = Len(owner) + 1 /\ Len(owner') \in Song
          /\ heap[b].current = Nil /\ heap' = [heap EXCEPT ![b] = r]
          /\ played' = played \cup {Len(owner')}
      BY <1>5, <1>6 DEF Play
    <2>2. heap[b] \in JukeboxRecord
      BY <2>1 DEF TypeOK
    <2>3. heap[b].queue = <<>>
      BY <2>1 DEF OrderInv, SongsKnown, Playing
    <2>4. r \in JukeboxRecord /\ r.queue = <<>> /\ r.current = Len(owner')
      BY <2>1, <2>2, <2>3 DEF JukeboxRecord
    <2> HIDE DEF b, r
    <2>5. Len(owner) <= Len(owner') /\ Len(owner) < r.current /\ r.current <= Len(owner')
          /\ r.current # Nil
      BY <2>1, <2>4, <1>3, NilAssumption DEF Song
    <2>6. r.current \in played' /\ played \subseteq played'
          /\ played' \subseteq played \cup {r.current}
      BY <2>1, <2>4
    <2> QED BY <1>1, <2>1, <2>4, <2>5, <2>6, OrderEmpty
  <1>7. ASSUME NEW s \in Slot, Enqueue(s) PROVE OrderInv'
    <2> DEFINE b == req[s].box
               n == Len(owner')
               r == [heap[b] EXCEPT !.queue = Append(heap[b].queue, n)]
    <2>1. b \in Box /\ n = Len(owner) + 1 /\ n \in Song
          /\ heap[b].current # Nil /\ heap' = [heap EXCEPT ![b] = r] /\ played' = played
      BY <1>5, <1>7 DEF Enqueue
    <2>2. heap[b] \in JukeboxRecord /\ heap[b].queue \in Seq(Song)
      BY <2>1 DEF TypeOK, JukeboxRecord
    <2>3. /\ Append(heap[b].queue, n) \in Seq(Song)
          /\ DOMAIN Append(heap[b].queue, n) = 1 .. Len(heap[b].queue) + 1
          /\ \A i \in 1 .. Len(heap[b].queue) : Append(heap[b].queue, n)[i] = heap[b].queue[i]
          /\ Append(heap[b].queue, n)[Len(heap[b].queue) + 1] = n
      <3>1. n \in Song /\ heap[b].queue \in Seq(Song)
        BY <2>1, <2>2
      <3> HIDE DEF n, b
      <3> QED BY <3>1, Appended
    <2>4. /\ r \in JukeboxRecord /\ r.current = heap[b].current
          /\ r.queue = Append(heap[b].queue, n)
      BY <2>2, <2>3 DEF JukeboxRecord
    <2>5. /\ Playing(b) /\ heap[b].current \in played /\ heap[b].current \in Songs(b)
          /\ heap[b].current \in Song /\ heap[b].current <= Len(owner)
      BY <2>1, SongsOf DEF OrderInv, SongsKnown, Playing
    <2>6. \A i \in 1 .. Len(heap[b].queue) :
            /\ heap[b].queue[i] \in Songs(b) /\ heap[b].queue[i] \notin played
            /\ heap[b].queue[i] <= Len(owner) /\ heap[b].queue[i] \in Song
            /\ heap[b].current < heap[b].queue[i]
            /\ \A j \in 1 .. Len(heap[b].queue) : i < j => heap[b].queue[i] < heap[b].queue[j]
      BY <2>1, <2>2, SongsOf DEF OrderInv, SongsKnown, PlayedOnce, InOrder, ToSet
    <2>7. Len(heap[b].queue) \in Nat
      BY <2>2
    <2> DEFINE q == heap[b].queue
    <2> HIDE DEF b, r, q, n
    <2>8. \A i \in DOMAIN r.queue :
            \/ i \in 1 .. Len(q) /\ r.queue[i] = q[i]
            \/ i = Len(q) + 1 /\ r.queue[i] = n
      BY <2>3, <2>4, <2>7 DEF q
    <2>9. \A i \in DOMAIN r.queue :
            \/ r.queue[i] \in Songs(b) /\ r.queue[i] \notin played
            \/ Len(owner) < r.queue[i] /\ r.queue[i] <= n
      BY <2>8, <2>6, <2>1, <1>3 DEF q, Song
    <2>10. \A i, j \in DOMAIN r.queue : i < j => r.queue[i] < r.queue[j]
      <3>1. SUFFICES ASSUME NEW i \in DOMAIN r.queue, NEW j \in DOMAIN r.queue, i < j
                     PROVE  r.queue[i] < r.queue[j]
        OBVIOUS
      <3>2. i \in 1 .. Len(q) /\ r.queue[i] = q[i]
        BY <3>1, <2>8, <2>7 DEF q
      <3>3. CASE j \in 1 .. Len(q) /\ r.queue[j] = q[j]
        BY <3>1, <3>2, <3>3, <2>6 DEF q
      <3>4. CASE j = Len(q) + 1 /\ r.queue[j] = n
        BY <3>2, <3>4, <2>6, <2>1, <1>3 DEF q, Song
      <3> QED BY <2>8, <3>3, <3>4
    <2>11. \A i \in DOMAIN r.queue : r.current < r.queue[i]
      BY <2>8, <2>6, <2>5, <2>4, <2>1, <1>3 DEF q, Song
    <2>12. Len(owner) <= Len(owner') /\ r.current # Nil /\ r.current \in played'
           /\ r.current \in Songs(b)
      BY <2>1, <2>4, <2>5, <1>3 DEF n
    <2>13. \A i \in DOMAIN r.queue :
            \/ r.queue[i] \in Songs(b) /\ r.queue[i] \notin played
            \/ Len(owner) < r.queue[i] /\ r.queue[i] <= Len(owner')
      BY <2>9 DEF n
    <2> QED BY <1>1, <2>1, <2>4, <2>10, <2>11, <2>12, <2>13, OrderStep
  <1>8. ASSUME NEW song \in timers, startNextSong(song) PROVE OrderInv'
    <2>1. CASE UNCHANGED <<heap, played>>
      BY <1>8, <2>1, <1>2 DEF startNextSong
    <2>2. CASE ~UNCHANGED <<heap, played>>
      <3> DEFINE q == heap[stored].queue
                 next == Head(q)
                 r == [queue |-> Tail(q), current |-> next]
      <3>1. stored # Nil /\ q # <<>> /\ heap' = [heap EXCEPT ![stored] = r]
            /\ played' = played \cup {next} /\ owner' = owner
        BY <1>8, <2>2 DEF startNextSong
      <3>2. stored \in Box /\ q \in Seq(Song)
        BY <3>1 DEF TypeOK, JukeboxRecord
      <3>3. \A i \in DOMAIN q :
              /\ q[i] \in Songs(stored) /\ q[i] \notin played /\ q[i] \in Song
              /\ \A j \in DOMAIN q : i < j => q[i] < q[j]
        BY <3>2, SongsOf DEF OrderInv, PlayedOnce, InOrder, ToSet
      <3>4. r \in JukeboxRecord /\ r.queue = Tail(q) /\ r.current = next
        <4>1. Tail(q) \in Seq(Song) /\ next \in Song
          BY <3>1, <3>2
        <4> QED BY <4>1 DEF JukeboxRecord
      <3> HIDE DEF r, q
      <3>5. /\ next = q[1] /\ 1 \in DOMAIN q /\ DOMAIN Tail(q) = 1 .. Len(q) - 1
            /\ DOMAIN q = 1 .. Len(q) /\ Len(q) \in Nat
            /\ \A i \in 1 .. Len(q) - 1 : Tail(q)[i] = q[i + 1]
        BY <3>1, <3>2
      <3>6. \A i \in DOMAIN r.queue : r.queue[i] \in Songs(stored) /\ r.queue[i] \notin played
        BY <3>3, <3>4, <3>5
      <3>7. \A i, j \in DOMAIN r.queue : i < j => r.queue[i] < r.queue[j]
        <4>0. DOMAIN r.queue = 1 .. Len(q) - 1 /\ \A i \in 1 .. Len(q) - 1 : r.queue[i] = q[i + 1]
          BY <3>4, <3>5, Zenon
        <4>1. SUFFICES ASSUME NEW i \in 1 .. Len(q) - 1, NEW j \in 1 .. Len(q) - 1, i < j
                       PROVE  q[i + 1] < q[j + 1]
          BY <4>0
        <4>2. i + 1 \in DOMAIN q /\ j + 1 \in DOMAIN q /\ i + 1 < j + 1
          BY <4>1, <3>5
        <4> QED BY <4>2, <3>3
      <3>8. \A i \in DOMAIN r.queue : r.current < r.queue[i]
        <4>1. SUFFICES ASSUME NEW i \in 1 .. Len(q) - 1 PROVE q[1] < q[i + 1]
          BY <3>4, <3>5
        <4>2. 1 \in DOMAIN q /\ i + 1 \in DOMAIN q /\ 1 < i + 1
          BY <4>1, <3>5
        <4> QED BY <4>2, <3>3
      <3>9. /\ r.current \in Songs(stored) /\ r.current \in played' /\ r.current # Nil
            /\ played \subseteq played' /\ played' \subseteq played \cup {r.current}
            /\ Len(owner) <= Len(owner')
        BY <3>1, <3>3, <3>4, <3>5, <1>3, NilAssumption DEF Song
      <3> QED BY <1>1, <3>1, <3>2, <3>4, <3>6, <3>7, <3>8, <3>9, OrderStep
    <2> QED BY <2>1, <2>2
  <1>9. ASSUME NEW p \in Player, NEW song \in 1 .. Len(owner), removeSongFromQueue(p, song)
        PROVE  OrderInv'
    <2>1. PICK i \in DOMAIN heap[stored].queue :
            heap' = [heap EXCEPT ![stored].queue = RemoveAt(@, i)]
      BY <1>9 DEF removeSongFromQueue
    <2> DEFINE q == heap[stored].queue
               r == [heap[stored] EXCEPT !.queue = RemoveAt(q, i)]
    <2>2. stored \in Box /\ heap[stored] \in JukeboxRecord /\ q \in Seq(Song)
          /\ heap' = [heap EXCEPT ![stored] = r] /\ owner' = owner /\ played' = played
      BY <1>9, <2>1 DEF removeSongFromQueue, TypeOK, JukeboxRecord
    <2>3. /\ RemoveAt(q, i) \in Seq(Song) /\ Len(RemoveAt(q, i)) = Len(q) - 1
          /\ \A j \in DOMAIN RemoveAt(q, i) :
               RemoveAt(q, i)[j] = IF j < i THEN q[j] ELSE q[j + 1]
      BY <2>1, <2>2, Removed
    <2>4. r \in JukeboxRecord /\ r.queue = RemoveAt(q, i) /\ r.current = heap[stored].current
      BY <2>2, <2>3 DEF JukeboxRecord
    <2>5. \A k \in DOMAIN q :
            /\ q[k] \in Songs(stored) /\ q[k] \notin played /\ q[k] \in Song
            /\ heap[stored].current # Nil => heap[stored].current < q[k]
            /\ \A j \in DOMAIN q : k < j => q[k] < q[j]
      BY <2>2, SongsOf DEF OrderInv, PlayedOnce, InOrder, ToSet
    <2>6. DOMAIN r.queue = 1 .. Len(q) - 1 /\ DOMAIN q = 1 .. Len(q) /\ Len(q) \in Nat
          /\ i \in 1 .. Len(q)
      <3>1. DOMAIN RemoveAt(q, i) = 1 .. Len(RemoveAt(q, i))
        BY <2>3
      <3> QED BY <2>1, <2>2, <2>3, <2>4, <3>1
    <2> HIDE DEF r, q
    <2> DEFINE old(j) == IF j < i THEN j ELSE j + 1
    <2>7. \A j \in DOMAIN r.queue : old(j) \in DOMAIN q /\ r.queue[j] = q[old(j)]
      BY <2>3, <2>4, <2>6
    <2>8. \A j, k \in DOMAIN r.queue : j < k => old(j) < old(k)
      BY <2>6
    <2> HIDE DEF old
    <2>9. \A j, k \in DOMAIN r.queue : j < k => r.queue[j] < r.queue[k]
      BY <2>5, <2>7, <2>8
    <2>10. \A j \in DOMAIN r.queue :
             /\ r.queue[j] \in Songs(stored) /\ r.queue[j] \notin played
             /\ r.current # Nil => r.current < r.queue[j]
      BY <2>4, <2>5, <2>7
    <2>11. r.current # Nil => r.current \in Songs(stored) /\ r.current \in played'
      BY <2>2, <2>4, SongsOf DEF OrderInv, SongsKnown, Playing
    <2>12. r.current = Nil => r.queue = <<>>
      <3>1. SUFFICES ASSUME r.current = Nil PROVE r.queue = <<>>
        OBVIOUS
      <3>2. q = <<>>
        BY <3>1, <2>2, <2>4 DEF OrderInv, SongsKnown, Playing, q
      <3> QED BY <3>2, <2>6
    <2>13. Len(owner) <= Len(owner') /\ played \subseteq played' /\ played' \subseteq played
      BY <2>2, <1>3
    <2> QED BY <1>1, <2>2, <2>4, <2>9, <2>10, <2>11, <2>12, <2>13, OrderStep
  <1>10. ASSUME NEW s \in Slot, Refuse(s) PROVE OrderInv'
    BY <1>10, <1>2 DEF Refuse
  <1>11. ASSUME NEW s \in Slot, StartTimer(s) PROVE OrderInv'
    BY <1>11, <1>2 DEF StartTimer
  <1>12. CASE UNCHANGED vars
    BY <1>12, <1>2 DEF vars
  <1> QED BY <1>4, <1>6, <1>7, <1>8, <1>9, <1>10, <1>11, <1>12 DEF Next, Step

LEMMA OrderAlways == Spec => []OrderInv
  <1>1. Init => OrderInv
    BY DEF Init, OrderInv, SongsKnown, InOrder, PlayedOnce, Songs, Playing, Empty, ToSet
  <1>2. TypeOK /\ Locals /\ OrderInv /\ [Next]_vars => OrderInv'
    BY OrderNext
  <1> QED BY <1>1, <1>2, JukeboxTypes, PTL DEF Spec

\* The songs of a jukebox wait in the order in which they were added, after the
\* current one, even when songs end during requests and a jukebox that was
\* removed from the Map is still written (addSong, startNextSong).
THEOREM JukeboxOrder == Spec => []InOrder
  <1>1. OrderInv => InOrder
    BY DEF OrderInv
  <1> QED BY <1>1, OrderAlways, PTL

\* No song that has been played waits in any object again, under the same conditions.
THEOREM JukeboxPlaysOnce == Spec => []PlayedOnce
  <1>1. OrderInv => PlayedOnce
    BY DEF OrderInv
  <1> QED BY <1>1, OrderAlways, PTL
=============================================================================
