------------------------------ MODULE Jukebox ------------------------------
(***************************************************************************)
(* src/jukebox/jukebox.service.ts for one clan: clans share nothing.  The   *)
(* service keeps the clan's jukebox in a Map and changes the object it read *)
(* from there after awaits, so several objects of one clan may be in use;   *)
(* "heap" holds them.  A step ends where the code waits for the database;   *)
(* its other awaits resume before any other request or timer runs.  (For    *)
(* Mut... see Matchmaking.)                                                 *)
(***************************************************************************)
EXTENDS Integers, Sequences, FiniteSets, SequencesExt

CONSTANTS
    Player,
    Slot,           \* requests in flight
    Box,            \* identities of jukebox objects
    Nil,            \* the absent jukebox, song, player or object
    Limits,         \* the numbers of songs a player may have, by the size of the clan
    MaxSong,        \* bound: no more songs are added
    Parallel        \* whether one player may have several requests in flight

ASSUME LimitsAssumption == Limits \subseteq Nat \ {0} /\ Limits # {}
ASSUME BoundAssumption == MaxSong \in Nat
ASSUME NilAssumption == Nil \notin Box /\ Nil \notin Nat
ASSUME SwitchAssumption == Parallel \in BOOLEAN

VARIABLES
    stored,         \* clanJukeboxMap.get(clanId)
    heap,           \* the jukebox objects
    timers,         \* songs whose setTimeout is pending
    owner,          \* the player of each song added, in the order they were added
    played,         \* history: the songs that have been the current one
    revived,        \* history: a request queued its song in a jukebox that had
                    \* been deleted from the map after the request read it
    req             \* the request each slot runs

vars == <<stored, heap, timers, owner, played, revived, req>>

\* Songs are numbered in the order in which they get their ObjectId.
Song == Nat \ {0}

JukeboxRecord == [queue : Seq(Song), current : Song \cup {Nil}]

\* box: the object the request read, whatever is stored by now; count: the songs
\* of the player it held then; song: the one it has made the current song.
Request == [pc : {"idle", "limit", "event"}, player : Player \cup {Nil},
            box : Box \cup {Nil}, count : Nat, song : Song \cup {Nil}]

Idle == [pc |-> "idle", player |-> Nil, box |-> Nil, count |-> 0, song |-> Nil]

Empty == [queue |-> <<>>, current |-> Nil]

TypeOK ==
    /\ stored \in Box \cup {Nil}
    /\ heap \in [Box -> JukeboxRecord]
    /\ timers \subseteq Song
    /\ owner \in Seq(Player)
    /\ played \subseteq Song
    /\ revived \in BOOLEAN
    /\ req \in [Slot -> Request]

Init ==
    /\ stored = Nil
    /\ heap = [b \in Box |-> Empty]
    /\ timers = {}
    /\ owner = <<>>
    /\ played = {}
    /\ revived = FALSE
    /\ req = [s \in Slot |-> Idle]
----------------------------------------------------------------------------
At(s, label) == req[s].pc = label

\* An object nobody refers to any more is as good as a new one.
Unused(b) == b # stored /\ \A s \in Slot : req[s].box # b

\* countPlayerAddedSongs
countPlayerAddedSongs(box, p) ==
    Cardinality({i \in DOMAIN box.queue : owner[box.queue[i]] = p})
      + (IF box.current # Nil /\ owner[box.current] = p THEN 1 ELSE 0)

\* The object becomes the stored one and is announced (publishPlaylistUpdate).
publishPlaylistUpdate(b) == stored' = b

Continue(s, request) == req' = [req EXCEPT ![s] = request]
----------------------------------------------------------------------------
(* addSongToClanJukebox                                                     *)

\* Get the jukebox or a new object that is not stored yet, count the player's
\* songs; then getMaxSongAmount reads the clan.
addSong(s, p) ==
    /\ At(s, "idle")
    /\ Parallel \/ \A t \in Slot : req[t].player # p
    /\ Len(owner) + Cardinality({t \in Slot : At(t, "limit")}) < MaxSong
    /\ \E b \in Box :
          /\ IF stored # Nil THEN b = stored ELSE Unused(b)
          /\ heap' = IF stored # Nil THEN heap ELSE [heap EXCEPT ![b] = Empty]
          /\ Continue(s, [pc |-> "limit", player |-> p, box |-> b,
                           count |-> countPlayerAddedSongs(heap'[b], p), song |-> Nil])
    /\ UNCHANGED <<stored, timers, owner, played, revived>>

\* The player has as many songs as the clan's size allows: MORE_THAN_MAX.
Refuse(s) ==
    /\ At(s, "limit")
    /\ \E max \in Limits : req[s].count >= max
    /\ Continue(s, Idle)
    /\ UNCHANGED <<stored, heap, timers, owner, played, revived>>

Accepted(s) ==
    /\ At(s, "limit")
    /\ \E max \in Limits : req[s].count < max
    /\ owner' = Append(owner, req[s].player)

\* The object has no current song: the new one plays and is announced; then the
\* daily-task event is emitted.
Play(s) ==
    LET b == req[s].box
    IN  /\ Accepted(s) /\ heap[b].current = Nil
        /\ heap' = [heap EXCEPT ![b].current = Len(owner')]
        /\ played' = played \cup {Len(owner')}
        /\ Continue(s, [req[s] EXCEPT !.pc = "event", !.song = Len(owner')])
        /\ UNCHANGED <<stored, timers, revived>>

MutEnqueue(s) ==
    LET b == req[s].box
    IN  /\ Accepted(s) /\ heap[b].current # Nil
        /\ heap' = [heap EXCEPT ![b].queue = <<Len(owner')>> \o @]
        /\ publishPlaylistUpdate(b)
        /\ Continue(s, Idle)
        /\ revived' = (revived \/ stored = Nil)
        /\ UNCHANGED <<timers, played>>

\* The object has a current song: the new one is pushed and the object stored.
Enqueue(s) ==
    LET b == req[s].box
    IN  /\ Accepted(s) /\ heap[b].current # Nil
        /\ heap' = [heap EXCEPT ![b].queue = Append(@, Len(owner'))]
        /\ publishPlaylistUpdate(b)
        /\ Continue(s, Idle)
        /\ revived' = (revived \/ stored = Nil)
        /\ UNCHANGED <<timers, played>>

\* The event was handled: the song's timer is set and the object stored.
StartTimer(s) ==
    LET b == req[s].box
    IN  /\ At(s, "event")
        /\ timers' = timers \cup {req[s].song}
        /\ publishPlaylistUpdate(b)
        /\ Continue(s, Idle)
        /\ UNCHANGED <<heap, owner, played, revived>>
----------------------------------------------------------------------------
(* startNextSong and removeSongFromQueue                                    *)

MutNextWithoutTimer(song) ==
    /\ song \in timers
    /\ stored # Nil /\ heap[stored].queue # <<>>
    /\ LET next == Head(heap[stored].queue)
       IN  /\ heap' = [heap EXCEPT ![stored] = [queue |-> Tail(heap[stored].queue), current |-> next]]
           /\ timers' = timers \ {song}
           /\ played' = played \cup {next}
    /\ UNCHANGED <<stored, owner, revived, req>>

MutNextWithoutShift(song) ==
    /\ song \in timers
    /\ stored # Nil /\ heap[stored].queue # <<>>
    /\ LET next == Head(heap[stored].queue)
       IN  /\ heap' = [heap EXCEPT ![stored] = [queue |-> heap[stored].queue, current |-> next]]
           /\ timers' = (timers \ {song}) \cup {next}
           /\ played' = played \cup {next}
    /\ UNCHANGED <<stored, owner, revived, req>>

\* The song's timer fires.  Without a further song the jukebox is deleted from
\* the map, its object keeps the last current song; otherwise the first queued
\* song is shifted, plays and gets a timer.
startNextSong(song) ==
    /\ song \in timers
    /\ IF stored = Nil \/ (stored # Nil /\ heap[stored].queue = <<>>)
       THEN stored' = Nil /\ timers' = timers \ {song} /\ UNCHANGED <<heap, played>>
       ELSE LET next == Head(heap[stored].queue)
            IN  /\ heap' = [heap EXCEPT ![stored] =
                               [queue |-> Tail(heap[stored].queue), current |-> next]]
                /\ timers' = (timers \ {song}) \cup {next}
                /\ played' = played \cup {next}
                /\ UNCHANGED stored
    /\ UNCHANGED <<owner, revived, req>>

\* Only a queued song of the player can be removed.
removeSongFromQueue(p, song) ==
    /\ stored # Nil /\ owner[song] = p
    /\ \E i \in DOMAIN heap[stored].queue :
          /\ heap[stored].queue[i] = song
          /\ heap' = [heap EXCEPT ![stored].queue = RemoveAt(@, i)]
    /\ UNCHANGED <<stored, timers, owner, played, revived, req>>
----------------------------------------------------------------------------
Step(s) == Refuse(s) \/ Play(s) \/ Enqueue(s) \/ StartTimer(s)

Next ==
    \/ \E s \in Slot : Step(s) \/ \E p \in Player : addSong(s, p)
    \/ \E song \in timers : startNextSong(song)
    \/ \E p \in Player, song \in 1 .. Len(owner) : removeSongFromQueue(p, song)

Spec == Init /\ [][Next]_vars
----------------------------------------------------------------------------
(* Properties                                                               *)

Songs(b) == (ToSet(heap[b].queue) \cup {heap[b].current}) \ {Nil}

\* A stored jukebox has a current song and a change of song ahead of it, whatever
\* songs end and whatever objects are replaced while requests are in flight:
\* otherwise songs are queued and never played.  The code has one exception: a
\* request that finds the current song of the object it has read, after the song
\* ended as the last one and the object was deleted from the map, puts that object
\* back with no timer behind it.
Driven ==
    stored # Nil =>
        /\ heap[stored].current # Nil
        /\ revived \/ timers # {} \/ \E s \in Slot : At(s, "event")

\* A song that has been the current one never waits again in any object, so it
\* is not played twice.
PlayedOnce == \A b \in Box : ToSet(heap[b].queue) \cap played = {}

\* In every object songs are played in the order in which they were added.
InOrder ==
    \A b \in Box :
        LET queue == heap[b].queue
        IN  \A i \in DOMAIN queue :
              /\ heap[b].current # Nil => heap[b].current < queue[i]
              /\ \A j \in DOMAIN queue : i < j => queue[i] < queue[j]
============================================================================
