---------------------------- MODULE ChunkLoading ----------------------------
(***************************************************************************)
(* Chunk loading and chunk contents of a World: the loaders of the players,*)
(* the viewers of every loaded chunk, and whether the copies the clients   *)
(* hold are current.                                                       *)
(*                                                                         *)
(* Three kinds of goroutine meet here.  AddPlayer and RemovePlayer and the *)
(* tick exclude each other by tickLock.  A packet handler edits a chunk    *)
(* under that chunk's own lock only, so it interleaves with the tick:      *)
(* every critical section of a chunk's lock is a step of its own.  The     *)
(* tick is cut down to the ones that load chunks (every 8th) and, of       *)
(* those, the ones that also resend every chunk (every 16th).  Chunks are  *)
(* never unloaded (that code is commented out).                            *)
(*                                                                         *)
(* Maps and slices are relations: <<c, p>> \in loaded for p in             *)
(* loaders[c].loaded, <<c, p>> \in views for c in chunks[p].viewers.  A    *)
(* chunk's content is abstracted to the pairs <<c, p>> \in fresh: what     *)
(* client c was last sent of chunk p is what p holds now.                  *)
(***************************************************************************)
EXTENDS Integers, Sequences

CONSTANTS
  Client,    \* the clients, as ChunkViewer and as key of World.players
  Editor,    \* the goroutines whose packet handlers edit blocks
  Center,    \* the chunk positions a player can be in, as <<x, z>>
  Offsets,   \* loadList[:radiusIdx[chunkRadius()]]
  Slow,      \* the clients whose packet queue can be full
  Editable,  \* the chunks somebody edits
  Movers     \* bound: the clients that move while they are in the world

Pos == Int \X Int

ASSUME CenterAssumption == Center \subseteq Pos
ASSUME SlowAssumption == Slow \subseteq Client
ASSUME EditableAssumption == Editable \subseteq Pos
ASSUME MoversAssumption == Movers \subseteq Client
ASSUME OffsetsAssumption ==
  /\ Offsets \in Seq(Pos)
  /\ \A i, j \in DOMAIN Offsets : Offsets[i] = Offsets[j] => i = j

VARIABLES
  players,    \* World.players, which are also the keys of World.loaders
  position,   \* the chunk of p.Position
  chunkPos,   \* p.ChunkPos
  loaded,     \* loaders[c].loaded
  chunks,     \* the keys of World.chunks
  views,      \* LoadedChunk.viewers
  fresh,      \* the client's copy is what the chunk holds
  lost,       \* a copy is out of date because the queue dropped its sending
  unsent,     \* chunks changed by a command, which leaves sending to the tick
  editing,    \* per editor, the chunk changed and not yet sent, or NoChunk
  phase,      \* what the tick goroutine is at
  resend,     \* whether this tick ends with UpdateToViewers
  todo,       \* loaders this tick has not come to
  queue,      \* the loader in hand with its loadQueue: <<c, i>> for each
              \* index i of loadList it still has to load
  refresh,    \* chunks this tick has yet to resend
  panicked    \* AddViewer or RemovePlayer found the viewers inconsistent

playerVars == <<players, position, chunkPos, loaded>>
chunkVars == <<chunks, views>>
copyVars == <<fresh, lost, unsent>>
tickVars == <<phase, resend, todo, queue, refresh>>
vars == <<playerVars, chunkVars, copyVars, editing, tickVars, panicked>>

NoChunk == <<>>
Phase == {"idle", "load", "view", "update"}

Init ==
  /\ players = {}
  /\ position \in [Client -> Center]
  /\ chunkPos = position
  /\ loaded = {}
  /\ chunks = {}
  /\ views = {}
  /\ fresh = {}
  /\ lost = {}
  /\ unsent = {}
  /\ editing = [e \in Editor |-> NoChunk]
  /\ phase = "idle"
  /\ resend = TRUE
  /\ todo = {}
  /\ queue = {}
  /\ refresh = {}
  /\ panicked = FALSE

----------------------------------------------------------------------------
(* AddPlayer and RemovePlayer, under tickLock *)

AddPlayer(c) ==
  /\ phase = "idle" /\ c \notin players
  /\ players' = players \cup {c}
  /\ loaded' = {l \in loaded : l[1] # c}
  /\ UNCHANGED <<position, chunkPos, chunkVars, copyVars, editing, tickVars, panicked>>

\* Mutant: the viewers are not told.
MutantRemovePlayer(c) ==
  /\ phase = "idle" /\ c \in players
  /\ players' = players \ {c}
  /\ loaded' = {l \in loaded : l[1] # c}
  /\ fresh' = {f \in fresh : f[1] # c}
  /\ lost' = {f \in lost : f[1] # c}
  /\ UNCHANGED <<position, chunkPos, chunkVars, unsent, editing, tickVars, panicked>>

\* RemoveViewer on every chunk the loader has: one that does not know the
\* client panics.
RemovePlayer(c) ==
  /\ phase = "idle" /\ c \in players
  /\ panicked' = (\E l \in loaded : l[1] = c /\ l \notin views)
  /\ views' = {v \in views : ~(v[1] = c /\ v \in loaded)}
  /\ players' = players \ {c}
  /\ loaded' = {l \in loaded : l[1] # c}
  /\ fresh' = {f \in fresh : f[1] # c}
  /\ lost' = {f \in lost : f[1] # c}
  /\ UNCHANGED <<position, chunkPos, chunks, unsent, editing, tickVars>>

\* Movement and teleports set p.Position at any time.
Move(c) ==
  /\ c \in players \cap Movers
  /\ \E p \in Center : p # position[c] /\ position' = [position EXCEPT ![c] = p]
  /\ UNCHANGED <<players, chunkPos, loaded, chunkVars, copyVars, editing, tickVars, panicked>>

----------------------------------------------------------------------------
(* subtickChunkLoad *)

Around(k, i) == <<k[1] + Offsets[i][1], k[2] + Offsets[i][2]>>
At(c, i) == Around(chunkPos[c], i)
Reach == {Around(k, i) : k \in Center, i \in DOMAIN Offsets}

TickStart ==
  /\ phase = "idle"
  /\ chunkPos' = [c \in Client |-> IF c \in players THEN position[c] ELSE chunkPos[c]]
  /\ phase' = "load"
  /\ todo' = players
  /\ UNCHANGED <<players, position, loaded, chunkVars, copyVars, editing, resend,
                 queue, refresh, panicked>>

\* Mutant: what is loaded already is queued again.
MutantTakeLoader(c) ==
  /\ phase = "load" /\ queue = {} /\ c \in todo
  /\ todo' = todo \ {c}
  /\ queue' = {<<c, i>> : i \in DOMAIN Offsets}
  /\ UNCHANGED <<playerVars, chunkVars, copyVars, editing, phase, resend, refresh, panicked>>

\* Mutant: the indices in the queue are off by one.
MutantQueuedIndices(c) ==
  /\ phase = "load" /\ queue = {} /\ c \in todo
  /\ todo' = todo \ {c}
  /\ queue' = {<<c, i + 1>> : i \in {j \in DOMAIN Offsets : <<c, At(c, j)>> \notin loaded}}
  /\ UNCHANGED <<playerVars, chunkVars, copyVars, editing, phase, resend, refresh, panicked>>

\* Mutant: a loader that has the first chunk is taken to have all.
MutantHasFirst(c) ==
  /\ phase = "load" /\ queue = {} /\ c \in todo
  /\ todo' = todo \ {c}
  /\ queue' = {<<c, i>> : i \in {j \in DOMAIN Offsets :
                  {<<c, At(c, 1)>>, <<c, At(c, j)>>} \cap loaded = {}}}
  /\ UNCHANGED <<playerVars, chunkVars, copyVars, editing, phase, resend, refresh, panicked>>

\* calcLoadingQueue
TakeLoader(c) ==
  /\ phase = "load" /\ queue = {} /\ c \in todo
  /\ todo' = todo \ {c}
  /\ queue' = {<<c, i>> : i \in {j \in DOMAIN Offsets : <<c, At(c, j)>> \notin loaded}}
  /\ UNCHANGED <<playerVars, chunkVars, copyVars, editing, phase, resend, refresh, panicked>>

\* limiter.Allow() is false: the rest of this loader's queue is dropped.
LimiterRefuses ==
  /\ phase = "load" /\ queue # {}
  /\ queue' = {}
  /\ UNCHANGED <<playerVars, chunkVars, copyVars, editing, phase, resend, todo, refresh, panicked>>

IsNext(q) == q \in queue /\ \A r \in queue : q[2] <= r[2]

\* The viewer and the chunk that entry q of the queue is about.
View(q) == <<q[1], At(q[1], q[2])>>

\* The next position of the queue: loadChunk if nobody has, then AddViewer.
LoadNext(q) ==
  /\ phase = "load" /\ IsNext(q)
  /\ chunks' = chunks \cup {View(q)[2]}
  /\ loaded' = loaded \cup {View(q)}
  /\ panicked' = (View(q) \in views)
  /\ views' = views \cup {View(q)}
  /\ phase' = "view"
  /\ UNCHANGED <<players, position, chunkPos, copyVars, editing, resend, todo, queue, refresh>>

----------------------------------------------------------------------------
(* Sending chunks: ViewChunkLoad pushes to a queue that may drop it *)

\* dropped: the receivers among rs whose queue is full.
Deliver(rs, p, dropped) ==
  /\ fresh' = fresh \cup {<<c, p>> : c \in rs \ dropped}
  /\ lost' = (lost \cup {<<c, p>> : c \in dropped}) \ fresh'

ViewersOf(p) == {c \in Client : <<c, p>> \in views}

SendLoaded(q, dropped) ==
  /\ phase = "view" /\ IsNext(q)
  /\ dropped \subseteq {q[1]}
  /\ Deliver({q[1]}, View(q)[2], dropped)
  /\ phase' = "load"
  /\ queue' = queue \ {q}
  /\ UNCHANGED <<playerVars, chunkVars, unsent, editing, resend, todo, refresh, panicked>>

LoadEnd ==
  /\ phase = "load" /\ queue = {} /\ todo = {}
  /\ IF resend
     THEN phase' = "update" /\ refresh' = chunks
     ELSE phase' = "idle" /\ refresh' = {}
  /\ resend' = ~resend
  /\ UNCHANGED <<playerVars, chunkVars, copyVars, editing, todo, queue, panicked>>

\* Mutant: the first full queue ends the loop over the viewers.
MutantUpdateToViewers(p, dropped) ==
  /\ dropped \subseteq ViewersOf(p)
  /\ Deliver(IF dropped = {} THEN ViewersOf(p) ELSE dropped, p, dropped)
  /\ unsent' = unsent \ {p}

UpdateToViewers(p, dropped) ==
  /\ dropped \subseteq ViewersOf(p)
  /\ Deliver(ViewersOf(p), p, dropped)
  /\ unsent' = unsent \ {p}

Resend(p, dropped) ==
  /\ phase = "update" /\ p \in refresh
  /\ UpdateToViewers(p, dropped)
  /\ refresh' = refresh \ {p}
  /\ UNCHANGED <<playerVars, chunkVars, editing, phase, resend, todo, queue, panicked>>

UpdateEnd ==
  /\ phase = "update" /\ refresh = {}
  /\ phase' = "idle"
  /\ UNCHANGED <<playerVars, chunkVars, copyVars, editing, resend, todo,
                 queue, refresh, panicked>>

----------------------------------------------------------------------------
(* Block edits *)

SetBlock(p) == p \in chunks /\ fresh' = {f \in fresh : f[2] # p}

\* clientUseItemOn and clientPlayerAction: SetBlock, then UpdateToViewers.
Edit(e, p) ==
  /\ editing[e] = NoChunk
  /\ SetBlock(p)
  /\ editing' = [editing EXCEPT ![e] = p]
  /\ UNCHANGED <<playerVars, chunkVars, lost, unsent, tickVars, panicked>>

SendEdit(e, dropped) ==
  /\ editing[e] # NoChunk
  /\ UpdateToViewers(editing[e], dropped)
  /\ editing' = [editing EXCEPT ![e] = NoChunk]
  /\ UNCHANGED <<playerVars, chunkVars, tickVars, panicked>>

\* /setblock and /fill only set the block.
Command(p) ==
  /\ SetBlock(p)
  /\ unsent' = unsent \cup {p}
  /\ UNCHANGED <<playerVars, chunkVars, lost, editing, tickVars, panicked>>

----------------------------------------------------------------------------

Tick ==
  \/ TickStart
  \/ \E c \in todo : TakeLoader(c)
  \/ LimiterRefuses
  \/ \E q \in queue : LoadNext(q)
  \/ \E q \in queue, dropped \in SUBSET Slow : SendLoaded(q, dropped)
  \/ LoadEnd
  \/ \E p \in refresh, dropped \in SUBSET Slow : Resend(p, dropped)
  \/ UpdateEnd

Next ==
  /\ ~panicked
  /\ \/ \E c \in Client : AddPlayer(c) \/ RemovePlayer(c) \/ Move(c)
     \/ Tick
     \/ \E e \in Editor, p \in Editable : Edit(e, p)
     \/ \E e \in Editor, dropped \in SUBSET Slow : SendEdit(e, dropped)
     \/ \E p \in Editable : Command(p)

Spec == Init /\ [][Next]_vars

\* The tick keeps running; a client's limiter that is asked again and again
\* allows again and again, and so has a queue that is pushed to again and
\* again room again and again.
FairSpec ==
  /\ Spec
  /\ WF_vars(~panicked /\ Tick)
  /\ \A c \in Client : SF_vars(~panicked /\ \E q \in queue : q[1] = c /\ LoadNext(q))
  /\ \A p \in Reach : SF_vars(~panicked /\ Resend(p, {}))

----------------------------------------------------------------------------
(* Properties *)

\* Types.
TypeOK ==
  /\ players \subseteq Client
  /\ position \in [Client -> Center]
  /\ chunkPos \in [Client -> Center]
  /\ loaded \subseteq Client \X Pos
  /\ chunks \subseteq Pos
  /\ views \subseteq Client \X Pos
  /\ fresh \subseteq Client \X Pos
  /\ lost \subseteq Client \X Pos
  /\ unsent \subseteq Pos
  /\ editing \in [Editor -> Pos \cup {NoChunk}]
  /\ phase \in Phase
  /\ resend \in BOOLEAN
  /\ todo \subseteq Client
  /\ queue \subseteq Client \X DOMAIN Offsets
  /\ refresh \subseteq Pos
  /\ panicked \in BOOLEAN

\* Loaders and viewers are two views of one relation, kept in step by the
\* tick, joins and leaves: a chunk's viewers are exactly the present players
\* whose loader has it.
ViewersMatchLoaders ==
  /\ views = loaded
  /\ \A v \in views : v[1] \in players /\ v[2] \in chunks

\* Neither "append an exist viewer" (world.go:244) nor "viewer is not found in
\* the loaded chunk" (world.go:129) ever happens.
NeverPanics == ~panicked

BeingLoaded(v) == phase = "view" /\ \E q \in queue : IsNext(q) /\ v = View(q)

\* No edit is missed: a viewer's copy is current, or the sending that makes it
\* so is under way, or was dropped by its full queue.  An edit between
\* AddViewer and ViewChunkLoad, or between two players' sendings, is no
\* exception.
CopiesCurrent ==
  \A v \in views :
    \/ v \in fresh
    \/ v \in lost
    \/ BeingLoaded(v)
    \/ \E e \in Editor : editing[e] = v[2]
    \/ v[2] \in unsent

\* Around a player who stays, every chunk of the loading order comes to be
\* loaded for it, and its client to hold the chunk's current content, again
\* after every edit: no loader is starved by its limiter, which drops what is
\* left of its queue, or by the others ("every loader has the same
\* opportunity", tick.go:110), and every edit, and every sending that a full
\* queue dropped, is made up for by a later one.
ChunksArrive ==
  \A c \in Client, i \in DOMAIN Offsets :
    \/ []<>(c \in players => <<c, Around(position[c], i)>> \in fresh)
    \/ []<><<position'[c] # position[c]>>_vars

=============================================================================
