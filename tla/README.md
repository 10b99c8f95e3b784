# A TLA+ verification of go-mc

go-mc is a Minecraft server in Go: a framework for connections (`net/`,
`server/`), a running game on top of it (`game/`, `client/`, `world/`) and the
storage formats of worlds (`level/`, `save/`). This directory holds TLA+ models
of the parts of it where order, concurrency or failure decide what is right,
the configurations that model-check them, and machine-checked proofs about them.

Paths below are relative to the repository. Every definition that models code
is listed in `PROJECT.json` with the lines it stands for.

## 1. The system

| Component | State it keeps | Operations | Talks to |
|---|---|---|---|
| Keep-alive (`server/keepalive.go`) | two lists of clients, index into them, two timers, all owned by one goroutine (`Run`) | join, left, tick (answer), ping, kick | the sessions by unbuffered channels; the packet queues by `SendKeepAlive`, `SendDisconnect` |
| Player session (`game/game.go`, `game/playerlist.go`, `client/client.go`) | the client, its two goroutines, its packet queue | `AcceptPlayer` and its deferred calls, `Start`, `startSend`, `startReceive` | keep-alive, player list, world |
| Player list (`server/playerlist.go`) | map of players under a mutex, capacity | `ClientJoin`, `ClientLeft`, `CheckPlayer`, `Range` | sessions, login, list ping |
| Packet queue (`net/queue/queue.go`) | a channel of capacity 256, or a linked list with a condition variable | `Push`, `Pull`, `Close` | everyone pushes, the sender pulls |
| World (`world/world.go`, `tick.go`, `loader.go`) | players, chunks with their viewers, loaders, entities, views | `AddPlayer`, `RemovePlayer`, the tick every 20 ms under `tickLock`, `GetChunk` and block edits from handlers | clients as `ChunkViewer`, `EntityViewer` |
| Entity tracking, movement, teleports (`world/tick.go`, `client/move.go`) | positions, inputs, pending teleport, entities in view | subtick updates, move and accept-teleport packets | bounding volume tree of the views |
| Bounding volume tree (`world/internal/bvh`) | a binary tree of boxes | `Insert`, `Delete`, `Find` | world |
| Login and configuration (`server/login.go`, `configuration.go`, `server.go`) | key pair; otherwise per connection | handshake, encryption, checks | player list, account service |
| Framing (`net/conn.go`, `net/packet`, `net/CFB8`) | compression threshold, cipher registers | read, write a packet | sessions |
| Chat (`game/chat.go`, `chat/sign`) | last chat time, signature cache, message chain | handle, broadcast, verify | player list |
| Chunk storage (`level/`) | palettes and bit arrays | `Get`, `Set`, encode | world, save |
| Region files (`save/region/mca.go`) | offsets, sector table, the file | `Open`, `Create`, `ReadSector`, `WriteSector` | chunk provider |

The rest is listed in `PROJECT.json` with the reason it is not modelled: pure
codecs (`nbt/`, text components), tables that are only read (`registry/`,
generated data), HTTP clients (`yggdrasil/`), start-up.

**How a player's life goes.** `Server.AcceptConn` performs login and
configuration and calls `Game.AcceptPlayer`, which enters the client into the
player list and the keep-alive component (`playerList.addPlayer`), then into the
world, and calls `client.Start`. `Start` spawns a sender, which pulls packets from
the client's queue and writes them, and a receiver, which reads packets and runs
their handlers; it returns as soon as one of them has stopped. The deferred
calls then take the client out of the world, the list and the keep-alive
component, and `AcceptConn` closes the connection. Meanwhile the keep-alive
goroutine pings and kicks, the world's tick loads chunks for the player, and
other players' handlers edit blocks it sees; all of them reach it by pushing
to its queue, which drops packets when full.

**What is hard.** Four goroutines per session share structures without a common
lock; the queue loses packets; two timers serve all clients; chunk edits run
beside the tick; a region file has to survive a crash between any two writes.
The hazards are listed at their lines in `PROJECT.json`.

**What makes each component correct.** Keep-alive: one deadline per client is
met although two timers serve all. Session: everything a session entered it
leaves, and it ends when its connection does. World: chunk viewers and loaders
are one relation, clients come to hold current chunks. Region: no sector
belongs to two chunks, whatever order of writes, errors and crashes.
Entity tracking: a viewer's set of entities and their positions are those the
server has. Tree: every box bounds its subtree. Palette: `Set` then `Get` as
with an array. Signature cache: the table and its index are inverse.

## 2. The modules

### Keep-alive

`KeepAlive` is the component: `pingList`, `waitList` and `listIndex` are the
fields of the same names, `listTimer` and `waitTimer` the time the timers have
left, and `pushPlayer`, `removePlayer`, `pingPlayer`, `tickPlayer`, `kickPlayer`
are the handlers of `Run`. As the channels are unbuffered and `Run` is one
goroutine, each handler is one step. A list element's timestamp is its age;
`Aged` lists and running timers make the action `Time`. Time does not pass while an
expired timer is unserved. `listIndex[c] = "orphan"` is what `kickPlayer` leaves:
an index entry whose element is in no list.

`KeepAliveClients` adds the clients (join, answer late or never, answer unasked,
leave) and is the specification that is checked alone. `KeepAliveContract` is the
abstract specification: per client one clock, a ping at most `Interval` after the
last event, an end at most `WaitInterval` after the ping. `ClientStatus` and
`ClientAge` are the refinement mapping; `MCKeepAlive` uses it for the clients that
answer when asked, and `MCPlayerSession` does the same for connections. `KeepAliveProofs` proves
what each handler preserves, and what it does to ages, for any caller;
`KeepAliveClientsProofs` and `PlayerSessionProofs` both build on it.

### Player session

`PlayerSession` EXTENDS `KeepAlive` and replaces its ideal clients by the
goroutines of a session. `main` walks through `AcceptPlayer` (one action per
call that others can see) and the deferred calls; `sender` and `receiver` are
`startSend` and `startReceive`; `players` is the player list, `inWorld`
`World.players`, `queue` the `ChannelQueue`. A ping is a packet in the queue, its
answer can be read (`ReceiveAnswer`) and only later be handed to the keep-alive
goroutine (`ClientTick`), so that everything can happen in between. The code does
not check that an answer was asked for (`client/client.go:94`, `game/playerlist.go:75`):
the clients of the constant `Babblers` send keep-alives whenever they like (`Babble`),
next to the `Behaved` ones. Each such answer leaves one more element of the babbler in the
keep-alive lists, for good if it leaves, so that the properties about a
client's own elements and deadlines speak of behaved clients; about the world, the player
list and the end of a session they speak of all. World ticks and other players
appear as `Traffic` into a queue. A panic of the keep-alive goroutine ends the process.
`ImplementsContract` is `Contract!Spec` with one more disjunct, for steps that leave
the three structures of `Run` alone, which spares TLC most of the work; the proof has both.

### Chunk loading and block edits

`ChunkLoading` has the tick as a goroutine of many small steps (`TickStart`,
`TakeLoader`, `LoadNext`, `SendLoaded`, ..., `Resend`), joins and leaves that exclude it
(`tickLock`), movements that do not, and editors, the packet handlers that
change a block (`Edit`) and then resend the chunk (`SendEdit`), holding the
chunk's lock for each but nothing in between. Chunk contents are abstracted to
"is client c's copy of chunk p current" (`fresh`), the queue to whether it drops
a sending. `queue` is what a loader still has to load; at any point the limiter
may refuse, and the rest is dropped until the next tick (`LimiterRefuses`). Of the ticks only those are kept that load chunks (every 8th) and,
among them, those that resend all (every 16th). Chunks are never unloaded
because the repository has that code commented out.

### Region files

`Region` is the sector allocator and the file. `WriteSector` is split at its
writes: `WriteNew` (allocate) or `WriteOver` (same number of sectors), `SetHead`,
`WriteData`; between them the process may die (`Crash(k)`, k sectors written) or a
write fail (`DataFails(k)`). `Load` is what `Load` computes from a header. A
partly written sector counts as not written, data handed to `Write` survives the
death of the process (the page cache is outside the model), and timestamps are
left out. `last` and `torn` are history variables.

`HeadFaultsSpec` adds failing header writes. `Spec` leaves them out, because
after one of them the table in memory and the header disagree and the
properties are lost; section 6 has the consequence.

### Entity tracking, movement and teleports

`EntityTracking` has the players of a world, each with the position the server
holds (`position`, `pos0`), the one its client last reported (`input`, written
by the receive goroutine under `Inputs`), the teleport the server waits for and
the packets the client has not answered (`told`), and, per viewer, the server's
list (`inView`) next to what the client draws (`screen`). `answered` is the position in
the packet the last answer was for, if that answer is the pending request's. A tick is `BeginTick`,
one `UpdatePlayer` or `SkipPlayer` (TryLock failed) for each player in any
order, and `UpdateEntities`; the handlers (`MovePlayerPos`,
`AcceptTeleportation`, `Tp`) run in between, joins and leaves only between ticks.
`UpdatePlayer` is one alternative for each branch of `subtickUpdatePlayers`:
`Settle`, `PullBack`, `Rescue`, `Follow`, `Ignore`. Positions are heights: the
limits and the deltas treat the axes alike. Rotation, OnGround and the animation
of static entities are left out.

The queue of a client in `Slow` may be full at any send: `Push` then drops the
packet (`net/queue/queue.go:67`), `SendPacket` ignores it (`client/packets.go:50`),
and the server's own state changes as if it had arrived. A dropped showing or
removal parts list and screen, a dropped movement leaves the copy off, a
dropped position packet is never answered. Three history variables say what is due to
that and nothing else: `astray` (the last packet that showed or removed this entity
was dropped), `lost` (the steps that dropped entity packets to this viewer), `unheard`
(players whose request was dropped).

### Packet queues

`PacketQueue` is the contract of the interface `queue.Queue`, `LinkedQueue` the
list under its mutex and condition variable: a goroutine inside `Pull` wants the
mutex (`awake`) or is in `cond.Wait` (`waiting`), `Signal` picks any waiting one,
and a woken one may find the list empty again. A push on a closed list panics
with the mutex held; afterwards (`broken`) no call proceeds. `ImplementsContract`
maps `pulling` to the awake and the waiting together. The channel queue of a
client is part of `PlayerSession`.

### Structures changed in place

Four modules model structures without concurrency of their own, whose danger is
a long sequence of calls. `MCStructures` runs them side by side: the variable
`structure` says which one a behaviour is about.

* `BVH`: nodes with parent and child pointers, boxes, and the loops of `Insert`
  (best-first search, then refitting with rotations) and `Delete` turn by turn.
  The three stages of `Insert` are actions of their own, the search heap a set.
* `PaletteContainer`: indices packed into longs and the palette they point into.
  `Set` contains the growth into a wider container, `Transfer` is `WriteTo` and
  `ReadFrom`, `Reload` goes through a chunk file, which does not hold the width.
  The width is guessed from the number of longs; a container whose width was
  guessed wrong is `misread`, and nothing is said of it.
* `SignatureCache`: `PopOrInsert` by turns of its loop, whose buffer grows under it.
* `CFB8`: one action per call of `XORKeyStream`, with both ways through it and
  with its two slices in one memory; `Reference` is the definition of the mode. Bytes,
  their exclusive or, and the block cipher are constants; `MCStructures` takes
  bits and a small cipher that is not symmetric in its bytes.

`StructuresProofs` extends all four.

## 3. The runs

| Run | Question | Bounds |
|---|---|---|
| KeepAlive | lists, index and timers consistent; deadlines kept; refinement of the contract; liveness | 3 clients, one of them answering unasked, Interval 1, WaitInterval 2 |
| KeepAliveKick (violated) | is only who waited long enough kicked? | 2 clients, 2 and 4 |
| Session | does a session leave nothing behind, is every player supervised, are deadlines kept? | 2 clients, one of which also answers unasked, list for 1, queue for 2 |
| SessionEnds | does a session end with its connection or a Disconnect in its queue? | 1 client, answering unasked too, queue for 2 |
| SessionLateAnswer (violated) | is the panic on an unknown client unreachable? | 1 client |
| ChunkLoading | viewers = loaders, no panic, no missed edit, every chunk of the loading order arrives | 2 players, one with a slow queue who moves, 2 positions, a loading order of 2, 1 editor |
| Region | allocator exact, durable, reads back | 3 chunks, sizes 1 and 2, 2 versions, file of 10 sectors |
| RegionHeadFails (violated) | the same durability with failing header writes | 2 chunks |
| LinkedQueue | no lost wakeup; the queue's contract, its liveness included | 3 pulling goroutines, 2 items, up to 3 queued |
| Tracking | lists and screens in step, nobody in the void, ghosts, deltas; reports wait for teleports; teleports and views settle | 2 players, either queue dropping packets, one static entity, reports at 3 places, one fall, /tp again and again |
| Structures | tree, container, cache and cipher against what they stand for | below |
| CipherOverlap (violated) | does decryption work in the layouts the fast way was written for? | blocks of 2 bytes, calls of 1 and 5 |

Why these bounds are enough for the interesting cases to occur:

* *KeepAlive.* Three clients put two into one list while a third moves, so
  removal from the front, middle and back, and all resets of a timer by another
  client occur. `WaitInterval > Interval` as in the code (30 s, 15 s), so that a
  waiting client overlaps a ping of others. `MaxPing` bounds the list for the client that
  answers unasked, each answer of which adds an element.
* *Session.* With `MaxPlayer = 1` two clients reach the full list. `QueueCap = 2` lets
  a queue be empty, partly full and full, so both a lost ping and a lost
  Disconnect occur. A client is one connection and is used once; two suffice
  for every shared structure to see another's step. `MaxListed = 2` lets the babbler add
  a second element of its own, or one next to the other client's, before and after it has
  been pinged; without a bound its answers fill the list for ever. `SessionEnds` concerns one
  client's goroutines only, the others reach it by `Traffic`; a full player list is the Session run's.
* *ChunkLoading.* Two overlapping positions give chunks shared by players and not; a
  loading order of two positions makes queues of two, of which the limiter may
  refuse both or the second, so that a loader loses the rest of its queue, has half
  its chunks, and may move on like that. `Movers` bounds who moves: one
  player walks while the other stays, which keeps liveness within reach. For the safety
  properties the proofs cover longer orders, more players and all of them
  moving; for `ChunksArrive` there is only the run.
* *Region.* Ten sectors are room for three chunks of two sectors and a gap,
  so first-fit reuses, overlaps its own old sectors, and skips gaps that are too
  small. `LastSector` bounds the file's growth; the proofs hold for any.
  `View` identifies states that differ in what no `ReadSector` of an intact chunk looks
  at: sectors outside these chunks' places are written before they are read again,
  and the history of a torn chunk is overwritten when it stops being torn.
* *LinkedQueue.* Three pulls: one woken, one that overtakes it, one that waits on. Two
  items can be told apart, so their order matters, and a queue of three has one for every pull. `MaxItems` bounds the
  model only; the list has no bound.
* *Tracking.* One player goes everywhere, one mostly watches: every property
  relates one viewer to one entity. The heights are those where a rule changes:
  -120 in the void, -64 out of the viewer's box, 0 (every input's first value) exactly
  at the speed limit from 100 and less than 8 blocks from the join at 4, NaN. So all
  branches of `UpdatePlayer`, a move within a block's delta and one on
  which it wraps occur. `MaxTold = 1` keeps /tp for when the client has answered everything:
  it can be used any number of times, also next to a pending teleport whose packet was dropped
  or answered. `MaxLost` gives the watcher one step whose entity packets are dropped,
  any subset of them; the walker loses none of them, as it shows nothing the watcher does not. Position
  packets are dropped without a bound, for both. `MaxFalls` bounds the reports from the
  void. The theorems hold for any values of these bounds.
* *Structures.* Four leaves make a tree of depth three with rotations at two
  levels and an old root pushed down (two boxes touch, two lie apart, and each may be in the tree several times). Three
  cells in longs of four bits make widths of one, two and three cells a long, a
  last long that is not full, growth through the indirect widths into the states
  themselves, and a width that is guessed wrong. A cache of four with five
  signatures displaces at every turn, and messages of up to three fill, move and
  reinsert. Blocks of two one-bit bytes with calls of one and five bytes wrap the
  ring and alternate between the slow and the fast way.

Deadlock is checked, except in the session, Tracking and LinkedQueue runs: there
every client of the model may have gone, or the queue be broken, with nothing left to do.

## 4. Fairness

* `KeepAliveClients`: weak fairness of serving timers and of the clock. `Run` is a
  loop of a `select`, the timers are the runtime's. Clients owe nothing.
* `PlayerSession`: weak fairness of each goroutine that can proceed (`Run`, each
  `AcceptPlayer`, each sender, each receiver that holds an answer or whose
  connection is dead). A peer owes nothing, neither an answer nor silence. Writes are assumed to return; the code sets no
  deadline.
* `ChunkLoading`: weak fairness of the tick; strong fairness of loading for each
  client (its limiter refills with time, so one that is asked again and again
  allows some load again and again, whichever entry is first in the queue then) and of a resend nobody's queue drops (a sender that pulls
  makes room again and again). The choice of which loader the tick takes first stays
  free, as Go's map order is.
* `LinkedQueue`: weak fairness of each awake `Pull`: `sync.Mutex` hands over to a
  goroutine that has waited for a millisecond. Nobody has to push or close. The
  contract's fairness (an item does not stay while somebody pulls) follows from it.
* `EntityTracking`: weak fairness of the tick (a ticker), strong fairness of each
  player's update (TryLock fails only while a handler makes two assignments) and
  weak fairness of a client's answer to a position packet, as the protocol obliges
  it; a client that never answers, or never got the packet, keeps its teleport pending. No
  packet is assumed to arrive.

## 5. The proofs

TLAPS proves the following for all values of the constants that satisfy the named
assumptions; what a specification leaves out (section 2) the theorems leave out too.

**`ChunkLoadingProofs`.** Assumptions: those of `ChunkLoading` (positions are pairs of
integers, no position twice in the loading order, slow clients are clients).
`TypeOK`, `ViewersMatchLoaders`, `NeverPanics` and `CopiesCurrent` are invariants for any number
of clients, editors and chunks and any loading order. Not being inductive by
themselves they are joined to what the tick keeps between its steps: the queue
belongs to one player who is present, its entries are not loaded yet (except the one
being sent, in phase "view"), the loaders still to come are those of present
players, and what is not fresh is accounted for. The step theorem has one
case per action.

**`RegionProofs`.** Assumptions: sizes between 1 and 255, a file of at least two sectors.
`AllocationExact`, `Durable` and `ReadsBack` are invariants for any chunks, versions, sizes and
file length, of `Spec`, in which header writes succeed: after a failing one they are
lost (`RegionHeadFails`). The inductive invariant adds that the header on disk is the table in
memory except for the one chunk whose header write is still to come, that
the places in the header are disjoint too (the header can be reloaded at any
moment), and that the data under way fits its place. The heart is the lemma
that first fit in the freed table gives disjoint places and an exact table again
(`AllocateExact`), and that a write inside one chunk's sectors leaves the
others' pieces alone (`OthersIntact`).

**`KeepAliveProofs`, `KeepAliveClientsProofs`.** Assumption: both intervals are
positive. That nobody is overdue is not inductive: one timer serves a list
because the list is sorted by age, so that its head is the first to expire
(`Sorted`), and because the timer never runs longer than the head still has
(`InTime`). That the index is exact needs to know why `tickPlayer` may push without
looking: a client found in `pingList` owes no answer (`Tame`), so its answer
always comes out of `waitList` or from a kicked one. The handler lemmas are stated
for any caller; a client that answers unasked breaks its own `Exact`, not `KeepAliveInv`.
`OneDeadlinePerClient` is the whole refinement: an age lemma for each handler says that
it moves one client's clock and no other's (in `KeepAliveProofs`), and each handler is
then one step of the contract or none.

**`PlayerSessionProofs`.** Assumptions: the intervals positive, room for at least two
packets, babblers are clients. The same handler lemmas are used under the goroutines of a session. The
inductive invariant ties three places together: where `AcceptPlayer` is fixes
what the index, the player list and the world say, for every client (`Tracked`), and at most one
keep-alive of a behaved client is under way, in its queue, at the peer, or in the
receiver's hands, none when it is to be pinged (`Tame`). Hence a session whose client answers
only when asked calls `Run` as the behaved clients of `KeepAliveClients` do, late answers
after a kick included, and a babbling one as the others do: `SessionsKeepDeadlines` shows that the
sessions, all their goroutines together, implement the contract of every
behaved client. A ping or a Disconnect that a full queue dropped does not show in it:
it is the handler that moves the clock, not the packet.

**`EntityTrackingProofs`.** Assumptions: players and statics are disjoint, positions
are integers, the two markers are not. The invariants need each other: who is
shown depends on who is in the world (`OnlyTheWorldSees`), and the void has to be
kept out of `pos0` and of pending teleports as well as of `position` (`AboveVoid`).
`ScreensMatch` holds with any packets dropped, for the entities not `astray`.
`CopiesKeepTheirError` is an action property: it follows from
`DeltaWraps`, which says what sixteen bits make of a difference. `NoReportOvertakes`
needs that every packet marked as the pending request's, and every answer kept as one, has the
position that is pending (`AnswersMeet`, `Meets`), which a second request must not break.

**`LinkedQueueProofs`.** Assumption: finitely many goroutines. That no wakeup is lost
is a count: while pulls wait, there are at least as many awake ones as items. `LinkedStepsAreContracts` is the
safety half of `ImplementsContract`.

**`StructuresProofs`.** One section per structure changed in place. The models speak
of loops over data, as recursive functions. What such a function returns is not there
for the asking: it has to exist first. `Recursion` gives a function defined along any
grounded pointer (every non-empty set of nodes has one that points out of it), and that there
is only one; `CountingUp` is its case over numbers. Each loop then gets an
invariant, as loops do.

* *Signature cache.* Assumption: the cache has a slot. `IndexesAgree` is inductive
  with its types; that what was worked off stays needs its place: worked-off
  signatures lie below the slot the loop fills next (`WorkedOffBelow`), so that no turn
  displaces them.
* *Bounding volume tree.* Assumptions: boxes are pairs of integer vectors, room for
  at least one leaf, `Nil` is no number. `TreeLinked` speaks of states
  between calls; `BVHInv` adds what holds inside them. During the search the new leaf
  belongs to no tree (`Attached`); during refitting one node and its parent may not cover
  their children (`BoxesHold`), and each turn of the loop moves that exception one level up.
  That every node is reachable is kept as rootedness (a non-empty set of nodes closed
  under parents contains the root), which every rotation preserves; `Counted` (one inner node less than leaves) shows that a fresh node is always there.
  `BVHSearchFindsBest` needs the cost of a sibling as a sum along the path
  to the root, that the queue carries the true sums, and that whatever could still beat the best
  lies under a queued node (`SearchInv`).
* *Palette container.* Assumptions: a container has a cell, `min <= max < global <=
  LongBits` for every configuration, and a state fits the global width. `ContentsMatch`
  does not say that an index points into the palette, without which one more `Set`
  could read beyond it; `InStep` does, and that no value is listed
  twice. The arithmetic is that of digits: a long is a sum of cells, `Store`
  changes one of them and no other (`StoreKeeps`), whatever the width. Loads that guess a wrong width are excluded: `ContentsMatch` says
  nothing once one has happened (`misread`). Growth is
  a loop whose invariant is that the copy is sound, lists only values of the old palette (so that it
  has room), and that the cells copied so far read as before.
* *Stream cipher.* Assumptions: 0 is a byte, `Xor` of bytes is a byte, `Encrypt` takes
  blocks to blocks. Nothing else is known of the two, so the theorems hold for every block
  cipher and block size, AES included. The layouts are those of `CFBNext`: `dst` in the place of `src`, before
  it by up to the length of the call, or right behind it. The inductive invariant is the two properties themselves
  with types: between calls nothing is left of how they went. The work is in one call:
  the slow loop keeps the window of the ring equal to the register (`SlowRuns`), also where
  the ring wraps and where writing `dst` overwrites `src` behind the reading position; the
  fast way writes the reference's bytes in every layout it is taken for (`QuickRuns`) except
  overlapping decryption, the one `CipherOverlap` refutes, and leaves the right window even there.

With these, and with `RegionTyped`, every invariant and every action property of the
passing runs is a theorem.

Only model-checked: every liveness property (`EventuallyPinged`, `EventuallyResolved`,
`SessionEnds`, `ChunksArrive`, `TeleportsSettle`, `ViewsSettle`, and the fairness half
of the queue's contract), which liveness under fairness puts out of the prover's reach.

## 6. What the checks found

1. **A kick too early** (`KeepAliveKick`; `server/keepalive.go:140`). `waitTimer` runs on
   while nobody waits, and `kickPlayer` asks for nobody's age; a client pinged just
   before it fires is disconnected at once. The properties that hold are
   therefore upper bounds, and `KeepAliveContract` permits a kick at any age.
2. **A late answer takes the server down** (`SessionLateAnswer`; `server/keepalive.go:120`).
   The receiver can hold an answer while the sender fails and the session ends;
   its tick then finds no client and panics. The other session properties hold
   up to that point.
3. **A header never written** (`RegionHeadFails`; `save/region/mca.go:185`). After a failed
   header write the retry takes the branch that only overwrites.
4. **The wrong way round** (`CipherOverlap`; `net/CFB8/cfb8.go:71`). The
   block-by-block decryption "requires to be non-overlapping", but its condition
   selects the slices that overlap. In the model it writes garbage there; in the
   program it may also panic, since `crypto/aes` checks its own arguments for inexact overlap. A connection
   decrypts in place, which never takes this way.

Remarks on behaviour that contradicts no text of the repository:

* A dropped Disconnect is never repeated (`net/queue/queue.go:67`); the kicked client stays.
* A client that answers unasked leaves elements in the keep-alive lists that outlive its
  session: they are pinged and kicked in turn, into a queue nobody reads.
* A dropped position packet leaves its teleport pending for ever: the player's reports
  are ignored until it leaves (`client/packets.go:50`). A dropped showing or removal of an
  entity is not repeated while it stays in, or out of, the box.
* Reports stored while a teleport waits do not move the player then, but the last of them is looked at
  by the tick after the answer, and followed if it is within 100 blocks of the new position
  (`world/tick.go:182`).
* `pos0` and the inputs start at zero: a player who has reported nothing yet is
  moved to (0, 0, 0) by the first tick, even when that tick also asks its client to return
  to where it joined; the answer brings it back.
* A rescue from the void changes `Position` and not `pos0`, and the entity pass of the
  same tick undoes it (`world/tick.go:198`); the player is rescued by the answer to the teleport.
* The answer to a /tp can replace the one a pending teleport waits for;
  if the client has answered everything, the teleport stays pending and the player's
  reports are ignored (`client/client.go:172`). `TeleportsSettle` excepts players who used /tp.
* A /tp handled after its player's removal puts a ghost back into a viewer's box, where
  it stays in the list; `GhostsOutside` speaks of players whose handlers are done.
* The boxes are compared without z (`world/internal/bvh/vector.go:57`), and `Find`
  visits every node (it uses the boxes of leaves only), so that an inner box
  that is too large costs the search for siblings, not the result.
* Block states stored with 15 bits are read back from a file as 16, biomes with
  3 bits as 4 (`level/bitstorage.go:75`); the server does not load chunks from files.
* `radiusIdx` holds the index of the last position of a radius where its comment says the
  count (`world/loader.go:84`, 109): one chunk of the outermost ring is never loaded.
* `Session.verifyChain` asks for a last message, so that no session accepts a first one.
* `MessageBody` unpacking may take an empty slot of the cache for a signature
  (`chat/sign/sign.go:53`).

## 7. Not modelled, and coverage

Most of the repository's lines are data: generated tables of items, blocks,
sounds, registries and packet numbers (`data/`, `level/block`, `level/component`), which no
definition could stand for. Then come codecs without state (NBT, text
components, packet field types, entity metadata), start-up and HTTP clients. The
map therefore covers a small share of all lines, and most of the lines in
which something is ordered, shared, retried or updated in place. `PROJECT.json` gives the reason for each
component; those that contain control worth a note:

* Login and configuration run in a fixed order in one goroutine per connection. What
  follows from a failed configuration (`server/server.go:93`) is `AcceptPlayer` on a connection
  that may be dead, which `PlayerSession` has.
* Packet framing and compression: reads and writes of one goroutine each, no state but the threshold.
* The command graph, RCON, the message chain of `chat/sign/session.go` and the
  inventories: sequential, and (but for the inventories) nobody in the repository calls them.
* Chunk unloading and the reading of players and chunks from files are commented out in the source.

## 8. What could follow

1. `LoadOrder`: `loadList` and `radiusIdx` against the positions within a radius, and the
   chunk of a coordinate, as definitions that give `ChunkLoading` its `Offsets`.
2. `EntityTracking` and `ChunkLoading` composed over one tick and one queue of finite
   capacity per client, so that it is their own traffic that fills it.
3. Login in front of `PlayerSession`, with the first look at the player list.
