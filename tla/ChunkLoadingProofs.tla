------------------------- MODULE ChunkLoadingProofs -------------------------
(***************************************************************************)
(* ChunkLoading proved for any set of clients and editors, any positions   *)
(* and any loading order without repetitions: the loaders and the viewers  *)
(* agree, neither panic happens, and no edit is missed.                    *)
(***************************************************************************)
EXTENDS ChunkLoading, TLAPS

\* Where the tick goroutine can be, and with what in hand: nothing outside the
\* tick, otherwise loaders of present players only.
TickInv ==
  /\ phase \in {"idle", "update"} => queue = {} /\ todo = {}
  /\ todo \subseteq players
  /\ \A q \in queue : q[1] \in players
  /\ \A q, r \in queue : q[1] = r[1]

\* The entries of a loadQueue are still to be loaded; during ViewChunkLoad all
\* but the one being shown.
QueueInv ==
  \A q \in queue : View(q) \in loaded => phase = "view" /\ IsNext(q)

\* The inductive invariant.
IInv ==
  /\ TypeOK
  /\ TickInv
  /\ QueueInv
  /\ ViewersMatchLoaders
  /\ NeverPanics
  /\ CopiesCurrent

----------------------------------------------------------------------------
(* Facts about the loading order *)

LEMMA Cancellation ==
  ASSUME NEW x \in Int, NEW y \in Int, NEW z \in Int, x + y = x + z
  PROVE  y = z
OBVIOUS

\* Distinct entries of one loader's queue are about distinct chunks.
LEMMA ViewInjective ==
  ASSUME TypeOK, TickInv, NEW q \in queue, NEW r \in queue, View(q) = View(r)
  PROVE  q = r
<1>1. /\ q[1] \in Client /\ q[2] \in DOMAIN Offsets
      /\ r[1] \in Client /\ r[2] \in DOMAIN Offsets
      /\ q = <<q[1], q[2]>> /\ r = <<r[1], r[2]>>
  BY DEF TypeOK
<1>2. q[1] = r[1]
  BY DEF TickInv
<1>3. Offsets[q[2]] = Offsets[r[2]]
  <2>1. Offsets[q[2]] \in Int \X Int /\ Offsets[r[2]] \in Int \X Int
    BY <1>1, OffsetsAssumption DEF Pos
  <2>2. chunkPos[q[1]] \in Int \X Int
    BY <1>1, CenterAssumption DEF TypeOK, Pos
  <2>3. /\ chunkPos[q[1]][1] + Offsets[q[2]][1] = chunkPos[q[1]][1] + Offsets[r[2]][1]
        /\ chunkPos[q[1]][2] + Offsets[q[2]][2] = chunkPos[q[1]][2] + Offsets[r[2]][2]
    BY <1>2 DEF View, At, Around
  <2> DEFINE a == Offsets[q[2]]
             b == Offsets[r[2]]
             k == chunkPos[q[1]]
  <2>4. a[1] = b[1] /\ a[2] = b[2]
    <3>1. a[1] \in Int /\ a[2] \in Int /\ b[1] \in Int /\ b[2] \in Int
      BY <2>1
    <3>2. k[1] \in Int /\ k[2] \in Int
      BY <2>2
    <3> HIDE DEF a, b, k
    <3>3. k[1] + a[1] = k[1] + b[1] /\ k[2] + a[2] = k[2] + b[2]
      BY <2>3 DEF a, b, k
    <3> QED
      BY <3>1, <3>2, <3>3, Cancellation
  <2>5. a = <<a[1], a[2]>> /\ b = <<b[1], b[2]>>
    BY <2>1
  <2> QED
    BY <2>4, <2>5
<1>4. q[2] = r[2]
  BY <1>1, <1>3, OffsetsAssumption
<1> QED
  BY <1>1, <1>2, <1>4

\* The next entry of a queue is unique.
LEMMA NextUnique ==
  ASSUME TypeOK, TickInv, NEW q \in queue, NEW r \in queue, IsNext(q), IsNext(r)
  PROVE  q = r
<1>1. /\ q[2] \in Int /\ r[2] \in Int
      /\ q = <<q[1], q[2]>> /\ r = <<r[1], r[2]>>
  BY OffsetsAssumption DEF TypeOK
<1>2. q[2] <= r[2] /\ r[2] <= q[2]
  BY DEF IsNext
<1>3. q[1] = r[1]
  BY DEF TickInv
<1> QED
  BY <1>1, <1>2, <1>3

\* Chunk positions are pairs of integers.
LEMMA AroundType ==
  ASSUME NEW k \in Center, NEW i \in DOMAIN Offsets
  PROVE  Around(k, i) \in Pos
<1>1. k \in Int \X Int /\ Offsets[i] \in Int \X Int
  BY CenterAssumption, OffsetsAssumption DEF Pos
<1> QED
  BY <1>1 DEF Around, Pos

LEMMA ViewType ==
  ASSUME TypeOK, NEW q \in queue
  PROVE  View(q) \in Client \X Pos
<1>1. q[1] \in Client /\ q[2] \in DOMAIN Offsets
  BY DEF TypeOK
<1>2. At(q[1], q[2]) \in Pos
  BY <1>1, AroundType DEF At, TypeOK
<1> QED
  BY <1>1, <1>2 DEF View

\* The mark of an idle editor is no chunk position.
LEMMA NoChunkIsNoPos == NoChunk \notin Pos
<1>1. \A x \in Pos : Len(x) = 2
  BY DEF Pos
<1>2. Len(NoChunk) = 0
  BY DEF NoChunk
<1> QED
  BY <1>1, <1>2

----------------------------------------------------------------------------
(* The invariant is inductive *)

LEMMA InitInvariant == Init => IInv
BY CenterAssumption DEF Init, IInv, TypeOK, TickInv, QueueInv, ViewersMatchLoaders,
   NeverPanics, CopiesCurrent, Phase, NoChunk, Pos

LEMMA StepInvariant == IInv /\ [Next]_vars => IInv'
<1> SUFFICES ASSUME IInv, [Next]_vars PROVE IInv'
  OBVIOUS
<1> USE DEF IInv
<1>1. ASSUME NEW c \in Client, AddPlayer(c)
      PROVE  IInv'
  <2> USE <1>1 DEF AddPlayer, playerVars, chunkVars, copyVars, tickVars
  <2>1. TypeOK'
    BY DEF TypeOK, Phase
  <2>2. TickInv'
    BY DEF TickInv
  <2>3. QueueInv'
    BY DEF QueueInv, View, At, IsNext
  <2>4. ViewersMatchLoaders'
    BY DEF ViewersMatchLoaders
  <2>5. NeverPanics'
    BY DEF NeverPanics
  <2>6. CopiesCurrent'
    BY DEF CopiesCurrent, BeingLoaded, View, At, IsNext
  <2> QED
    BY <2>1, <2>2, <2>3, <2>4, <2>5, <2>6
<1>2. ASSUME NEW c \in Client, RemovePlayer(c)
      PROVE  IInv'
  <2> USE <1>2 DEF RemovePlayer, playerVars, chunkVars, copyVars, tickVars
  <2>1. TypeOK'
    BY DEF TypeOK, Phase
  <2>2. TickInv'
    BY DEF TickInv
  <2>3. QueueInv'
    BY DEF QueueInv, View, At, IsNext
  <2>4. ViewersMatchLoaders'
    BY DEF ViewersMatchLoaders
  <2>5. NeverPanics'
    BY DEF NeverPanics, ViewersMatchLoaders
  <2>6. CopiesCurrent'
    <3>1. \A v \in views' : v \in views /\ v[1] # c
      BY DEF ViewersMatchLoaders
    <3>2. \A v : ~BeingLoaded(v)
      BY DEF BeingLoaded
    <3> QED
      BY <3>1, <3>2 DEF CopiesCurrent
  <2> QED
    BY <2>1, <2>2, <2>3, <2>4, <2>5, <2>6
<1>3. ASSUME NEW c \in Client, Move(c)
      PROVE  IInv'
  <2> USE <1>3 DEF Move, playerVars, chunkVars, copyVars, tickVars
  <2>1. TypeOK'
    BY DEF TypeOK, Phase
  <2>2. TickInv'
    BY DEF TickInv
  <2>3. QueueInv'
    BY DEF QueueInv, View, At, IsNext
  <2>4. ViewersMatchLoaders'
    BY DEF ViewersMatchLoaders
  <2>5. NeverPanics'
    BY DEF NeverPanics
  <2>6. CopiesCurrent'
    BY DEF CopiesCurrent, BeingLoaded, View, At, IsNext
  <2> QED
    BY <2>1, <2>2, <2>3, <2>4, <2>5, <2>6
<1>4. ASSUME TickStart
      PROVE  IInv'
  <2> USE <1>4 DEF TickStart, playerVars, chunkVars, copyVars, tickVars
  <2>1. TypeOK'
    BY DEF TypeOK, Phase
  <2>2. TickInv'
    BY DEF TickInv
  <2>3. QueueInv'
    BY DEF QueueInv, TickInv
  <2>4. ViewersMatchLoaders'
    BY DEF ViewersMatchLoaders
  <2>5. NeverPanics'
    BY DEF NeverPanics
  <2>6. CopiesCurrent'
    BY DEF CopiesCurrent, BeingLoaded
  <2> QED
    BY <2>1, <2>2, <2>3, <2>4, <2>5, <2>6
<1>5. ASSUME NEW c \in todo, TakeLoader(c)
      PROVE  IInv'
  <2> USE <1>5 DEF TakeLoader, playerVars, chunkVars, copyVars, tickVars
  <2>1. TypeOK'
    <3>1. queue' \subseteq Client \X DOMAIN Offsets
      <4>1. c \in Client
        BY DEF TypeOK
      <4>2. \A q \in queue' : \E j \in DOMAIN Offsets : q = <<c, j>>
        OBVIOUS
      <4> QED
        BY <4>1, <4>2
    <3> QED
      BY <3>1 DEF TypeOK, Phase
  <2>2. TickInv'
    <3>1. ASSUME NEW q \in queue' PROVE q[1] = c
      <4>1. PICK j \in DOMAIN Offsets : q = <<c, j>>
        OBVIOUS
      <4> QED
        BY <4>1
    <3>2. c \in players /\ phase' = "load"
      BY DEF TickInv
    <3>3. todo' \subseteq players'
      BY DEF TickInv
    <3> QED
      BY <3>1, <3>2, <3>3 DEF TickInv
  <2>3. QueueInv'
    <3> SUFFICES ASSUME NEW q \in queue', View(q)' \in loaded' PROVE FALSE
      BY DEF QueueInv
    <3>1. PICK j \in DOMAIN Offsets : <<c, At(c, j)>> \notin loaded /\ q = <<c, j>>
      OBVIOUS
    <3> QED
      BY <3>1 DEF View, At
  <2>4. ViewersMatchLoaders'
    BY DEF ViewersMatchLoaders
  <2>5. NeverPanics'
    BY DEF NeverPanics
  <2>6. CopiesCurrent'
    BY DEF CopiesCurrent, BeingLoaded, View, At, IsNext
  <2> QED
    BY <2>1, <2>2, <2>3, <2>4, <2>5, <2>6
<1>6. ASSUME LimiterRefuses
      PROVE  IInv'
  <2> USE <1>6 DEF LimiterRefuses, playerVars, chunkVars, copyVars, tickVars
  <2>1. TypeOK'
    BY DEF TypeOK, Phase
  <2>2. TickInv'
    BY DEF TickInv
  <2>3. QueueInv'
    BY DEF QueueInv, View, At, IsNext
  <2>4. ViewersMatchLoaders'
    BY DEF ViewersMatchLoaders
  <2>5. NeverPanics'
    BY DEF NeverPanics
  <2>6. CopiesCurrent'
    BY DEF CopiesCurrent, BeingLoaded, View, At, IsNext
  <2> QED
    BY <2>1, <2>2, <2>3, <2>4, <2>5, <2>6
<1>7. ASSUME NEW q \in queue, LoadNext(q)
      PROVE  IInv'
  <2> USE <1>7 DEF LoadNext, playerVars, chunkVars, copyVars, tickVars
  <2>1. TypeOK'
    <3>1. View(q) \in Client \X Pos
      BY ViewType
    <3>2. View(q)[2] \in Pos
      BY <3>1
    <3> QED
      BY <3>1, <3>2 DEF TypeOK, Phase
  <2>2. TickInv'
    BY DEF TickInv
  <2>3. QueueInv'
    <3> SUFFICES ASSUME NEW r \in queue, View(r)' \in loaded' PROVE IsNext(r)'
      BY DEF QueueInv
    <3>1. View(r)' = View(r) /\ IsNext(q)'
      BY DEF View, At, IsNext
    <3>2. View(r) \notin loaded
      BY DEF QueueInv
    <3>3. r = q
      BY <3>1, <3>2, ViewInjective
    <3> QED
      BY <3>1, <3>3
  <2>4. ViewersMatchLoaders'
    <3>1. views' = loaded'
      BY DEF ViewersMatchLoaders
    <3>2. View(q)[1] \in players /\ View(q)[2] \in chunks'
      BY DEF View, TickInv
    <3> QED
      BY <3>1, <3>2 DEF ViewersMatchLoaders
  <2>5. NeverPanics'
    BY DEF NeverPanics, QueueInv, ViewersMatchLoaders
  <2>6. CopiesCurrent'
    <3>1. \A v : BeingLoaded(v)' <=> v = View(q)
      <4>1. \A r \in queue : IsNext(r)' => r = q
        BY NextUnique DEF IsNext
      <4>2. View(q)' = View(q) /\ IsNext(q)'
        BY DEF View, At, IsNext
      <4> QED
        BY <4>1, <4>2 DEF BeingLoaded
    <3>2. \A v : ~BeingLoaded(v)
      BY DEF BeingLoaded
    <3> QED
      BY <3>1, <3>2 DEF CopiesCurrent
  <2> QED
    BY <2>1, <2>2, <2>3, <2>4, <2>5, <2>6
<1>8. ASSUME NEW q \in queue, NEW dropped \in SUBSET Slow, SendLoaded(q, dropped)
      PROVE  IInv'
  <2> USE <1>8 DEF SendLoaded, playerVars, chunkVars, copyVars, tickVars
  <2>1. TypeOK'
    <3>1. View(q) \in Client \X Pos
      BY ViewType
    <3>2. View(q)[2] \in Pos /\ q[1] \in Client
      BY <3>1 DEF TypeOK
    <3>3. fresh' \subseteq Client \X Pos /\ lost' \subseteq Client \X Pos
      BY <3>2, SlowAssumption DEF TypeOK, Deliver
    <3> QED
      BY <3>3 DEF TypeOK, Phase
  <2>2. TickInv'
    BY DEF TickInv
  <2>3. QueueInv'
    <3> SUFFICES ASSUME NEW r \in queue', View(r)' \in loaded' PROVE FALSE
      BY DEF QueueInv
    <3>1. View(r)' = View(r) /\ r \in queue /\ r # q
      BY DEF View, At
    <3>2. IsNext(r)
      BY <3>1 DEF QueueInv
    <3> QED
      BY <3>1, <3>2, NextUnique
  <2>4. ViewersMatchLoaders'
    BY DEF ViewersMatchLoaders
  <2>5. NeverPanics'
    BY DEF NeverPanics
  <2>6. CopiesCurrent'
    <3>1. \A v : BeingLoaded(v) => v = View(q)
      BY NextUnique DEF BeingLoaded
    <3>2. View(q) \in fresh' \/ View(q) \in lost'
      BY DEF Deliver, View
    <3>3. \A v : v \in fresh => v \in fresh'
      BY DEF Deliver
    <3>4. \A v : v \in lost => v \in lost' \/ v \in fresh'
      BY DEF Deliver
    <3> QED
      BY <3>1, <3>2, <3>3, <3>4 DEF CopiesCurrent
  <2> QED
    BY <2>1, <2>2, <2>3, <2>4, <2>5, <2>6
<1>9. ASSUME LoadEnd
      PROVE  IInv'
  <2> USE <1>9 DEF LoadEnd, playerVars, chunkVars, copyVars, tickVars
  <2>1. TypeOK'
    BY DEF TypeOK, Phase
  <2>2. TickInv'
    BY DEF TickInv
  <2>3. QueueInv'
    BY DEF QueueInv, View, At, IsNext
  <2>4. ViewersMatchLoaders'
    BY DEF ViewersMatchLoaders
  <2>5. NeverPanics'
    BY DEF NeverPanics
  <2>6. CopiesCurrent'
    BY DEF CopiesCurrent, BeingLoaded, View, At, IsNext
  <2> QED
    BY <2>1, <2>2, <2>3, <2>4, <2>5, <2>6
<1>10. ASSUME NEW p \in refresh, NEW dropped \in SUBSET Slow, Resend(p, dropped)
      PROVE  IInv'
  <2> USE <1>10 DEF Resend, playerVars, chunkVars, copyVars, tickVars
  <2>1. TypeOK'
    <3>1. ViewersOf(p) \subseteq Client /\ p \in Pos
      BY DEF TypeOK, ViewersOf
    <3>2. fresh' \subseteq Client \X Pos /\ lost' \subseteq Client \X Pos /\ unsent' \subseteq Pos
      BY <3>1 DEF TypeOK, UpdateToViewers, Deliver
    <3> QED
      BY <3>2 DEF TypeOK, Phase
  <2>2. TickInv'
    BY DEF TickInv
  <2>3. QueueInv'
    BY DEF QueueInv, View, At, IsNext
  <2>4. ViewersMatchLoaders'
    BY DEF ViewersMatchLoaders
  <2>5. NeverPanics'
    BY DEF NeverPanics
  <2>6. CopiesCurrent'
    <3> SUFFICES ASSUME NEW v \in views
                 PROVE  \/ v \in fresh' \/ v \in lost' \/ BeingLoaded(v)'
                        \/ (\E d \in Editor : editing'[d] = v[2]) \/ v[2] \in unsent'
      BY DEF CopiesCurrent
    <3>1. CASE v[2] = p
      <4>1. v[1] \in ViewersOf(p) /\ v = <<v[1], p>>
        BY <3>1 DEF TypeOK, ViewersOf
      <4> QED
        BY <4>1 DEF UpdateToViewers, Deliver
    <3>2. CASE v[2] # p
      <4>1. v \in fresh => v \in fresh'
        BY DEF UpdateToViewers, Deliver
      <4>2. v \in lost => v \in lost' \/ v \in fresh'
        BY DEF UpdateToViewers, Deliver
      <4>3. BeingLoaded(v) => BeingLoaded(v)'
        BY DEF BeingLoaded, View, At, IsNext
      <4>4. v[2] \in unsent => v[2] \in unsent'
        BY <3>2 DEF UpdateToViewers
      <4>5. (\E d \in Editor : editing[d] = v[2]) => (\E d \in Editor : editing'[d] = v[2])
        BY <3>2
      <4> QED
        BY <4>1, <4>2, <4>3, <4>4, <4>5 DEF CopiesCurrent
    <3> QED
      BY <3>1, <3>2
  <2> QED
    BY <2>1, <2>2, <2>3, <2>4, <2>5, <2>6
<1>11. ASSUME UpdateEnd
      PROVE  IInv'
  <2> USE <1>11 DEF UpdateEnd, playerVars, chunkVars, copyVars, tickVars
  <2>1. TypeOK'
    BY DEF TypeOK, Phase
  <2>2. TickInv'
    BY DEF TickInv
  <2>3. QueueInv'
    BY DEF QueueInv, View, At, IsNext
  <2>4. ViewersMatchLoaders'
    BY DEF ViewersMatchLoaders
  <2>5. NeverPanics'
    BY DEF NeverPanics
  <2>6. CopiesCurrent'
    BY DEF CopiesCurrent, BeingLoaded, View, At, IsNext
  <2> QED
    BY <2>1, <2>2, <2>3, <2>4, <2>5, <2>6
<1>12. ASSUME NEW e \in Editor, NEW p \in Editable, Edit(e, p)
      PROVE  IInv'
  <2> USE <1>12 DEF Edit, playerVars, chunkVars, copyVars, tickVars
  <2>1. TypeOK'
    BY EditableAssumption DEF TypeOK, SetBlock
  <2>2. TickInv'
    BY DEF TickInv
  <2>3. QueueInv'
    BY DEF QueueInv, View, At, IsNext
  <2>4. ViewersMatchLoaders'
    BY DEF ViewersMatchLoaders
  <2>5. NeverPanics'
    BY DEF NeverPanics
  <2>6. CopiesCurrent'
    <3> SUFFICES ASSUME NEW v \in views
                 PROVE  \/ v \in fresh' \/ v \in lost' \/ BeingLoaded(v)'
                        \/ (\E d \in Editor : editing'[d] = v[2]) \/ v[2] \in unsent'
      BY DEF CopiesCurrent
    <3>1. v \in fresh => v \in fresh' \/ v[2] = p
      BY DEF SetBlock
    <3>2. BeingLoaded(v) => BeingLoaded(v)'
      BY DEF BeingLoaded, View, At, IsNext
    <3>3. (\E d \in Editor : editing[d] = v[2]) \/ v[2] = p
           => \E d \in Editor : editing'[d] = v[2]
      <4>1. v[2] \in Int \X Int
        BY DEF TypeOK, Pos
      <4>2. editing[e] # v[2]
        BY <4>1, NoChunkIsNoPos DEF Pos
      <4>3. editing' = [editing EXCEPT ![e] = p] /\ editing \in [Editor -> Pos \cup {NoChunk}]
        BY DEF TypeOK
      <4> QED
        BY <4>2, <4>3
    <3> QED
      BY <3>1, <3>2, <3>3 DEF CopiesCurrent
  <2> QED
    BY <2>1, <2>2, <2>3, <2>4, <2>5, <2>6
<1>13. ASSUME NEW e \in Editor, NEW dropped \in SUBSET Slow, SendEdit(e, dropped)
      PROVE  IInv'
  <2> USE <1>13 DEF SendEdit, playerVars, chunkVars, copyVars, tickVars
  <2>1. TypeOK'
    <3>1. ViewersOf(editing[e]) \subseteq Client /\ editing[e] \in Pos
      BY DEF TypeOK, ViewersOf, NoChunk
    <3>2. fresh' \subseteq Client \X Pos /\ lost' \subseteq Client \X Pos /\ unsent' \subseteq Pos
      BY <3>1 DEF TypeOK, UpdateToViewers, Deliver
    <3> QED
      BY <3>2 DEF TypeOK, Phase
  <2>2. TickInv'
    BY DEF TickInv
  <2>3. QueueInv'
    BY DEF QueueInv, View, At, IsNext
  <2>4. ViewersMatchLoaders'
    BY DEF ViewersMatchLoaders
  <2>5. NeverPanics'
    BY DEF NeverPanics
  <2>6. CopiesCurrent'
    <3> SUFFICES ASSUME NEW v \in views
                 PROVE  \/ v \in fresh' \/ v \in lost' \/ BeingLoaded(v)'
                        \/ (\E d \in Editor : editing'[d] = v[2]) \/ v[2] \in unsent'
      BY DEF CopiesCurrent
    <3>1. CASE v[2] = editing[e]
      <4>1. v[1] \in ViewersOf(editing[e]) /\ v = <<v[1], editing[e]>>
        BY <3>1 DEF TypeOK, ViewersOf
      <4> QED
        BY <4>1 DEF UpdateToViewers, Deliver
    <3>2. CASE v[2] # editing[e]
      <4>1. v \in fresh => v \in fresh'
        BY DEF UpdateToViewers, Deliver
      <4>2. v \in lost => v \in lost' \/ v \in fresh'
        BY DEF UpdateToViewers, Deliver
      <4>3. BeingLoaded(v) => BeingLoaded(v)'
        BY DEF BeingLoaded, View, At, IsNext
      <4>4. v[2] \in unsent => v[2] \in unsent'
        BY <3>2 DEF UpdateToViewers
      <4>5. (\E d \in Editor : editing[d] = v[2]) => (\E d \in Editor : editing'[d] = v[2])
        BY <3>2 DEF TypeOK
      <4> QED
        BY <4>1, <4>2, <4>3, <4>4, <4>5 DEF CopiesCurrent
    <3> QED
      BY <3>1, <3>2
  <2> QED
    BY <2>1, <2>2, <2>3, <2>4, <2>5, <2>6
<1>14. ASSUME NEW p \in Editable, Command(p)
      PROVE  IInv'
  <2> USE <1>14 DEF Command, playerVars, chunkVars, copyVars, tickVars
  <2>1. TypeOK'
    BY EditableAssumption DEF TypeOK, SetBlock
  <2>2. TickInv'
    BY DEF TickInv
  <2>3. QueueInv'
    BY DEF QueueInv, View, At, IsNext
  <2>4. ViewersMatchLoaders'
    BY DEF ViewersMatchLoaders
  <2>5. NeverPanics'
    BY DEF NeverPanics
  <2>6. CopiesCurrent'
    <3> SUFFICES ASSUME NEW v \in views
                 PROVE  \/ v \in fresh' \/ v \in lost' \/ BeingLoaded(v)'
                        \/ (\E d \in Editor : editing'[d] = v[2]) \/ v[2] \in unsent'
      BY DEF CopiesCurrent
    <3>1. v \in fresh => v \in fresh' \/ v[2] = p
      BY DEF SetBlock
    <3>2. BeingLoaded(v) => BeingLoaded(v)'
      BY DEF BeingLoaded, View, At, IsNext
    <3>3. v[2] \in unsent \/ v[2] = p => v[2] \in unsent'
      OBVIOUS
    <3> QED
      BY <3>1, <3>2, <3>3 DEF CopiesCurrent
  <2> QED
    BY <2>1, <2>2, <2>3, <2>4, <2>5, <2>6
<1>15. CASE UNCHANGED vars
  BY <1>15 DEF vars, playerVars, chunkVars, copyVars, tickVars, TypeOK, TickInv, QueueInv, ViewersMatchLoaders, NeverPanics,
     CopiesCurrent, BeingLoaded, View, At, IsNext
<1> QED
  BY <1>1, <1>2, <1>3, <1>4, <1>5, <1>6, <1>7, <1>8, <1>9, <1>10, <1>11, <1>12, <1>13, <1>14, <1>15 DEF Next, Tick

----------------------------------------------------------------------------
(* Theorems *)

\* The inductive invariant holds in every reachable state.
THEOREM Invariant == Spec => []IInv
<1>1. Init => IInv
  BY InitInvariant
<1>2. IInv /\ [Next]_vars => IInv'
  BY StepInvariant
<1> QED
  BY <1>1, <1>2, PTL DEF Spec

\* The state of the chunk loading code keeps its types.
THEOREM TypeCorrectness == Spec => []TypeOK
<1>1. IInv => TypeOK
  BY DEF IInv
<1> QED
  BY <1>1, Invariant, PTL

\* A chunk's viewers are exactly the present players whose loader has it,
\* whatever ticks, joins, leaves and moves interleave.
THEOREM ViewersMatch == Spec => []ViewersMatchLoaders
<1>1. IInv => ViewersMatchLoaders
  BY DEF IInv
<1> QED
  BY <1>1, Invariant, PTL

\* Neither panic of the chunk loading code is reachable.
THEOREM NoPanic == Spec => []NeverPanics
<1>1. IInv => NeverPanics
  BY DEF IInv
<1> QED
  BY <1>1, Invariant, PTL

\* No block edit is missed by a viewer, whichever critical sections of the
\* chunk locks it falls between.
THEOREM NoMissedEdit == Spec => []CopiesCurrent
<1>1. IInv => CopiesCurrent
  BY DEF IInv
<1> QED
  BY <1>1, Invariant, PTL

=============================================================================
