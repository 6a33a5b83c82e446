--------------------------- MODULE FurnitureProofs ---------------------------
(***************************************************************************)
(* Theorems about FurnitureSelection and FurnitureReplication for every    *)
(* number of players, pieces, slots, calls and updates in flight; one of   *)
(* them says that FurnitureSelection implements FurnitureLock.             *)
(***************************************************************************)
EXTENDS FurnitureReplication, SelectionRefinement, SequenceTheorems,
        WellFoundedInduction, TLAPS

-----------------------------------------------------------------------------
(* The pool of slots                                                       *)

\* The first free index of a pool that is not full is one of its free
\* indices, and the least of them (TArray::IndexOfByKey).
LEMMA FirstFreeIsFree ==
    ASSUME NEW pool, FreeIndices(pool) # {}
    PROVE  /\ FirstFree(pool) \in FreeIndices(pool)
           /\ \A j \in FreeIndices(pool) : FirstFree(pool) <= j
<1>1. FreeIndices(pool) \subseteq Nat
  BY MaxPlayersAssumption DEF FreeIndices, PoolIndex
<1>2. PICK i \in FreeIndices(pool) :
          \A j \in FreeIndices(pool) : ~(<<j, i>> \in OpToRel(<, Nat))
  BY <1>1, NatLessThanWellFounded, WFMin
<1>3. OpToRel(<, Nat) = {ss \in Nat \X Nat : ss[1] < ss[2]}
  BY DEF OpToRel
<1>4. ASSUME NEW j \in FreeIndices(pool) PROVE i <= j
  <2>1. <<j, i>> \in Nat \X Nat /\ j \in Nat /\ i \in Nat
    BY <1>1
  <2>2. ~(j < i)
    BY <1>2, <1>3, <2>1
  <2>3. QED
    BY <2>1, <2>2
<1>5. QED
  BY <1>4 DEF FirstFree

\* Slot numbers are integers, and 0 is neither one of them nor -1.
LEMMA SlotNumbers ==
    /\ StencilSlots \subseteq Int /\ NoStencilSlot \in Int
    /\ 0 \notin StencilSlots /\ NoStencilSlot # 0
<1>1. NoStencilSlot \in Int /\ NoStencilSlot # 0
  BY DEF NoStencilSlot
<1>2. StencilSlots \subseteq Int /\ 0 \notin StencilSlots
  BY MaxPlayersAssumption DEF StencilSlots, MinStencilSlot
<1>3. QED
  BY <1>1, <1>2

LEMMA SlotIsInteger ==
    ASSUME NEW s \in StencilSlots \cup {0, NoStencilSlot}
    PROVE  s \in Int
  BY SlotNumbers

\* Reserving returns a slot number of the pool or -1, and keeps the pool a
\* pool.
LEMMA ReserveType ==
    ASSUME NEW pool \in [PoolIndex -> BOOLEAN]
    PROVE  /\ ReservedSlot(pool) \in StencilSlots \cup {NoStencilSlot}
           /\ ReserveStencilSlot(pool) \in [PoolIndex -> BOOLEAN]
<1>1. CASE FreeIndices(pool) = {}
  BY <1>1 DEF ReservedSlot, ReserveStencilSlot
<1>2. CASE FreeIndices(pool) # {}
  <2>1. FirstFree(pool) \in PoolIndex
    BY <1>2, FirstFreeIsFree DEF FreeIndices
  <2>2. FirstFree(pool) + MinStencilSlot \in StencilSlots
    BY <2>1, MaxPlayersAssumption DEF PoolIndex, StencilSlots, MinStencilSlot
  <2>3. QED
    BY <1>2, <2>1, <2>2 DEF ReservedSlot, ReserveStencilSlot
<1>3. QED
  BY <1>1, <1>2

-----------------------------------------------------------------------------
(* Type correctness                                                        *)

LEMMA SlotsAfterType ==
    ASSUME TypeOK, NEW p \in Player, NEW f \in MaybeFurniture
    PROVE  /\ SlotsAfter(p, f) \in [Furniture -> StencilSlots \cup {0, NoStencilSlot}]
           /\ SelectionAfter(p, f) \in MaybeFurniture
  BY SelectionAssumption
  DEF TypeOK, SlotsAfter, SelectionAfter, OnDeselected, OnSelected,
      IsSelectableFurniture, MaybeFurniture

LEMMA RequestQueueType ==
    ASSUME NEW q \in Seq(MaybeFurniture), q # <<>>
    PROVE  Head(q) \in MaybeFurniture /\ Tail(q) \in Seq(MaybeFurniture)
  BY HeadTailProperties

LEMMA MoveQueueType ==
    ASSUME NEW q \in Seq(Move), q # <<>>
    PROVE  Head(q) \in Move /\ Tail(q) \in Seq(Move)
  BY HeadTailProperties

\* Every step keeps the variables typed.
LEMMA TypeOKStep == TypeOK /\ [Next]_vars => TypeOK'
<1> SUFFICES ASSUME TypeOK, [Next]_vars PROVE TypeOK'
  OBVIOUS
<1> USE DEF TypeOK
<1>1. ASSUME NEW p \in Player, Join(p) PROVE TypeOK'
  BY <1>1, ReserveType DEF Join, clientVars
<1>2. ASSUME NEW p \in Player, Leave(p) PROVE TypeOK'
  <2>1. ReleaseStencilSlot(used, stencil[p]) \in [PoolIndex -> BOOLEAN]
    BY DEF ReleaseStencilSlot
  <2>2. <<>> \in Seq(MaybeFurniture) /\ <<>> \in Seq(Move)
    OBVIOUS
  <2>3. QED
    BY <1>2, <2>1, <2>2 DEF Leave, MaybeFurniture
<1>3. ASSUME NEW p \in Player, ReceiveRequest(p) PROVE TypeOK'
  <2>1. Head(requests[p]) \in MaybeFurniture /\ Tail(requests[p]) \in Seq(MaybeFurniture)
    BY <1>3, RequestQueueType DEF ReceiveRequest
  <2>2. QED
    BY <1>3, <2>1, SlotsAfterType DEF ReceiveRequest
<1>4. ASSUME NEW p \in Player, ReceiveMove(p) PROVE TypeOK'
  <2>1. Head(moves[p]) \in Move /\ Tail(moves[p]) \in Seq(Move)
    BY <1>4, MoveQueueType DEF ReceiveMove
  <2>2. at' \in [Furniture -> Transform]
    BY <1>4, <2>1 DEF ReceiveMove, Move, MaybeFurniture, Transform
  <2>3. QED
    BY <1>4, <2>1, <2>2 DEF ReceiveMove
<1>5. ASSUME NEW p \in Player, LoseMove(p) PROVE TypeOK'
  BY <1>5, MoveQueueType DEF LoseMove, serverVars
<1>6. ASSUME NEW p \in Player, ClickNothing(p) PROVE TypeOK'
  BY <1>6 DEF ClickNothing, serverVars, MaybeFurniture
<1>7. ASSUME NEW p \in Player, HostClickNothing(p) PROVE TypeOK'
  BY <1>7, SlotsAfterType DEF HostClickNothing, MaybeFurniture
<1>8. ASSUME NEW p \in Player, NEW f \in Furniture, ClickFurniture(p, f)
      PROVE  TypeOK'
  BY <1>8 DEF ClickFurniture, serverVars, MaybeFurniture
<1>9. ASSUME NEW p \in Player, NEW f \in Furniture, HostClickFurniture(p, f)
      PROVE  TypeOK'
  BY <1>9, SlotsAfterType DEF HostClickFurniture, MaybeFurniture
<1>10. ASSUME NEW p \in Player, NEW c \in Component, NEW t \in Value, MoveFurniture(p, c, t)
       PROVE  TypeOK'
  <2>1. [of |-> clientSel[p], part |-> c, to |-> t] \in Move
    BY <1>10 DEF MoveFurniture, Move, MaybeFurniture
  <2>2. QED
    BY <1>10, <2>1 DEF MoveFurniture, serverVars
<1>11. ASSUME NEW p \in Player, NEW c \in Component, NEW t \in Value, HostMoveFurniture(p, c, t)
       PROVE  TypeOK'
  <2>1. at' \in [Furniture -> Transform]
    BY <1>11 DEF HostMoveFurniture, MaybeFurniture, Transform
  <2>2. QED
    BY <1>11, <2>1 DEF HostMoveFurniture, clientVars
<1>12. CASE UNCHANGED vars
  BY <1>12 DEF vars, serverVars, clientVars
<1>13. QED
  BY <1>1, <1>2, <1>3, <1>4, <1>5, <1>6, <1>7, <1>8, <1>9, <1>10, <1>11, <1>12
  DEF Next

LEMMA TypeOKInit == Init => TypeOK
  BY DEF Init, TypeOK, EmptyPool, MaybeFurniture

\* Every variable keeps its type, on a dedicated and on a listen server.
THEOREM TypeCorrect == Spec => []TypeOK
  BY TypeOKInit, TypeOKStep, PTL DEF Spec

-----------------------------------------------------------------------------
(* The slots of the players                                                *)

\* A connected player has a slot number or -1, never 0, and nobody else has
\* one.
StencilAssigned ==
    \A p \in Player : stencil[p] # 0 <=> p \in joined

PoolInv == TypeOK /\ PoolAgrees /\ StencilAssigned

LEMMA PoolInvInit == Init => PoolInv
  BY TypeOKInit DEF Init, PoolInv, PoolAgrees, StencilAssigned, EmptyPool

\* The pool is only touched when a player joins or leaves.
LEMMA PoolInvStep == PoolInv /\ [Next]_vars => PoolInv'
<1> SUFFICES ASSUME PoolInv, [Next]_vars PROVE PoolInv'
  OBVIOUS
<1>1. TypeOK /\ TypeOK'
  BY TypeOKStep DEF PoolInv
<1>2. ASSUME NEW p \in Player, Join(p)
      PROVE  PoolAgrees' /\ StencilAssigned'
  <2>1. \A q \in Player : stencil'[q] = IF q = p THEN ReservedSlot(used) ELSE stencil[q]
    BY <1>1, <1>2 DEF Join, TypeOK
  <2>2. ReservedSlot(used) # 0
    BY <1>1, ReserveType, SlotNumbers DEF TypeOK
  <2>3. StencilAssigned'
    BY <1>2, <2>1, <2>2 DEF Join, PoolInv, StencilAssigned
  <2>4. CASE FreeIndices(used) = {}
    <3>1. used' = used /\ ReservedSlot(used) = NoStencilSlot
      BY <1>2, <2>4 DEF Join, ReservedSlot, ReserveStencilSlot
    <3>2. \A i \in PoolIndex : i + MinStencilSlot # NoStencilSlot
      BY MaxPlayersAssumption DEF PoolIndex, MinStencilSlot, NoStencilSlot
    <3>3. QED
      BY <1>1, <1>2, <2>1, <2>3, <3>1, <3>2 DEF Join, PoolInv, PoolAgrees, TypeOK
  <2>5. CASE FreeIndices(used) # {}
    <3> DEFINE k == FirstFree(used)
    <3>1. k \in PoolIndex /\ ~used[k]
      BY <2>5, FirstFreeIsFree DEF FreeIndices
    <3>2. ReservedSlot(used) = k + MinStencilSlot
      BY <2>5 DEF ReservedSlot
    <3>3. \A i \in PoolIndex : used'[i] = (i = k \/ used[i])
      BY <1>1, <1>2, <2>5, <3>1 DEF Join, ReserveStencilSlot, TypeOK
    <3>4. \A q \in joined : stencil[q] # k + MinStencilSlot
      BY <3>1 DEF PoolInv, PoolAgrees
    <3> HIDE DEF k
    <3>5. \A i \in PoolIndex : i + MinStencilSlot = k + MinStencilSlot <=> i = k
      BY <3>1, MaxPlayersAssumption DEF PoolIndex, MinStencilSlot
    <3>6. joined' = joined \cup {p} /\ p \notin joined /\ joined \subseteq Player
      BY <1>1, <1>2 DEF Join, TypeOK
    <3>7. \A i \in PoolIndex :
              used'[i] <=> \E q \in joined' : stencil'[q] = i + MinStencilSlot
      BY <2>1, <3>2, <3>3, <3>5, <3>6 DEF PoolInv, PoolAgrees
    <3>8. \A q, r \in joined' :
              stencil'[q] = stencil'[r] /\ stencil'[q] # NoStencilSlot => q = r
      BY <2>1, <3>2, <3>4, <3>6 DEF PoolInv, PoolAgrees
    <3>9. QED
      BY <2>3, <3>7, <3>8 DEF PoolAgrees
  <2>6. QED
    BY <2>4, <2>5
<1>3. ASSUME NEW p \in Player, Leave(p)
      PROVE  PoolAgrees' /\ StencilAssigned'
  <2>1. \A q \in Player : stencil'[q] = IF q = p THEN 0 ELSE stencil[q]
    BY <1>1, <1>3 DEF Leave, TypeOK
  <2>2. joined' = joined \ {p} /\ p \in joined /\ joined \subseteq Player
    BY <1>1, <1>3 DEF Leave, TypeOK
  <2>3. \A i \in PoolIndex :
            used'[i] = (used[i] /\ i + MinStencilSlot # stencil[p])
    <3>1. used' = [used EXCEPT ![stencil[p] - MinStencilSlot] = FALSE]
      BY <1>3 DEF Leave, ReleaseStencilSlot
    <3>2. stencil[p] \in Int
      <4>1. stencil[p] \in StencilSlots \cup {0, NoStencilSlot}
        BY <1>1 DEF TypeOK
      <4>2. QED
        BY <4>1, SlotIsInteger
    <3>3. \A i \in PoolIndex :
              i = stencil[p] - MinStencilSlot <=> i + MinStencilSlot = stencil[p]
      BY <3>2, MaxPlayersAssumption DEF PoolIndex, MinStencilSlot
    <3>4. QED
      BY <1>1, <3>1, <3>3 DEF TypeOK
  <2>4. \A i \in PoolIndex : i + MinStencilSlot # NoStencilSlot
    BY MaxPlayersAssumption DEF PoolIndex, MinStencilSlot, NoStencilSlot
  <2>5. \A i \in PoolIndex :
            used'[i] <=> \E q \in joined' : stencil'[q] = i + MinStencilSlot
    <3> SUFFICES ASSUME NEW i \in PoolIndex
                 PROVE  used'[i] <=> \E q \in joined' : stencil'[q] = i + MinStencilSlot
      OBVIOUS
    <3>1. used[i] <=> \E q \in joined : stencil[q] = i + MinStencilSlot
      BY DEF PoolInv, PoolAgrees
    <3>2. CASE i + MinStencilSlot = stencil[p]
      <4>1. \A q \in joined' : stencil'[q] # i + MinStencilSlot
        BY <2>1, <2>2, <2>4, <3>2 DEF PoolInv, PoolAgrees
      <4>2. QED
        BY <2>3, <3>2, <4>1
    <3>3. CASE i + MinStencilSlot # stencil[p]
      BY <2>1, <2>2, <2>3, <3>1, <3>3
    <3>4. QED
      BY <3>2, <3>3
  <2>6. QED
    BY <2>1, <2>2, <2>5 DEF PoolInv, PoolAgrees, StencilAssigned
<1>4. ASSUME UNCHANGED <<joined, used, stencil>>
      PROVE  PoolAgrees' /\ StencilAssigned'
  BY <1>4 DEF PoolInv, PoolAgrees, StencilAssigned
<1>5. ASSUME NEW p \in Player,
             \/ ReceiveRequest(p) \/ ReceiveMove(p) \/ LoseMove(p)
             \/ ClickNothing(p) \/ HostClickNothing(p)
             \/ \E f \in Furniture : ClickFurniture(p, f) \/ HostClickFurniture(p, f)
             \/ \E c \in Component, t \in Value :
                     MoveFurniture(p, c, t) \/ HostMoveFurniture(p, c, t)
      PROVE  UNCHANGED <<joined, used, stencil>>
  BY <1>5
  DEF ReceiveRequest, ReceiveMove, LoseMove, ClickNothing, HostClickNothing,
      ClickFurniture, HostClickFurniture, MoveFurniture, HostMoveFurniture,
      serverVars
<1>6. UNCHANGED vars => UNCHANGED <<joined, used, stencil>>
  BY DEF vars, serverVars
<1>7. QED
  BY <1>1, <1>2, <1>3, <1>4, <1>5, <1>6 DEF Next, PoolInv

LEMMA PoolInvariant == Spec => []PoolInv
  BY PoolInvInit, PoolInvStep, PTL DEF Spec

\* No sequence of joins and departures leaks a slot of the pool or gives one
\* to two players.
THEOREM PoolAgreement == Spec => []PoolAgrees
<1>1. PoolInv => PoolAgrees
  BY DEF PoolInv
<1>2. QED
  BY <1>1, PoolInvariant, PTL

-----------------------------------------------------------------------------
(* The locks, without a listen-server host                                 *)

\* Nothing is in flight from a player who is not in the room.
AbsentAreQuiet ==
    \A p \in Player \ joined :
        /\ clientSel[p] = NoFurniture
        /\ requests[p] = <<>>
        /\ moves[p] = <<>>

\* LockMatchesSlot makes LockExclusive inductive: a piece that some pawn has
\* selected is not selectable.
LockInv == PoolInv /\ AbsentAreQuiet /\ LockExclusive /\ LockMatchesSlot

LEMMA LockInvInit == Init => LockInv
  BY PoolInvInit DEF Init, LockInv, AbsentAreQuiet, LockExclusive, LockMatchesSlot

\* A piece that is selectable is selected by no pawn.
LEMMA SelectableIsFree ==
    ASSUME LockInv, NEW f \in Furniture, IsSelectableFurniture(f)
    PROVE  \A p \in Player : serverSel[p] # f
  BY SelectionAssumption
  DEF LockInv, PoolInv, StencilAssigned, LockMatchesSlot, IsSelectableFurniture

\* Handling one call keeps the locks exclusive.
LEMMA ReceiveRequestKeepsLocks ==
    ASSUME LockInv, NEW p \in Player, ReceiveRequest(p)
    PROVE  LockExclusive' /\ LockMatchesSlot'
<1> DEFINE f == Head(requests[p])
<1>1. TypeOK
  BY DEF LockInv, PoolInv
<1>2. f \in MaybeFurniture
  BY <1>1, RequestQueueType DEF ReceiveRequest, TypeOK
<1>3. \A q \in Player : serverSel'[q] = IF q = p THEN SelectionAfter(p, f) ELSE serverSel[q]
  BY <1>1 DEF ReceiveRequest, TypeOK
<1>4. slot' = SlotsAfter(p, f) /\ UNCHANGED <<joined, stencil>>
  BY DEF ReceiveRequest
<1> HIDE DEF f
<1>5. CASE f # NoFurniture /\ ~IsSelectableFurniture(f)
  <2>1. serverSel' = serverSel /\ slot' = slot
    BY <1>1, <1>4, <1>5
    DEF SelectionAfter, SlotsAfter, ReceiveRequest, TypeOK, f
  <2>2. QED
    BY <1>4, <2>1 DEF LockInv, LockExclusive, LockMatchesSlot
<1>6. CASE f = NoFurniture
  <2>1. \A q \in Player : serverSel'[q] = IF q = p THEN NoFurniture ELSE serverSel[q]
    BY <1>3, <1>6 DEF SelectionAfter
  <2>2. LockExclusive'
    BY <2>1 DEF LockInv, LockExclusive
  <2>3. ASSUME NEW q \in Player, q # p, serverSel[q] # NoFurniture
        PROVE  slot'[serverSel[q]] = slot[serverSel[q]]
    <3>1. serverSel[q] \in Furniture /\ serverSel[p] \in MaybeFurniture
      BY <1>1, <2>3 DEF TypeOK, MaybeFurniture
    <3>2. serverSel[q] # serverSel[p]
      BY <2>3 DEF LockInv, LockExclusive
    <3>3. QED
      BY <1>1, <1>4, <1>6, <3>1, <3>2 DEF SlotsAfter, OnDeselected, TypeOK, MaybeFurniture
  <2>4. LockMatchesSlot'
    BY <1>4, <2>1, <2>3 DEF LockInv, LockMatchesSlot
  <2>5. QED
    BY <2>2, <2>4
<1>7. CASE f # NoFurniture /\ IsSelectableFurniture(f)
  <2>1. f \in Furniture /\ \A q \in Player : serverSel[q] # f
    BY <1>2, <1>7, SelectableIsFree DEF MaybeFurniture
  <2>2. \A q \in Player : serverSel'[q] = IF q = p THEN f ELSE serverSel[q]
    BY <1>3, <1>7 DEF SelectionAfter
  <2>3. LockExclusive'
    BY <2>1, <2>2 DEF LockInv, LockExclusive
  <2>4. slot' = OnSelected(OnDeselected(slot, serverSel[p]), f, stencil[p])
    BY <1>4, <1>7 DEF SlotsAfter
  <2>5. slot'[f] = stencil[p]
    BY <1>1, <2>1, <2>4 DEF OnSelected, OnDeselected, TypeOK
  <2>6. ASSUME NEW q \in Player, q # p, serverSel[q] # NoFurniture
        PROVE  slot'[serverSel[q]] = slot[serverSel[q]]
    <3>1. serverSel[q] \in Furniture /\ serverSel[p] \in MaybeFurniture
      BY <1>1, <2>6 DEF TypeOK, MaybeFurniture
    <3>2. serverSel[q] # serverSel[p] /\ serverSel[q] # f
      BY <2>1, <2>6 DEF LockInv, LockExclusive
    <3>3. QED
      BY <1>1, <2>4, <3>1, <3>2 DEF OnSelected, OnDeselected, TypeOK, MaybeFurniture
  <2>7. p \in joined
    <3>1. requests[p] # <<>>
      BY DEF ReceiveRequest
    <3>2. QED
      BY <3>1 DEF LockInv, AbsentAreQuiet
  <2>8. LockMatchesSlot'
    BY <1>4, <2>2, <2>5, <2>6, <2>7 DEF LockInv, LockMatchesSlot
  <2>9. QED
    BY <2>3, <2>8
<1>8. QED
  BY <1>5, <1>6, <1>7

\* Every step of a room without a host keeps LockInv.
LEMMA LockInvStep ==
    ASSUME Host = NoPlayer
    PROVE  LockInv /\ [Next]_vars => LockInv'
<1> SUFFICES ASSUME LockInv, [Next]_vars PROVE LockInv'
  OBVIOUS
<1>1. TypeOK /\ PoolInv /\ PoolInv'
  BY PoolInvStep DEF LockInv, PoolInv
<1>2. Host \notin Player
  BY SelectionAssumption
<1>3. ASSUME NEW p \in Player, Join(p) PROVE LockInv'
  <2>1. \A q \in Player : q # p => stencil'[q] = stencil[q]
    BY <1>1, <1>3 DEF Join, TypeOK
  <2>2. serverSel[p] = NoFurniture
    BY <1>3 DEF Join, LockInv, LockMatchesSlot
  <2>3. QED
    BY <1>1, <1>3, <2>1, <2>2
    DEF Join, clientVars, LockInv, AbsentAreQuiet, LockExclusive, LockMatchesSlot
<1>4. ASSUME NEW p \in Player, Leave(p) PROVE LockInv'
  <2>1. \A q \in Player :
            /\ serverSel'[q] = IF q = p THEN NoFurniture ELSE serverSel[q]
            /\ q # p => stencil'[q] = stencil[q]
    BY <1>1, <1>4 DEF Leave, TypeOK
  <2>2. LockExclusive' /\ LockMatchesSlot'
    BY <1>4, <2>1 DEF Leave, LockInv, LockExclusive, LockMatchesSlot
  <2>3. AbsentAreQuiet'
    BY <1>1, <1>4 DEF Leave, LockInv, AbsentAreQuiet, TypeOK
  <2>4. QED
    BY <1>1, <2>2, <2>3 DEF LockInv
<1>5. ASSUME NEW p \in Player, ReceiveRequest(p) PROVE LockInv'
  <2>1. p \in joined
    BY <1>5 DEF ReceiveRequest, LockInv, AbsentAreQuiet
  <2>2. AbsentAreQuiet'
    BY <1>1, <1>5, <2>1 DEF ReceiveRequest, LockInv, AbsentAreQuiet, TypeOK
  <2>3. QED
    BY <1>1, <1>5, <2>2, ReceiveRequestKeepsLocks DEF LockInv
<1>6. ASSUME NEW p \in Player, ReceiveMove(p) \/ LoseMove(p) PROVE LockInv'
  <2>1. p \in joined
    BY <1>6 DEF ReceiveMove, LoseMove, LockInv, AbsentAreQuiet
  <2>2. AbsentAreQuiet'
    BY <1>1, <1>6, <2>1
    DEF ReceiveMove, LoseMove, serverVars, LockInv, AbsentAreQuiet, TypeOK
  <2>3. QED
    BY <1>1, <1>6, <2>2
    DEF ReceiveMove, LoseMove, serverVars, LockInv, LockExclusive, LockMatchesSlot
<1>7. ASSUME NEW p \in Player,
             \/ ClickNothing(p)
             \/ \E f \in Furniture : ClickFurniture(p, f)
             \/ \E c \in Component, t \in Value : MoveFurniture(p, c, t)
      PROVE  LockInv'
  <2>1. p \in joined
    BY <1>7 DEF ClickNothing, ClickFurniture, MoveFurniture, IsRemote
  <2>2. /\ UNCHANGED serverVars
        /\ \A q \in Player : q # p => /\ clientSel'[q] = clientSel[q]
                                      /\ requests'[q] = requests[q]
                                      /\ moves'[q] = moves[q]
    BY <1>1, <1>7 DEF ClickNothing, ClickFurniture, MoveFurniture, TypeOK
  <2>3. QED
    BY <1>1, <2>1, <2>2
    DEF serverVars, LockInv, AbsentAreQuiet, LockExclusive, LockMatchesSlot
<1>8. ASSUME NEW p \in Player,
             \/ HostClickNothing(p)
             \/ \E f \in Furniture : HostClickFurniture(p, f)
             \/ \E c \in Component, t \in Value : HostMoveFurniture(p, c, t)
      PROVE  LockInv'
  BY <1>2, <1>8 DEF HostClickNothing, HostClickFurniture, HostMoveFurniture
<1>9. CASE UNCHANGED vars
  BY <1>1, <1>9
  DEF vars, serverVars, clientVars, LockInv, AbsentAreQuiet, LockExclusive,
      LockMatchesSlot
<1>10. QED
  BY <1>3, <1>4, <1>5, <1>6, <1>7, <1>8, <1>9 DEF Next

\* On a dedicated server no piece is ever selected by two players, however
\* many of them there are and whatever calls are in flight.
THEOREM Exclusion ==
    ASSUME Host = NoPlayer
    PROVE  Spec => []LockExclusive
<1>1. LockInv => LockExclusive
  BY DEF LockInv
<1>2. QED
  BY <1>1, LockInvInit, LockInvStep, PTL DEF Spec

\* On a dedicated server the piece a player has selected carries the stencil
\* slot of that player.
THEOREM SlotNamesHolder ==
    ASSUME Host = NoPlayer
    PROVE  Spec => []LockMatchesSlot
<1>1. LockInv => LockMatchesSlot
  BY DEF LockInv
<1>2. QED
  BY <1>1, LockInvInit, LockInvStep, PTL DEF Spec

\* Only the handler of a selection call changes a lock.
LEMMA LocksChangeInHandler ==
    ASSUME Host = NoPlayer, [Next]_vars, slot' # slot
    PROVE  \E p \in Player : ReceiveRequest(p)
<1>1. Host \notin Player
  BY SelectionAssumption
<1>2. QED
  BY <1>1
  DEF Next, Join, Leave, ReceiveMove, LoseMove, ClickNothing, HostClickNothing,
      ClickFurniture, HostClickFurniture, MoveFurniture, HostMoveFurniture,
      vars, serverVars, clientVars

\* Handling one call takes over nobody's lock.
LEMMA HandlerTakesNothingOver ==
    ASSUME LockInv, NEW p \in Player, ReceiveRequest(p)
    PROVE  NoTakeoverStep
<1> SUFFICES ASSUME NEW f \in Furniture, slot[f] # 0, slot'[f] # slot[f]
             PROVE  slot'[f] = 0 /\ \E q \in joined : serverSel[q] = f /\ serverSel'[q] # f
  BY DEF NoTakeoverStep
<1> DEFINE g == Head(requests[p])
<1>1. TypeOK
  BY DEF LockInv, PoolInv
<1>2. g \in MaybeFurniture
  BY <1>1, RequestQueueType DEF ReceiveRequest, TypeOK
<1>3. slot' = SlotsAfter(p, g) /\ serverSel'[p] = SelectionAfter(p, g)
  BY <1>1 DEF ReceiveRequest, TypeOK
<1> HIDE DEF g
<1>4. g # NoFurniture => IsSelectableFurniture(g)
  BY <1>3 DEF SlotsAfter
<1>5. f # g
  BY <1>4, SelectionAssumption DEF IsSelectableFurniture
<1>6. slot'[f] = OnDeselected(slot, serverSel[p])[f]
  <2>1. serverSel[p] \in MaybeFurniture
    BY <1>1 DEF TypeOK
  <2>2. QED
    BY <1>1, <1>2, <1>3, <1>4, <1>5, <2>1
    DEF SlotsAfter, OnSelected, OnDeselected, TypeOK, MaybeFurniture
<1>7. serverSel[p] = f /\ slot'[f] = 0
  BY <1>1, <1>6 DEF OnDeselected, TypeOK
<1>8. serverSel'[p] # f
  BY <1>3, <1>4, <1>5 DEF SelectionAfter
<1>9. p \in joined
  BY <1>7, SelectionAssumption DEF LockInv, LockMatchesSlot
<1>10. QED
  BY <1>7, <1>8, <1>9

\* On a dedicated server a lock is only given up by its holder, never taken.
THEOREM LocksAreNotTakenOver ==
    ASSUME Host = NoPlayer
    PROVE  Spec => NoTakeover
<1>1. LockInv /\ [Next]_vars => [NoTakeoverStep]_vars
  BY LocksChangeInHandler, HandlerTakesNothingOver DEF NoTakeoverStep
<1>2. QED
  BY <1>1, LockInvInit, LockInvStep, PTL DEF Spec, NoTakeover

\* On a dedicated server a piece is only moved by the player whose slot it
\* carries.
THEOREM OnlyHoldersMove ==
    ASSUME Host = NoPlayer
    PROVE  Spec => MovedByHolderOnly
<1>1. LockInv /\ [Next]_vars => [MovedByHolderStep]_vars
  <2> SUFFICES ASSUME LockInv, [Next]_vars, NEW f \in Furniture, at'[f] # at[f]
               PROVE  \E p \in joined : serverSel[p] = f /\ slot[f] = stencil[p]
    BY DEF MovedByHolderStep
  <2>1. Host \notin Player
    BY SelectionAssumption
  <2>2. PICK p \in Player : ReceiveMove(p)
    BY <2>1
    DEF Next, Join, Leave, ReceiveRequest, LoseMove, ClickNothing,
        HostClickNothing, ClickFurniture, HostClickFurniture, MoveFurniture,
        HostMoveFurniture, vars, serverVars, clientVars
  <2>3. serverSel[p] = f
    BY <2>2 DEF ReceiveMove, LockInv, PoolInv, TypeOK
  <2>4. QED
    BY <2>3, SelectionAssumption DEF LockInv, LockMatchesSlot
<1>2. QED
  BY <1>1, LockInvInit, LockInvStep, PTL DEF Spec, MovedByHolderOnly

-----------------------------------------------------------------------------
(* No ghost locks                                                          *)

\* The host's calls run in place.
HostSendsNothing == \A p \in Player : p = Host => requests[p] = <<>>

GhostInv == TypeOK /\ HostSendsNothing /\ NoGhostLock

\* The last call in flight after one more is sent, and after one is handled.
LEMMA LastOfAppend ==
    ASSUME NEW q \in Seq(MaybeFurniture), NEW f \in MaybeFurniture
    PROVE  Append(q, f) # <<>> /\ Append(q, f)[Len(Append(q, f))] = f
  BY AppendProperties

LEMMA LastOfTail ==
    ASSUME NEW q \in Seq(MaybeFurniture), q # <<>>
    PROVE  IF Tail(q) = <<>> THEN q[Len(q)] = Head(q)
                             ELSE Tail(q)[Len(Tail(q))] = q[Len(q)]
<1>1. /\ Tail(q) \in Seq(MaybeFurniture) /\ Len(Tail(q)) = Len(q) - 1
      /\ \A i \in 1 .. Len(Tail(q)) : Tail(q)[i] = q[i + 1]
      /\ Head(q) = q[1] /\ Len(q) \in Nat \ {0}
  BY HeadTailProperties, EmptySeq, LenProperties
<1>2. CASE Tail(q) = <<>>
  <2>1. Len(Tail(q)) = 0
    BY <1>2, EmptySeq
  <2>2. Len(q) = 1
    <3>1. ASSUME NEW n \in Nat, 0 = n - 1 PROVE n = 1
      BY <3>1
    <3>2. QED
      BY <1>1, <2>1, <3>1
  <2>3. QED
    BY <1>1, <1>2, <2>2
<1>3. CASE Tail(q) # <<>>
  <2>1. Len(Tail(q)) \in 1 .. Len(Tail(q))
    BY <1>1, <1>3, EmptySeq, LenProperties
  <2>2. QED
    BY <1>1, <1>3, <2>1
<1>4. QED
  BY <1>2, <1>3

LEMMA GhostInvStep == GhostInv /\ [Next]_vars => GhostInv'
<1> SUFFICES ASSUME GhostInv, [Next]_vars PROVE GhostInv'
  OBVIOUS
<1>1. TypeOK /\ TypeOK'
  BY TypeOKStep DEF GhostInv
<1>2. ASSUME NEW p \in Player, ReceiveRequest(p)
      PROVE  HostSendsNothing' /\ NoGhostLock'
  <2> DEFINE q == requests[p]
  <2>1. q \in Seq(MaybeFurniture) /\ q # <<>>
    BY <1>1, <1>2 DEF ReceiveRequest, TypeOK
  <2>2. /\ requests' = [requests EXCEPT ![p] = Tail(q)]
        /\ serverSel' = [serverSel EXCEPT ![p] = SelectionAfter(p, Head(q))]
        /\ clientSel' = clientSel
    BY <1>2 DEF ReceiveRequest
  <2>3. requests'[p] = Tail(q) /\ serverSel'[p] = SelectionAfter(p, Head(q))
    BY <1>1, <2>2 DEF TypeOK
  <2>4. \A r \in Player : r # p => /\ requests'[r] = requests[r]
                                   /\ serverSel'[r] = serverSel[r]
    BY <1>1, <2>2 DEF TypeOK
  <2>5. HostSendsNothing'
    BY <2>1, <2>4 DEF GhostInv, HostSendsNothing
  <2>6. ASSUME clientSel[p] = NoFurniture
        PROVE  FinalRequest(p)' = NoFurniture
    <3>1. q[Len(q)] = NoFurniture
      BY <2>1, <2>6 DEF GhostInv, NoGhostLock, FinalRequest
    <3>2. CASE Tail(q) = <<>>
      <4>1. Head(q) = NoFurniture
        BY <2>1, <3>1, <3>2, LastOfTail
      <4>2. serverSel'[p] = NoFurniture
        BY <2>3, <4>1 DEF SelectionAfter
      <4>3. QED
        BY <2>3, <3>2, <4>2 DEF FinalRequest
    <3>3. CASE Tail(q) # <<>>
      <4>1. Tail(q)[Len(Tail(q))] = NoFurniture
        BY <2>1, <3>1, <3>3, LastOfTail
      <4>2. QED
        BY <2>3, <3>3, <4>1 DEF FinalRequest
    <3>4. QED
      BY <3>2, <3>3
  <2>7. ASSUME NEW r \in Player, r # p, clientSel[r] = NoFurniture
        PROVE  FinalRequest(r)' = NoFurniture
    BY <2>4, <2>7 DEF GhostInv, NoGhostLock, FinalRequest
  <2>8. QED
    BY <2>2, <2>5, <2>6, <2>7 DEF NoGhostLock
<1>3. ASSUME NEW p \in Player, NEW f \in MaybeFurniture,
             /\ IsRemote(p)
             /\ requests' = [requests EXCEPT ![p] = Append(@, f)]
             /\ clientSel' = [clientSel EXCEPT ![p] = f]
             /\ UNCHANGED serverSel
      PROVE  HostSendsNothing' /\ NoGhostLock'
  <2>1. \A r \in Player : /\ requests'[r] = IF r = p THEN Append(requests[p], f) ELSE requests[r]
                          /\ clientSel'[r] = IF r = p THEN f ELSE clientSel[r]
    BY <1>1, <1>3 DEF TypeOK
  <2>2. HostSendsNothing'
    BY <1>3, <2>1 DEF IsRemote, GhostInv, HostSendsNothing
  <2>3. FinalRequest(p)' = f
    BY <1>1, <2>1, LastOfAppend DEF FinalRequest, TypeOK
  <2>4. QED
    BY <1>3, <2>1, <2>2, <2>3 DEF GhostInv, NoGhostLock, FinalRequest
<1>4. ASSUME NEW p \in Player, HostClickNothing(p)
      PROVE  HostSendsNothing' /\ NoGhostLock'
  <2>1. /\ requests[p] = <<>> /\ serverSel'[p] = NoFurniture
        /\ UNCHANGED requests
        /\ \A r \in Player : r # p => /\ serverSel'[r] = serverSel[r]
                                      /\ clientSel'[r] = clientSel[r]
    BY <1>1, <1>4 DEF HostClickNothing, GhostInv, HostSendsNothing, TypeOK
  <2>2. QED
    BY <2>1 DEF GhostInv, HostSendsNothing, NoGhostLock, FinalRequest
<1>5. ASSUME NEW p \in Player, NEW f \in Furniture, HostClickFurniture(p, f)
      PROVE  HostSendsNothing' /\ NoGhostLock'
  <2>1. /\ clientSel'[p] = f /\ UNCHANGED requests
        /\ \A r \in Player : r # p => /\ serverSel'[r] = serverSel[r]
                                      /\ clientSel'[r] = clientSel[r]
    BY <1>1, <1>5 DEF HostClickFurniture, TypeOK
  <2>2. QED
    BY <2>1, SelectionAssumption
    DEF GhostInv, HostSendsNothing, NoGhostLock, FinalRequest
<1>6. ASSUME NEW p \in Player, Leave(p)
      PROVE  HostSendsNothing' /\ NoGhostLock'
  <2>1. \A r \in Player :
            /\ requests'[r] = IF r = p THEN <<>> ELSE requests[r]
            /\ serverSel'[r] = IF r = p THEN NoFurniture ELSE serverSel[r]
            /\ clientSel'[r] = IF r = p THEN NoFurniture ELSE clientSel[r]
    BY <1>1, <1>6 DEF Leave, TypeOK
  <2>2. QED
    BY <2>1 DEF GhostInv, HostSendsNothing, NoGhostLock, FinalRequest
<1>7. ASSUME UNCHANGED <<requests, serverSel, clientSel>>
      PROVE  HostSendsNothing' /\ NoGhostLock'
  BY <1>7 DEF GhostInv, HostSendsNothing, NoGhostLock, FinalRequest
<1>8. ASSUME NEW p \in Player,
             \/ Join(p) \/ ReceiveMove(p) \/ LoseMove(p)
             \/ \E c \in Component, t \in Value :
                     MoveFurniture(p, c, t) \/ HostMoveFurniture(p, c, t)
      PROVE  UNCHANGED <<requests, serverSel, clientSel>>
  BY <1>8
  DEF Join, ReceiveMove, LoseMove, MoveFurniture, HostMoveFurniture,
      serverVars, clientVars
<1>9. ASSUME NEW p \in Player, ClickNothing(p)
      PROVE  HostSendsNothing' /\ NoGhostLock'
  BY <1>3, <1>9 DEF ClickNothing, serverVars, MaybeFurniture
<1>10. ASSUME NEW p \in Player, NEW f \in Furniture, ClickFurniture(p, f)
       PROVE  HostSendsNothing' /\ NoGhostLock'
  BY <1>3, <1>10 DEF ClickFurniture, serverVars, MaybeFurniture
<1>11. UNCHANGED vars => UNCHANGED <<requests, serverSel, clientSel>>
  BY DEF vars, serverVars, clientVars
<1>12. QED
  BY <1>1, <1>2, <1>4, <1>5, <1>6, <1>7, <1>8, <1>9, <1>10, <1>11
  DEF Next, GhostInv

\* On any server, once a client has nothing selected and its calls are
\* handled, the server has nothing selected for it.
THEOREM NoGhostLocks == Spec => []NoGhostLock
<1>1. Init => GhostInv
  BY TypeOKInit DEF Init, GhostInv, HostSendsNothing, NoGhostLock, FinalRequest
<1>2. GhostInv => NoGhostLock
  BY DEF GhostInv
<1>3. QED
  BY <1>1, <1>2, GhostInvStep, PTL DEF Spec

-----------------------------------------------------------------------------
(* Wrong beliefs and wrong outlines                                        *)

\* Handling a call changes what the server will have only by a refusal.
LEMMA HandlerMisleadsByRefusal ==
    ASSUME TypeOK, NEW p \in Player, ReceiveRequest(p), Believes(p), ~Believes(p)'
    PROVE  /\ requests'[p] = Tail(requests[p])
           /\ Head(requests[p]) \notin {NoFurniture, serverSel[p]}
           /\ slot[Head(requests[p])] # 0
<1> DEFINE q == requests[p]
<1>1. q \in Seq(MaybeFurniture) /\ q # <<>>
  BY DEF ReceiveRequest, TypeOK
<1>2. /\ requests'[p] = Tail(q) /\ serverSel'[p] = SelectionAfter(p, Head(q))
      /\ clientSel'[p] = clientSel[p]
  BY DEF ReceiveRequest, TypeOK
<1>3. q[Len(q)] = clientSel[p]
  BY <1>1 DEF Believes, FinalRequest
<1>4. Tail(q) = <<>>
  <2>1. SUFFICES ASSUME Tail(q) # <<>> PROVE FALSE
    OBVIOUS
  <2>2. Tail(q)[Len(Tail(q))] = clientSel[p]
    BY <1>1, <1>3, <2>1, LastOfTail
  <2>3. QED
    BY <1>2, <2>1, <2>2 DEF Believes, FinalRequest
<1>5. Head(q) = clientSel[p]
  BY <1>1, <1>3, <1>4, LastOfTail
<1>6. serverSel'[p] # Head(q)
  BY <1>2, <1>4, <1>5 DEF Believes, FinalRequest
<1>7. Head(q) # NoFurniture /\ ~IsSelectableFurniture(Head(q)) /\ serverSel[p] # Head(q)
  BY <1>2, <1>6 DEF SelectionAfter
<1>8. QED
  BY <1>2, <1>7 DEF IsSelectableFurniture

\* On any server a client's belief about its selection turns wrong only when the
\* server refuses a locked piece.
THEOREM OnlyRefusalsMislead == Spec => MisledByRefusal
<1> DEFINE Misled(p) ==
        Believes(p) /\ ~Believes(p)'
            => /\ requests[p] # <<>> /\ requests'[p] = Tail(requests[p])
               /\ Head(requests[p]) \notin {NoFurniture, serverSel[p]}
               /\ slot[Head(requests[p])] # 0
<1>1. ASSUME GhostInv, Next, NEW p \in joined \cap joined'
      PROVE  Misled(p)
  <2>1. TypeOK /\ p \in Player
    BY <1>1 DEF GhostInv, TypeOK
  <2>2. SUFFICES ASSUME ~ReceiveRequest(p), Believes(p) PROVE Believes(p)'
    BY <2>1, HandlerMisleadsByRefusal DEF ReceiveRequest
  <2>3. ASSUME UNCHANGED <<requests[p], serverSel[p], clientSel[p]>> PROVE Believes(p)'
    BY <2>2, <2>3 DEF Believes, FinalRequest
  <2>4. ASSUME NEW f \in MaybeFurniture,
               requests' = [requests EXCEPT ![p] = Append(@, f)],
               clientSel' = [clientSel EXCEPT ![p] = f]
        PROVE  Believes(p)'
    BY <2>1, <2>4, LastOfAppend DEF Believes, FinalRequest, TypeOK
  <2>5. ASSUME NEW f \in MaybeFurniture, p = Host, UNCHANGED requests,
               serverSel' = [serverSel EXCEPT ![p] = f],
               clientSel' = [clientSel EXCEPT ![p] = f]
        PROVE  Believes(p)'
    BY <1>1, <2>1, <2>5 DEF GhostInv, HostSendsNothing, Believes, FinalRequest, TypeOK
  <2>6. ASSUME NEW r \in Player,
               \/ Join(r) \/ Leave(r) \/ ReceiveMove(r) \/ LoseMove(r)
               \/ \E c \in Component, t \in Value :
                     MoveFurniture(r, c, t) \/ HostMoveFurniture(r, c, t)
        PROVE  UNCHANGED <<requests[p], serverSel[p], clientSel[p]>>
    BY <1>1, <2>1, <2>6
    DEF Join, Leave, ReceiveMove, LoseMove, MoveFurniture, HostMoveFurniture, serverVars,
        clientVars, TypeOK
  <2>7. ASSUME NEW r \in Player, ReceiveRequest(r)
        PROVE  UNCHANGED <<requests[p], serverSel[p], clientSel[p]>>
    BY <2>1, <2>2, <2>7 DEF ReceiveRequest, TypeOK
  <2>8. ASSUME NEW r \in Player,
               \/ ClickNothing(r) \/ HostClickNothing(r)
               \/ \E f \in Furniture : ClickFurniture(r, f) \/ HostClickFurniture(r, f)
        PROVE  Believes(p)'
    <3>1. CASE r # p
      <4>1. UNCHANGED <<requests[p], serverSel[p], clientSel[p]>>
        BY <2>1, <2>8, <3>1
        DEF ClickNothing, HostClickNothing, ClickFurniture, HostClickFurniture, serverVars,
            TypeOK
      <4>2. QED
        BY <4>1, <2>3
    <3>2. CASE r = p /\ (ClickNothing(p) \/ \E f \in Furniture : ClickFurniture(p, f))
      BY <2>4, <3>2 DEF ClickNothing, ClickFurniture, MaybeFurniture
    <3>3. CASE r = p /\ (HostClickNothing(p) \/ \E f \in Furniture : HostClickFurniture(p, f))
      BY <2>5, <3>3 DEF HostClickNothing, HostClickFurniture, MaybeFurniture
    <3>4. QED
      BY <2>8, <3>1, <3>2, <3>3
  <2>9. QED
    BY <1>1, <2>3, <2>6, <2>7, <2>8 DEF Next
<1>2. GhostInv /\ [Next]_vars => [\A p \in joined \cap joined' : Misled(p)]_vars
  BY <1>1
<1>3. Init => GhostInv
  BY TypeOKInit DEF Init, GhostInv, HostSendsNothing, NoGhostLock, FinalRequest
<1>4. QED
  BY <1>2, <1>3, GhostInvStep, PTL DEF Spec, MisledByRefusal

\* Handling a call leaves no wrong outline of a connected player behind.
LEMMA HandlerOutlinesRight ==
    ASSUME LockInv, NEW q \in Player, ReceiveRequest(q),
           NEW f \in Furniture, NEW p \in joined,
           Misattributed(f, p)', ~Misattributed(f, p)
    PROVE  FALSE
<1> DEFINE g == Head(requests[q])
<1>1. /\ TypeOK /\ p \in Player /\ q \in joined
  BY DEF LockInv, PoolInv, TypeOK, ReceiveRequest, AbsentAreQuiet
<1>2. g \in MaybeFurniture
  BY <1>1, RequestQueueType DEF ReceiveRequest, TypeOK
<1>3. /\ slot' = SlotsAfter(q, g) /\ UNCHANGED stencil
      /\ serverSel' = [serverSel EXCEPT ![q] = SelectionAfter(q, g)]
  BY DEF ReceiveRequest
<1>4. slot'[f] > 0 /\ slot'[f] = stencil[p] /\ serverSel'[p] # f
  BY <1>3 DEF Misattributed
<1> HIDE DEF g
<1>5. CASE slot'[f] = slot[f]
  <2>1. serverSel[p] = f
    BY <1>4, <1>5 DEF Misattributed
  <2>2. q = p /\ SelectionAfter(q, g) # f
    BY <1>1, <1>3, <1>4, <2>1 DEF TypeOK
  <2>3. g = NoFurniture \/ IsSelectableFurniture(g)
    BY <2>1, <2>2 DEF SelectionAfter
  <2>4. g # f
    BY <2>2, <2>3 DEF SelectionAfter
  <2>5. slot'[f] = 0
    BY <1>1, <1>2, <1>3, <2>1, <2>2, <2>3, <2>4, SelectionAssumption
    DEF SlotsAfter, OnSelected, OnDeselected, TypeOK, MaybeFurniture
  <2>6. QED
    BY <1>4, <2>5
<1>6. CASE slot'[f] # slot[f]
  <2>1. serverSel[q] \in MaybeFurniture
    BY <1>1 DEF TypeOK
  <2>2. slot'[f] # 0
    BY <1>4
  <2>3. g = f /\ IsSelectableFurniture(g) /\ slot'[f] = stencil[q]
    BY <1>1, <1>2, <1>3, <1>6, <2>1, <2>2, SelectionAssumption
    DEF SlotsAfter, OnSelected, OnDeselected, TypeOK, MaybeFurniture
  <2>4. stencil[q] # NoStencilSlot
    BY <1>4, <2>3 DEF NoStencilSlot
  <2>5. q = p
    BY <1>1, <1>4, <2>3, <2>4 DEF LockInv, PoolInv, PoolAgrees
  <2>6. serverSel'[p] = f
    BY <1>1, <1>3, <2>3, <2>5 DEF SelectionAfter, TypeOK
  <2>7. QED
    BY <1>4, <2>6
<1>7. QED
  BY <1>5, <1>6

\* On a dedicated server no selection, swap, refusal or departure of another
\* leaves a piece outlined in the colour of a player who has not selected it.
THEOREM OnlyJoinsMisattribute ==
    ASSUME Host = NoPlayer
    PROVE  Spec => MisattributedByJoin
<1> DEFINE ByJoin(f, p) == Misattributed(f, p)' /\ ~Misattributed(f, p) => p \notin joined
<1>1. ASSUME LockInv, Next, NEW f \in Furniture, NEW p \in Player
      PROVE  ByJoin(f, p)
  <2>1. SUFFICES ASSUME Misattributed(f, p)', ~Misattributed(f, p), p \in joined PROVE FALSE
    OBVIOUS
  <2>2. TypeOK /\ p \in joined'
    BY <1>1, <2>1 DEF LockInv, PoolInv, Misattributed
  <2>3. Host \notin Player
    BY SelectionAssumption
  <2>4. ASSUME NEW q \in Player, ReceiveRequest(q) PROVE FALSE
    BY <1>1, <2>1, <2>4, HandlerOutlinesRight
  <2>5. ASSUME NEW q \in Player, Join(q) \/ Leave(q) PROVE FALSE
    <3>1. q # p
      BY <2>1, <2>2, <2>5 DEF Join, Leave
    <3>2. UNCHANGED <<slot, stencil[p], serverSel[p]>>
      BY <2>2, <2>5, <3>1 DEF Join, Leave, TypeOK
    <3>3. QED
      BY <2>1, <3>2 DEF Misattributed
  <2>6. ASSUME NEW q \in Player,
               \/ ReceiveMove(q) \/ LoseMove(q) \/ ClickNothing(q) \/ HostClickNothing(q)
               \/ \E g \in Furniture : ClickFurniture(q, g) \/ HostClickFurniture(q, g)
               \/ \E c \in Component, t \in Value :
                     MoveFurniture(q, c, t) \/ HostMoveFurniture(q, c, t)
        PROVE  FALSE
    <3>1. UNCHANGED <<slot, stencil, serverSel>>
      BY <2>3, <2>6
      DEF ReceiveMove, LoseMove, ClickNothing, HostClickNothing, ClickFurniture,
          HostClickFurniture, MoveFurniture, HostMoveFurniture, serverVars
    <3>2. QED
      BY <2>1, <3>1 DEF Misattributed
  <2>7. QED
    BY <1>1, <2>4, <2>5, <2>6 DEF Next
<1>2. LockInv /\ [Next]_vars => [\A f \in Furniture, p \in Player : ByJoin(f, p)]_vars
  BY <1>1
<1>3. QED
  BY <1>2, LockInvInit, LockInvStep, PTL DEF Spec, MisattributedByJoin

-----------------------------------------------------------------------------
(* The refinement                                                          *)

\* The owner of a piece, read off the server's state.
OwnerReading ==
    \A f \in Furniture :
        /\ slot[f] = 0 => Owner[f] = Nobody
        /\ \A p \in Player : serverSel[p] = f => Owner[f] = p
        /\ slot[f] # 0 /\ (\A p \in Player : serverSel[p] # f)
               => Owner[f] = Departed

LEMMA OwnerIsHolder == LockInv => OwnerReading
<1> SUFFICES ASSUME LockInv, NEW f \in Furniture
             PROVE  /\ slot[f] = 0 => Owner[f] = Nobody
                    /\ \A p \in Player : serverSel[p] = f => Owner[f] = p
                    /\ slot[f] # 0 /\ (\A p \in Player : serverSel[p] # f)
                           => Owner[f] = Departed
  BY DEF OwnerReading
<1>1. ASSUME NEW p \in Player, serverSel[p] = f PROVE Owner[f] = p
  <2>1. slot[f] # 0
    BY <1>1, SelectionAssumption DEF LockInv, LockMatchesSlot, PoolInv, StencilAssigned
  <2>2. \A q \in Player : serverSel[q] = f => q = p
    BY <1>1, SelectionAssumption DEF LockInv, LockExclusive
  <2>3. (CHOOSE q \in Player : serverSel[q] = f) = p
    BY <1>1, <2>2
  <2>4. QED
    BY <1>1, <2>1, <2>3 DEF Owner
<1>2. QED
  BY <1>1 DEF Owner

LEMMA OwnerIsFunction == Owner = [f \in Furniture |-> Owner[f]]
  BY DEF Owner

\* The initial states map to initial states.
LEMMA RefinementInit == Init => Lock!Init
<1> SUFFICES ASSUME Init PROVE Lock!Init
  OBVIOUS
<1>1. \A f \in Furniture : slot[f] = 0
  BY DEF Init
<1>2. Owner = [f \in Furniture |-> Nobody]
  BY <1>1 DEF Owner
<1>3. QED
  BY <1>2 DEF Init, Lock!Init

\* A departure abandons the piece the player had selected, or is a stutter.
LEMMA LeaveAbandons ==
    ASSUME LockInv, LockInv', NEW p \in Player, Leave(p)
    PROVE  [Lock!Next]_Lock!vars
<1>1. OwnerReading /\ OwnerReading'
  <2>1. LockInv' => OwnerReading'
    BY OwnerIsHolder, PTL
  <2>2. QED
    BY <2>1, OwnerIsHolder
<1>2. TypeOK /\ Owner' = [f \in Furniture |-> Owner'[f]]
  BY DEF LockInv, PoolInv, Owner
<1>3. /\ UNCHANGED <<slot, at>>
      /\ \A q \in Player : serverSel'[q] = IF q = p THEN NoFurniture ELSE serverSel[q]
  BY <1>2 DEF Leave, TypeOK
<1>4. \A f \in Furniture : f # serverSel[p] => Owner'[f] = Owner[f]
  BY <1>1, <1>3, SelectionAssumption DEF OwnerReading
<1>5. CASE serverSel[p] = NoFurniture
  <2>1. Owner' = Owner
    BY <1>2, <1>4, <1>5, OwnerIsFunction, SelectionAssumption
  <2>2. QED
    BY <1>3, <2>1 DEF Lock!vars
<1>6. CASE serverSel[p] # NoFurniture
  <2> DEFINE f == serverSel[p]
  <2>1. f \in Furniture
    BY <1>2, <1>6 DEF TypeOK, MaybeFurniture
  <2>2. Owner[f] = p
    BY <1>1, <2>1 DEF OwnerReading
  <2>3. slot[f] # 0 /\ \A q \in Player : q # p => serverSel[q] # f
    BY <1>6 DEF LockInv, PoolInv, StencilAssigned, LockMatchesSlot, LockExclusive
  <2>4. Owner'[f] = Departed
    BY <1>1, <1>3, <1>6, <2>1, <2>3 DEF OwnerReading
  <2> HIDE DEF f
  <2>5. Owner' = [Owner EXCEPT ![f] = Departed]
    BY <1>2, <1>4, <2>1, <2>4, OwnerIsFunction DEF f
  <2>6. Lock!Abandon(p, f)
    BY <1>3, <2>2, <2>5 DEF Lock!Abandon
  <2>7. QED
    BY <2>1, <2>6 DEF Lock!Next
<1>7. QED
  BY <1>5, <1>6

\* A call that is handled acquires a free piece and gives up the previous one,
\* releases a piece, or is a stutter.
LEMMA HandlerAcquiresOrReleases ==
    ASSUME LockInv, LockInv', NEW p \in Player, ReceiveRequest(p)
    PROVE  [Lock!Next]_Lock!vars
<1> DEFINE f == Head(requests[p])
           old == serverSel[p]
<1>1. OwnerReading /\ OwnerReading'
  <2>1. LockInv' => OwnerReading'
    BY OwnerIsHolder, PTL
  <2>2. QED
    BY <2>1, OwnerIsHolder
<1>2. TypeOK /\ Owner' = [g \in Furniture |-> Owner'[g]]
  BY DEF LockInv, PoolInv, Owner
<1>3. f \in MaybeFurniture /\ old \in MaybeFurniture
  BY <1>2, RequestQueueType DEF ReceiveRequest, TypeOK
<1>4. /\ slot' = SlotsAfter(p, f) /\ UNCHANGED at
      /\ \A q \in Player : serverSel'[q] = IF q = p THEN SelectionAfter(p, f) ELSE serverSel[q]
  BY <1>2 DEF ReceiveRequest, TypeOK
<1>5. \A q \in Player : q # p /\ old # NoFurniture => serverSel[q] # old
  BY DEF LockInv, LockExclusive
<1> HIDE DEF f, old
<1>6. CASE f # NoFurniture /\ ~IsSelectableFurniture(f)
  <2>1. slot' = slot /\ \A q \in Player : serverSel'[q] = serverSel[q]
    BY <1>4, <1>6 DEF SlotsAfter, SelectionAfter
  <2>2. \A g \in Furniture : Owner'[g] = Owner[g]
    BY <1>1, <2>1 DEF OwnerReading
  <2>3. QED
    BY <1>2, <1>4, <2>2, OwnerIsFunction DEF Lock!vars
<1>7. CASE f = NoFurniture /\ old = NoFurniture
  <2>1. slot' = slot /\ \A q \in Player : serverSel'[q] = serverSel[q]
    BY <1>4, <1>7 DEF SlotsAfter, SelectionAfter, OnDeselected, old
  <2>2. \A g \in Furniture : Owner'[g] = Owner[g]
    BY <1>1, <2>1 DEF OwnerReading
  <2>3. QED
    BY <1>2, <1>4, <2>2, OwnerIsFunction DEF Lock!vars
<1>8. CASE f = NoFurniture /\ old # NoFurniture
  <2>1. old \in Furniture /\ slot' = [slot EXCEPT ![old] = 0]
    BY <1>3, <1>4, <1>8 DEF SlotsAfter, OnDeselected, MaybeFurniture, old
  <2>2. \A q \in Player : serverSel'[q] = IF q = p THEN NoFurniture ELSE serverSel[q]
    BY <1>4, <1>8 DEF SelectionAfter
  <2>3. \A g \in Furniture : slot'[g] = IF g = old THEN 0 ELSE slot[g]
    BY <1>2, <2>1 DEF TypeOK
  <2>4. Owner'[old] = Nobody /\ Owner[old] = p
    BY <1>1, <2>1, <2>3 DEF OwnerReading, old
  <2>5. ASSUME NEW g \in Furniture, g # old PROVE Owner'[g] = Owner[g]
    <3>1. \A q \in Player : serverSel'[q] = g <=> serverSel[q] = g
      BY <2>2, <2>5, SelectionAssumption DEF old
    <3>2. slot'[g] = slot[g]
      BY <2>3, <2>5
    <3>3. QED
      BY <1>1, <3>1, <3>2 DEF OwnerReading
  <2>6. Owner' = [Owner EXCEPT ![old] = Nobody]
    BY <1>2, <2>1, <2>4, <2>5, OwnerIsFunction
  <2>7. Lock!Release(p, old)
    BY <1>4, <2>4, <2>6 DEF Lock!Release
  <2>8. QED
    BY <2>1, <2>7 DEF Lock!Next
<1>9. CASE f # NoFurniture /\ IsSelectableFurniture(f)
  <2>1. f \in Furniture /\ slot[f] = 0 /\ \A q \in Player : serverSel[q] # f
    BY <1>3, <1>9, SelectableIsFree DEF MaybeFurniture, IsSelectableFurniture
  <2>2. \A q \in Player : serverSel'[q] = IF q = p THEN f ELSE serverSel[q]
    BY <1>4, <1>9 DEF SelectionAfter
  <2>3. Owner[f] = Nobody /\ Owner'[f] = p
    BY <1>1, <2>1, <2>2 DEF OwnerReading
  <2>4. \A g \in Furniture :
            g # f => slot'[g] = IF g = old THEN 0 ELSE slot[g]
    <3>1. slot' = OnSelected(OnDeselected(slot, old), f, stencil[p])
      BY <1>4, <1>9 DEF SlotsAfter, old
    <3>2. QED
      BY <1>2, <1>3, <2>1, <3>1, SelectionAssumption
      DEF OnSelected, OnDeselected, TypeOK, MaybeFurniture
  <2>5. ASSUME NEW g \in Furniture, g # f
        PROVE  Owner'[g] = IF Owner[g] = p THEN Nobody ELSE Owner[g]
    <3>1. CASE g = old
      <4>1. Owner[g] = p
        BY <1>1, <3>1 DEF OwnerReading, old
      <4>2. Owner'[g] = Nobody
        BY <1>1, <2>4, <2>5, <3>1 DEF OwnerReading
      <4>3. QED
        BY <4>1, <4>2
    <3>2. CASE g # old
      <4>1. slot'[g] = slot[g]
        BY <2>4, <2>5, <3>2
      <4>2. \A q \in Player : serverSel'[q] = g <=> serverSel[q] = g
        BY <2>2, <2>5, <3>2 DEF old
      <4>3. Owner'[g] = Owner[g]
        BY <1>1, <4>1, <4>2 DEF OwnerReading
      <4>4. serverSel[p] # g
        BY <3>2 DEF old
      <4>5. Owner[g] # p
        <5>1. CASE slot[g] = 0
          BY <1>1, <5>1, OwnersAssumption DEF OwnerReading
        <5>2. CASE slot[g] # 0 /\ \A q \in Player : serverSel[q] # g
          BY <1>1, <5>2, OwnersAssumption DEF OwnerReading
        <5>3. ASSUME NEW q \in Player, serverSel[q] = g PROVE Owner[g] # p
          BY <1>1, <4>4, <5>3 DEF OwnerReading
        <5>4. QED
          BY <5>1, <5>2, <5>3
      <4>6. QED
        BY <4>3, <4>5
    <3>3. QED
      BY <3>1, <3>2
  <2>6. Owner' = [g \in Furniture |-> IF g = f THEN p
                                      ELSE IF Owner[g] = p THEN Nobody
                                      ELSE Owner[g]]
    BY <1>2, <2>3, <2>5
  <2>7. Lock!Acquire(p, f)
    BY <1>4, <2>3, <2>6 DEF Lock!Acquire
  <2>8. QED
    BY <2>1, <2>7 DEF Lock!Next
<1>10. QED
  BY <1>6, <1>7, <1>8, <1>9

\* A move that is handled moves a piece on behalf of its owner, or is a
\* stutter.
LEMMA HandlerMovesForOwner ==
    ASSUME LockInv, NEW p \in Player, ReceiveMove(p)
    PROVE  [Lock!Next]_Lock!vars
<1>1. Owner' = Owner
  BY DEF ReceiveMove, Owner
<1>2. TypeOK
  BY DEF LockInv, PoolInv
<1>3. CASE serverSel[p] = NoFurniture
  BY <1>1, <1>3 DEF ReceiveMove, Lock!vars
<1>4. CASE serverSel[p] # NoFurniture
  <2>1. serverSel[p] \in Furniture
    BY <1>2, <1>4 DEF TypeOK, MaybeFurniture
  <2>2. Owner[serverSel[p]] = p
    BY <2>1, OwnerIsHolder DEF OwnerReading
  <2> DEFINE m == Head(moves[p])
             t == [at[serverSel[p]] EXCEPT ![m.part] = m.to]
  <2>3. t \in Transform /\ at' = [at EXCEPT ![serverSel[p]] = t]
    <3>1. m.part \in Component /\ m.to \in Value
      BY <1>2, MoveQueueType DEF ReceiveMove, TypeOK, Move
    <3>2. at \in [Furniture -> [Component -> Value]]
      BY <1>2 DEF TypeOK, Transform
    <3>3. QED
      BY <1>4, <2>1, <3>1, <3>2 DEF ReceiveMove, Transform
  <2> HIDE DEF t
  <2>4. Lock!Move(p, serverSel[p])
    BY <1>1, <1>4, <2>2, <2>3 DEF ReceiveMove, Lock!Move
  <2>5. QED
    BY <2>1, <2>4 DEF Lock!Next
<1>5. QED
  BY <1>3, <1>4

\* Every step of a room without a host is a step of the lock or a stutter.
LEMMA RefinementStep ==
    ASSUME Host = NoPlayer, LockInv, LockInv', [Next]_vars
    PROVE  [Lock!Next]_Lock!vars
<1>1. Host \notin Player
  BY SelectionAssumption
<1>2. ASSUME UNCHANGED <<slot, at, serverSel>> PROVE UNCHANGED Lock!vars
  BY <1>2 DEF Lock!vars, Owner
<1>3. ASSUME NEW p \in Player,
             \/ Join(p) \/ LoseMove(p) \/ ClickNothing(p)
             \/ \E f \in Furniture : ClickFurniture(p, f)
             \/ \E c \in Component, t \in Value : MoveFurniture(p, c, t)
      PROVE  UNCHANGED <<slot, at, serverSel>>
  BY <1>3
  DEF Join, LoseMove, ClickNothing, ClickFurniture, MoveFurniture, serverVars
<1>4. ASSUME NEW p \in Player,
             \/ HostClickNothing(p)
             \/ \E f \in Furniture : HostClickFurniture(p, f)
             \/ \E c \in Component, t \in Value : HostMoveFurniture(p, c, t)
      PROVE  FALSE
  BY <1>1, <1>4 DEF HostClickNothing, HostClickFurniture, HostMoveFurniture
<1>5. UNCHANGED vars => UNCHANGED <<slot, at, serverSel>>
  BY DEF vars, serverVars
<1>6. QED
  BY <1>2, <1>3, <1>4, <1>5, LeaveAbandons, HandlerAcquiresOrReleases,
     HandlerMovesForOwner
  DEF Next

\* On a dedicated server the selection protocol is an exclusive lock on every
\* piece, with at most one piece per player, whatever the network does.
THEOREM SelectionImplementsLock ==
    ASSUME Host = NoPlayer
    PROVE  Spec => ImplementsLock
<1>1. LockInv /\ LockInv' /\ [Next]_vars => [Lock!Next]_Lock!vars
  BY RefinementStep
<1>2. QED
  BY <1>1, RefinementInit, LockInvInit, LockInvStep, PTL
  DEF Spec, ImplementsLock, Lock!Spec

-----------------------------------------------------------------------------
(* Replicated transforms, with or without a host                           *)

\* What g names, the location or the rotation of a piece, is moved by one of the
\* calls in q; t is where the last of them moves it to.
Flying(q, g) == \E i \in 1 .. Len(q) : Target(q[i]) = g
LastMove(q, g, t) ==
    \E i \in 1 .. Len(q) : /\ Target(q[i]) = g /\ q[i].to = t
                           /\ \A j \in 1 .. Len(q) : j > i => Target(q[j]) # g

\* A player who is not in the room has no move in flight.
AbsentMoveNothing == \A p \in Player \ joined : moves[p] = <<>>

\* An update in flight carries what the server compared last.
UpdatesAreLatest ==
    \A p \in Player, f \in Furniture : IsRemote(p) => update[p][f] \in {NoUpdate, shadow[f]}

\* While drags of a piece are in flight its mover shows its location where the
\* server compared it last, or where the last of them goes, and so for rotations.
\* Once there are none, it shows it where the server has it, unless an update is
\* still to be sent.
ExplainedAt(p, f, c) ==
    IsRemote(p) /\ <<f, c>> \notin stray[p] /\ update[p][f] = NoUpdate =>
        IF Flying(moves[p], <<f, c>>)
        THEN \/ shownAt[p][f][c] = shadow[f][c]
             \/ LastMove(moves[p], <<f, c>>, shownAt[p][f][c])
        ELSE at[f] = shadow[f] => shownAt[p][f][c] = at[f][c]

Explained == \A p \in Player, f \in Furniture, c \in Component : ExplainedAt(p, f, c)

ViewInv == ViewTypeOK /\ AbsentMoveNothing /\ UpdatesAreLatest /\ Explained

-----------------------------------------------------------------------------
(* Calls in flight                                                         *)

\* What handling or losing the first call leaves in flight.
LEMMA FlyingTail ==
    ASSUME NEW q \in Seq(Move), q # <<>>, NEW g
    PROVE  /\ Target(Head(q)) # g => (Flying(Tail(q), g) <=> Flying(q, g))
           /\ Target(Head(q)) = g => Flying(q, g)
           /\ \A t : Flying(Tail(q), g) /\ LastMove(q, g, t) => LastMove(Tail(q), g, t)
           /\ \A t : ~Flying(Tail(q), g) /\ LastMove(q, g, t) => t = Head(q).to
           /\ (\A i \in 2 .. Len(q) : Target(q[i]) # g) <=> ~Flying(Tail(q), g)
<1>1. /\ Len(q) \in Nat \ {0} /\ Len(Tail(q)) = Len(q) - 1
      /\ \A i \in 1 .. Len(Tail(q)) : Tail(q)[i] = q[i + 1]
      /\ Head(q) = q[1]
  BY HeadTailProperties, EmptySeq, LenProperties
<1>2. \A i \in 2 .. Len(q) : i - 1 \in 1 .. Len(Tail(q)) /\ Tail(q)[i - 1] = q[i]
  <2>1. ASSUME NEW i \in 2 .. Len(q) PROVE i - 1 \in 1 .. Len(Tail(q)) /\ (i - 1) + 1 = i
    BY <1>1, <2>1
  <2>2. QED
    BY <1>1, <2>1
<1>3. \A i \in 1 .. Len(Tail(q)) : i + 1 \in 2 .. Len(q)
  BY <1>1
<1>4. \A i \in 1 .. Len(q) : i = 1 \/ i \in 2 .. Len(q)
  BY <1>1
<1>5. (\A i \in 2 .. Len(q) : Target(q[i]) # g) <=> ~Flying(Tail(q), g)
  BY <1>1, <1>2, <1>3 DEF Flying
<1>6. Flying(q, g) <=> Target(Head(q)) = g \/ Flying(Tail(q), g)
  <2>1. 1 \in 1 .. Len(q) /\ \A i \in 2 .. Len(q) : i \in 1 .. Len(q)
    BY <1>1
  <2>2. QED
    BY <1>1, <1>4, <1>5, <2>1 DEF Flying
<1>7. ASSUME NEW t, Flying(Tail(q), g), LastMove(q, g, t) PROVE LastMove(Tail(q), g, t)
  <2>1. PICK i \in 1 .. Len(q) : /\ Target(q[i]) = g /\ q[i].to = t
                                 /\ \A j \in 1 .. Len(q) : j > i => Target(q[j]) # g
    BY <1>7 DEF LastMove
  <2>2. PICK k \in 2 .. Len(q) : Target(q[k]) = g
    BY <1>5, <1>7
  <2>3. i \in 2 .. Len(q)
    BY <1>1, <2>1, <2>2
  <2>4. ASSUME NEW j \in 1 .. Len(Tail(q)), j > i - 1 PROVE Target(Tail(q)[j]) # g
    <3>1. j + 1 \in 1 .. Len(q) /\ j + 1 > i
      BY <1>1, <2>3, <2>4
    <3>2. QED
      BY <1>1, <2>1, <3>1
  <2>5. QED
    BY <1>2, <2>1, <2>3, <2>4 DEF LastMove
<1>8. ASSUME NEW t, ~Flying(Tail(q), g), LastMove(q, g, t) PROVE t = Head(q).to
  BY <1>1, <1>4, <1>5, <1>8 DEF LastMove
<1>9. QED
  BY <1>5, <1>6, <1>7, <1>8

\* What one more call leaves in flight.
LEMMA FlyingAppend ==
    ASSUME NEW q \in Seq(Move), NEW m \in Move, NEW g
    PROVE  /\ Flying(Append(q, m), g) <=> Flying(q, g) \/ Target(m) = g
           /\ LastMove(Append(q, m), Target(m), m.to)
           /\ \A t : Target(m) # g /\ LastMove(q, g, t) => LastMove(Append(q, m), g, t)
<1>1. /\ Len(q) \in Nat /\ Len(Append(q, m)) = Len(q) + 1
      /\ \A i \in 1 .. Len(q) : Append(q, m)[i] = q[i]
      /\ Append(q, m)[Len(q) + 1] = m
  BY AppendProperties, LenProperties
<1>2. /\ \A i \in 1 .. Len(q) + 1 : i \in 1 .. Len(q) \/ i = Len(q) + 1
      /\ \A i \in 1 .. Len(q) : i \in 1 .. Len(q) + 1
      /\ Len(q) + 1 \in 1 .. Len(q) + 1
      /\ \A j \in 1 .. Len(q) + 1 : ~(j > Len(q) + 1)
  BY <1>1
<1>3. Flying(Append(q, m), g) <=> Flying(q, g) \/ Target(m) = g
  BY <1>1, <1>2 DEF Flying
<1>4. LastMove(Append(q, m), Target(m), m.to)
  BY <1>1, <1>2 DEF LastMove
<1>5. ASSUME NEW t, Target(m) # g, LastMove(q, g, t) PROVE LastMove(Append(q, m), g, t)
  <2>1. PICK i \in 1 .. Len(q) : /\ Target(q[i]) = g /\ q[i].to = t
                                 /\ \A j \in 1 .. Len(q) : j > i => Target(q[j]) # g
    BY <1>5 DEF LastMove
  <2>2. \A j \in 1 .. Len(q) + 1 : j > i => Target(Append(q, m)[j]) # g
    BY <1>1, <1>2, <1>5, <2>1
  <2>3. QED
    BY <1>1, <1>2, <2>1, <2>2 DEF LastMove
<1>6. QED
  BY <1>3, <1>4, <1>5

LEMMA NothingFlies == \A g : ~Flying(<<>>, g)
<1>1. Len(<<>>) = 0
  BY EmptySeq
<1>2. QED
  BY <1>1 DEF Flying

-----------------------------------------------------------------------------
(* Type correctness                                                        *)

LEMMA ViewStepIsStep == ASSUME [ViewNext]_allVars PROVE [Next]_vars
  BY DEF ViewNext, JoinView, ReceiveMoveView, LoseMoveView, MoveView, HostMoveView,
         OtherStep, ReceiveUpdate, Replicate, Next, allVars

\* ReceiveUpdate, MoveView and JoinView touch one client and one piece, or one
\* client, of the two-level functions.
LEMMA ViewTypeStep == ViewTypeOK /\ [ViewNext]_allVars => ViewTypeOK'
<1> SUFFICES ASSUME ViewTypeOK, [ViewNext]_allVars PROVE ViewTypeOK'
  OBVIOUS
<1>1. TypeOK /\ TypeOK'
  BY TypeOKStep, ViewStepIsStep DEF ViewTypeOK
<1>2. at \in [Furniture -> Transform] /\ clientSel \in [Player -> MaybeFurniture]
  BY <1>1 DEF TypeOK
<1> USE DEF ViewTypeOK
<1>3. ASSUME NEW p \in Player, JoinView(p) PROVE ViewTypeOK'
  BY <1>1, <1>2, <1>3 DEF JoinView
<1>4. ASSUME NEW p \in Player, ReceiveMoveView(p) PROVE ViewTypeOK'
  <2>1. Target(Head(moves[p])) \in Furniture \X Component
    BY <1>1, <1>4, MoveQueueType DEF ReceiveMoveView, ReceiveMove, TypeOK, Move, Target
  <2>2. AllPutBack \subseteq Furniture \X Component
    BY DEF AllPutBack
  <2>3. QED
    BY <1>1, <1>4, <2>1, <2>2 DEF ReceiveMoveView
<1>5. ASSUME NEW p \in Player, LoseMoveView(p) PROVE ViewTypeOK'
  <2>1. Target(Head(moves[p])) \in Furniture \X Component
    BY <1>1, <1>5, MoveQueueType DEF LoseMoveView, LoseMove, TypeOK, Move, Target
  <2>2. QED
    BY <1>1, <1>5, <2>1 DEF LoseMoveView
<1>6. ASSUME NEW p \in Player, NEW c \in Component, NEW t \in Value, MoveView(p, c, t)
      PROVE  ViewTypeOK'
  <2>1. clientSel[p] \in Furniture
    BY <1>2, <1>6 DEF MoveView, MoveFurniture, MaybeFurniture
  <2>2. shownAt' \in [Player -> [Furniture -> Transform]]
    BY <1>6, <2>1 DEF MoveView, Transform
  <2>3. QED
    BY <1>1, <1>6, <2>2 DEF MoveView
<1>7. ASSUME NEW p \in Player, NEW c \in Component, NEW t \in Value, HostMoveView(p, c, t)
      PROVE  ViewTypeOK'
  <2>1. AllPutBack \subseteq Furniture \X Component
    BY DEF AllPutBack
  <2>2. QED
    BY <1>1, <1>7, <2>1 DEF HostMoveView
<1>8. ASSUME NEW p \in Player, NEW f \in Furniture, ReceiveUpdate(p, f) PROVE ViewTypeOK'
  <2>1. update[p][f] \in Transform
    BY <1>8 DEF ReceiveUpdate
  <2>2. QED
    BY <1>1, <1>8, <2>1 DEF ReceiveUpdate
<1>9. ASSUME NEW f \in Furniture, Replicate(f) PROVE ViewTypeOK'
  BY <1>1, <1>2, <1>9 DEF Replicate
<1>10. ASSUME NEW p \in Player, OtherStep(p) PROVE ViewTypeOK'
  BY <1>1, <1>10 DEF OtherStep, viewVars
<1>11. CASE UNCHANGED allVars
  BY <1>1, <1>11 DEF allVars, viewVars
<1>12. QED
  BY <1>3, <1>4, <1>5, <1>6, <1>7, <1>8, <1>9, <1>10, <1>11 DEF ViewNext

LEMMA ViewInvInit == ViewInit => ViewInv
<1> SUFFICES ASSUME ViewInit PROVE ViewInv
  OBVIOUS
<1>1. TypeOK /\ \A p \in Player : ~IsRemote(p) /\ moves[p] = <<>>
  BY TypeOKInit DEF ViewInit, Init, IsRemote
<1>2. ViewTypeOK
  BY <1>1 DEF ViewInit, ViewTypeOK, TypeOK
<1>3. QED
  BY <1>1, <1>2
  DEF ViewInv, AbsentMoveNothing, UpdatesAreLatest, Explained, ExplainedAt

-----------------------------------------------------------------------------
(* Where the players see the furniture                                     *)

\* The parts of ViewInv that no move concerns.
LEMMA AbsentStep ==
    ASSUME TypeOK, AbsentMoveNothing, [Next]_vars
    PROVE  AbsentMoveNothing'
<1> USE DEF AbsentMoveNothing
<1>1. ASSUME NEW p \in Player, Join(p) \/ Leave(p) PROVE AbsentMoveNothing'
  BY <1>1 DEF Join, Leave, clientVars, TypeOK
<1>2. ASSUME NEW p \in Player,
             \/ ReceiveMove(p) \/ LoseMove(p) \/ \E c \in Component, t \in Value : MoveFurniture(p, c, t)
      PROVE  AbsentMoveNothing'
  BY <1>2 DEF ReceiveMove, LoseMove, MoveFurniture, IsRemote, serverVars, TypeOK
<1>3. ASSUME NEW p \in Player,
             \/ ReceiveRequest(p) \/ ClickNothing(p) \/ HostClickNothing(p)
             \/ \E f \in Furniture : ClickFurniture(p, f) \/ HostClickFurniture(p, f)
             \/ \E c \in Component, t \in Value : HostMoveFurniture(p, c, t)
      PROVE  UNCHANGED <<joined, moves>>
  BY <1>3
  DEF ReceiveRequest, ClickNothing, HostClickNothing, ClickFurniture, HostClickFurniture,
      HostMoveFurniture, serverVars, clientVars
<1>4. CASE UNCHANGED vars
  BY <1>4 DEF vars, serverVars, clientVars
<1>5. QED
  BY <1>1, <1>2, <1>3, <1>4 DEF Next

\* A piece whose transform changes while no drag of it, or no rotation, flies from
\* p is seen right by p, or differs from what was compared, or was put back.
LEMMA SteppingAside ==
    ASSUME NEW p \in Player, NEW f \in Furniture, NEW c \in Component, ExplainedAt(p, f, c),
           ~Flying(moves[p], <<f, c>>), ~Flying(moves'[p], <<f, c>>),
           IsRemote(p)' => IsRemote(p),
           stray[p] \subseteq stray'[p], PutBack(f) => <<f, c>> \in stray'[p],
           UNCHANGED <<shadow, update, shownAt>>
    PROVE  ExplainedAt(p, f, c)'
  BY DEF ExplainedAt, PutBack

\* A step that leaves one client's view of one piece, its moves and what was
\* compared alone, while moves of the piece fly or the piece stands still.
LEMMA StandingBy ==
    ASSUME NEW p \in Player, NEW f \in Furniture, NEW c \in Component, NEW g, g = <<f, c>>,
           ExplainedAt(p, f, c),
           IsRemote(p)' => IsRemote(p), g \in stray[p] => g \in stray'[p],
           UNCHANGED <<shadow[f], update[p][f], shownAt[p][f][c]>>,
           Flying(moves'[p], g) <=> Flying(moves[p], g),
           \A t : Flying(moves[p], g) /\ LastMove(moves[p], g, t) => LastMove(moves'[p], g, t),
           at'[f] = at[f] \/ Flying(moves[p], g)
    PROVE  ExplainedAt(p, f, c)'
  BY DEF ExplainedAt

\* A call that moves what the mover means it to move to where the last of its
\* moves of it goes.
LEMMA ReceiveMoveKeeps ==
    ASSUME ViewInv, NEW p \in Player, ReceiveMoveView(p)
    PROVE  Explained'
<1> DEFINE q == moves[p]
           m == Head(q)
<1>1. TypeOK /\ Explained /\ stray \in [Player -> SUBSET (Furniture \X Component)]
  BY DEF ViewInv, ViewTypeOK
<1>2. /\ q \in Seq(Move) /\ q # <<>> /\ Target(m) = Target(q[1])
      /\ m.of \in Furniture /\ m.part \in Component /\ Target(m) = <<m.of, m.part>>
  <2>1. q \in Seq(Move) /\ q # <<>>
    BY <1>1 DEF ReceiveMoveView, ReceiveMove, TypeOK
  <2>2. m \in Move /\ m = q[1]
    BY <2>1, HeadTailProperties
  <2>3. QED
    BY <2>1, <2>2 DEF Move, Target
<1>3. /\ \A r \in Player : moves'[r] = IF r = p THEN Tail(q) ELSE moves[r]
      /\ at' = IF serverSel[p] = NoFurniture THEN at
               ELSE [at EXCEPT ![serverSel[p]][m.part] = m.to]
      /\ UNCHANGED <<joined, shadow, update, shownAt>>
      /\ \A r \in Player : IsRemote(r)' <=> IsRemote(r)
  BY <1>1 DEF ReceiveMoveView, ReceiveMove, TypeOK, IsRemote
<1>4. /\ \A r \in Player : stray[r] \subseteq stray'[r]
      /\ \A r \in Player, f \in Furniture, c \in Component :
             PutBack(f) /\ (r # p \/ <<f, c>> # Target(m)) => <<f, c>> \in stray'[r]
      /\ serverSel[p] # m.of /\ NothingFollows(p) => Target(m) \in stray'[p]
  BY <1>1 DEF ReceiveMoveView, AllPutBack
<1>5. NothingFollows(p) <=> ~Flying(Tail(q), Target(m))
  BY <1>2, FlyingTail DEF NothingFollows
<1> HIDE DEF q, m
<1>6. SUFFICES ASSUME NEW r \in Player, NEW f \in Furniture, NEW c \in Component
               PROVE  ExplainedAt(r, f, c)'
  BY DEF Explained
<1>7. ExplainedAt(r, f, c)
  BY <1>1 DEF Explained
<1> DEFINE g == <<f, c>>
<1> HIDE DEF g
<1>8. CASE r # p \/ g # Target(m)
  <2>1. /\ Flying(moves'[r], g) <=> Flying(moves[r], g)
        /\ \A t : Flying(moves[r], g) /\ LastMove(moves[r], g, t) => LastMove(moves'[r], g, t)
    BY <1>2, <1>3, <1>8, FlyingTail DEF m, q
  <2>2. CASE Flying(moves[r], g)
    BY <1>3, <1>4, <1>7, <2>1, <2>2, StandingBy DEF g
  <2>3. CASE ~Flying(moves[r], g)
    BY <1>3, <1>4, <1>7, <1>8, <2>1, <2>3, SteppingAside DEF g
  <2>4. QED
    BY <2>2, <2>3
<1>9. CASE r = p /\ g = Target(m)
  <2>1. Flying(moves[r], g) /\ f = m.of /\ c = m.part
    BY <1>2, <1>9, FlyingTail DEF m, q, g
  <2>2. CASE Flying(Tail(q), g)
    <3>1. /\ Flying(moves'[r], g)
          /\ \A t : LastMove(moves[r], g, t) => LastMove(moves'[r], g, t)
      BY <1>2, <1>3, <1>9, <2>2, FlyingTail DEF m, q
    <3>2. QED
      BY <1>3, <1>4, <1>7, <2>1, <3>1, StandingBy DEF g
  <2>3. CASE ~Flying(Tail(q), g) /\ serverSel[p] = f
    <3>1. at'[f][c] = m.to
      <4>1. at' = [at EXCEPT ![f][c] = m.to] /\ at \in [Furniture -> [Component -> Value]]
        BY <1>1, <1>3, <2>1, <2>3, SelectionAssumption DEF TypeOK, Transform
      <4>2. QED
        BY <4>1
    <3>2. \A t : LastMove(moves[r], g, t) => t = m.to
      BY <1>2, <1>9, <2>3, FlyingTail DEF m, q
    <3>3. ~Flying(moves'[r], g)
      BY <1>3, <1>9, <2>3
    <3>4. QED
      BY <1>3, <1>4, <1>7, <2>1, <3>1, <3>2, <3>3 DEF ExplainedAt, g
  <2>4. CASE ~Flying(Tail(q), g) /\ serverSel[p] # f
    <3>1. g \in stray'[r]
      BY <1>4, <1>5, <1>9, <2>1, <2>4
    <3>2. QED
      BY <3>1 DEF ExplainedAt, g
  <2>5. QED
    BY <2>2, <2>3, <2>4
<1>10. QED
  BY <1>8, <1>9

LEMMA LoseMoveKeeps ==
    ASSUME ViewInv, NEW p \in Player, LoseMoveView(p)
    PROVE  Explained'
<1> DEFINE q == moves[p]
           m == Head(q)
<1>1. TypeOK /\ Explained /\ stray \in [Player -> SUBSET (Furniture \X Component)]
  BY DEF ViewInv, ViewTypeOK
<1>2. q \in Seq(Move) /\ q # <<>> /\ Target(m) = Target(q[1])
  <2>1. q \in Seq(Move) /\ q # <<>>
    BY <1>1 DEF LoseMoveView, LoseMove, TypeOK
  <2>2. m = q[1]
    BY <2>1, HeadTailProperties
  <2>3. QED
    BY <2>1, <2>2
<1>3. /\ \A r \in Player : moves'[r] = IF r = p THEN Tail(q) ELSE moves[r]
      /\ UNCHANGED <<at, shadow, update, shownAt>>
      /\ \A r \in Player : IsRemote(r)' <=> IsRemote(r)
  BY <1>1 DEF LoseMoveView, LoseMove, serverVars, TypeOK, IsRemote
<1>4. /\ \A r \in Player : stray[r] \subseteq stray'[r]
      /\ NothingFollows(p) => Target(m) \in stray'[p]
  BY <1>1 DEF LoseMoveView
<1>5. NothingFollows(p) <=> ~Flying(Tail(q), Target(m))
  BY <1>2, FlyingTail DEF NothingFollows
<1> HIDE DEF q, m
<1>6. SUFFICES ASSUME NEW r \in Player, NEW f \in Furniture, NEW c \in Component
               PROVE  ExplainedAt(r, f, c)'
  BY DEF Explained
<1>7. ExplainedAt(r, f, c)
  BY <1>1 DEF Explained
<1> DEFINE g == <<f, c>>
<1> HIDE DEF g
<1>8. CASE r = p /\ g = Target(m) /\ ~Flying(Tail(q), g)
  BY <1>4, <1>5, <1>8 DEF ExplainedAt, g
<1>9. CASE ~(r = p /\ g = Target(m) /\ ~Flying(Tail(q), g))
  <2>1. /\ Flying(moves'[r], g) <=> Flying(moves[r], g)
        /\ \A t : Flying(moves[r], g) /\ LastMove(moves[r], g, t) => LastMove(moves'[r], g, t)
    BY <1>2, <1>3, <1>9, FlyingTail DEF m, q
  <2>2. QED
    BY <1>3, <1>4, <1>7, <2>1, StandingBy DEF g
<1>10. QED
  BY <1>8, <1>9

LEMMA MoveKeeps ==
    ASSUME ViewInv, NEW p \in Player, NEW k \in Component, NEW t \in Value, MoveView(p, k, t)
    PROVE  Explained'
<1> DEFINE m == [of |-> clientSel[p], part |-> k, to |-> t]
<1>1. /\ TypeOK /\ Explained /\ stray \in [Player -> SUBSET (Furniture \X Component)]
      /\ shownAt \in [Player -> [Furniture -> [Component -> Value]]]
  BY DEF ViewInv, ViewTypeOK, Transform
<1>2. /\ m \in Move /\ m.to = t /\ Target(m) = <<clientSel[p], k>>
      /\ clientSel[p] \in Furniture
  BY <1>1 DEF MoveView, MoveFurniture, TypeOK, MaybeFurniture, Move, Target
<1>3. /\ moves[p] \in Seq(Move)
      /\ \A r \in Player : moves'[r] = IF r = p THEN Append(moves[p], m) ELSE moves[r]
      /\ UNCHANGED <<at, shadow, update>>
      /\ \A r \in Player : IsRemote(r)' <=> IsRemote(r)
  BY <1>1 DEF MoveView, MoveFurniture, serverVars, TypeOK, IsRemote
<1>4. /\ shownAt' = [shownAt EXCEPT ![p][clientSel[p]][k] = t]
      /\ \A r \in Player : stray'[r] = IF r = p THEN stray[p] \ {Target(m)} ELSE stray[r]
  BY <1>1, <1>2 DEF MoveView
<1> HIDE DEF m
<1>5. SUFFICES ASSUME NEW r \in Player, NEW f \in Furniture, NEW c \in Component
               PROVE  ExplainedAt(r, f, c)'
  BY DEF Explained
<1> DEFINE g == <<f, c>>
<1>6. shownAt'[r][f][c] = IF r = p /\ g = Target(m) THEN t ELSE shownAt[r][f][c]
  BY <1>1, <1>2, <1>4
<1> HIDE DEF g
<1>7. CASE r = p /\ g = Target(m)
  <2>1. Flying(moves'[r], g) /\ LastMove(moves'[r], g, t)
    BY <1>2, <1>3, <1>7, FlyingAppend
  <2>2. QED
    BY <1>6, <1>7, <2>1 DEF ExplainedAt, g
<1>8. CASE r # p \/ g # Target(m)
  <2>1. /\ Flying(moves'[r], g) <=> Flying(moves[r], g)
        /\ \A u : LastMove(moves[r], g, u) => LastMove(moves'[r], g, u)
    <3>1. CASE r = p
      <4>1. moves'[r] = Append(moves[r], m) /\ Target(m) # g /\ moves[r] \in Seq(Move)
        BY <1>3, <1>8, <3>1
      <4>2. Flying(Append(moves[r], m), g) <=> Flying(moves[r], g) \/ Target(m) = g
        BY <1>2, <4>1, FlyingAppend
      <4>3. \A u : LastMove(moves[r], g, u) => LastMove(Append(moves[r], m), g, u)
        BY <1>2, <4>1, FlyingAppend
      <4>4. QED
        BY <4>1, <4>2, <4>3
    <3>2. CASE r # p
      BY <1>3, <3>2
    <3>3. QED
      BY <3>1, <3>2
  <2>2. ExplainedAt(r, f, c)
    BY <1>1 DEF Explained
  <2>3. g \in stray[r] => g \in stray'[r]
    BY <1>4, <1>8
  <2>4. QED
    BY <1>3, <1>6, <1>8, <2>1, <2>2, <2>3, StandingBy DEF g
<1>9. QED
  BY <1>7, <1>8

\* Every step, of players, server and network, keeps ViewInv.
LEMMA ViewInvStep == ViewInv /\ [ViewNext]_allVars => ViewInv'
<1> SUFFICES ASSUME ViewInv, [ViewNext]_allVars PROVE ViewInv'
  OBVIOUS
<1>1. TypeOK /\ ViewTypeOK /\ ViewTypeOK' /\ AbsentMoveNothing' /\ Explained
  BY ViewTypeStep, AbsentStep, ViewStepIsStep DEF ViewInv, ViewTypeOK
<1>2. SUFFICES UpdatesAreLatest' /\ Explained'
  BY <1>1 DEF ViewInv
<1>3. ASSUME NEW p \in Player, JoinView(p) PROVE UpdatesAreLatest' /\ Explained'
  <2>1. /\ \A r \in Player, f \in Furniture :
               /\ update'[r][f] = IF r = p THEN NoUpdate ELSE update[r][f]
               /\ shownAt'[r] = IF r = p THEN at ELSE shownAt[r]
               /\ r # p => stray'[r] = stray[r] /\ (IsRemote(r)' <=> IsRemote(r))
        /\ moves[p] = <<>> /\ UNCHANGED <<at, shadow, moves>>
    BY <1>1, <1>3
    DEF ViewInv, ViewTypeOK, AbsentMoveNothing, JoinView, Join, clientVars, IsRemote
  <2>2. UpdatesAreLatest'
    BY <2>1 DEF ViewInv, UpdatesAreLatest
  <2>3. QED
    BY <1>1, <2>1, <2>2, NothingFlies DEF Explained, ExplainedAt
<1>4. ASSUME NEW p \in Player,
             \/ ReceiveMoveView(p) \/ LoseMoveView(p)
             \/ \E c \in Component, t \in Value : MoveView(p, c, t) \/ HostMoveView(p, c, t)
      PROVE  UpdatesAreLatest'
  <2>1. UNCHANGED <<joined, shadow, update>>
    BY <1>4
    DEF ReceiveMoveView, ReceiveMove, LoseMoveView, LoseMove, MoveView, MoveFurniture,
        HostMoveView, HostMoveFurniture, serverVars
  <2>2. QED
    BY <2>1 DEF ViewInv, UpdatesAreLatest, IsRemote
<1>5. ASSUME NEW p \in Player, NEW k \in Component, NEW t \in Value, HostMoveView(p, k, t)
      PROVE  Explained'
  <2>1. /\ \A r \in Player : stray[r] \subseteq stray'[r]
        /\ \A r \in Player, f \in Furniture, c \in Component :
               PutBack(f) => <<f, c>> \in stray'[r]
        /\ UNCHANGED <<joined, moves, shadow, update, shownAt>>
    BY <1>1, <1>5 DEF HostMoveView, HostMoveFurniture, clientVars, ViewTypeOK, AllPutBack
  <2>2. ASSUME NEW r \in Player, NEW f \in Furniture, NEW c \in Component
        PROVE  ExplainedAt(r, f, c)'
    BY <1>1, <2>1 DEF Explained, ExplainedAt, PutBack, IsRemote
  <2>3. QED
    BY <2>2 DEF Explained
<1>6. ASSUME NEW p \in Player, OtherStep(p) PROVE UpdatesAreLatest' /\ Explained'
  <2>1. /\ UNCHANGED <<at, shadow, update, shownAt, stray>>
        /\ \A r \in Player : IsRemote(r)' => IsRemote(r) /\ moves'[r] = moves[r]
    BY <1>1, <1>6
    DEF OtherStep, viewVars, Leave, ReceiveRequest, ClickNothing, HostClickNothing,
        ClickFurniture, HostClickFurniture, serverVars, IsRemote, TypeOK
  <2>2. QED
    BY <1>1, <2>1 DEF ViewInv, UpdatesAreLatest, Explained, ExplainedAt
<1>7. ASSUME NEW p \in Player, NEW g \in Furniture, ReceiveUpdate(p, g)
      PROVE  UpdatesAreLatest' /\ Explained'
  <2>1. /\ UNCHANGED <<joined, at, moves, shadow>>
        /\ \A r \in Player, f \in Furniture :
               /\ shownAt'[r][f] = IF r = p /\ f = g THEN update[p][g] ELSE shownAt[r][f]
               /\ update'[r][f] = IF r = p /\ f = g THEN NoUpdate ELSE update[r][f]
               /\ r # p \/ f # g =>
                      \A c \in Component : <<f, c>> \in stray'[r] <=> <<f, c>> \in stray[r]
    BY <1>1, <1>7 DEF ReceiveUpdate, vars, serverVars, clientVars, ViewTypeOK
  <2>2. update[p][g] = shadow[g]
    BY <1>7 DEF ReceiveUpdate, ViewInv, UpdatesAreLatest
  <2>3. QED
    BY <1>1, <2>1, <2>2 DEF ViewInv, UpdatesAreLatest, Explained, ExplainedAt, IsRemote
<1>8. ASSUME NEW g \in Furniture, Replicate(g) PROVE UpdatesAreLatest' /\ Explained'
  <2>1. /\ UNCHANGED <<joined, at, moves, shownAt, stray>> /\ at[g] # NoUpdate
        /\ \A f \in Furniture : shadow'[f] = IF f = g THEN at[g] ELSE shadow[f]
        /\ \A r \in Player, f \in Furniture : IsRemote(r) =>
               update'[r][f] = IF f = g THEN at[g] ELSE update[r][f]
    BY <1>1, <1>8, NoUpdateAssumption
    DEF Replicate, vars, serverVars, clientVars, ViewTypeOK, TypeOK
  <2>2. QED
    BY <1>1, <2>1 DEF ViewInv, UpdatesAreLatest, Explained, ExplainedAt, IsRemote
<1>9. CASE UNCHANGED allVars
  BY <1>1, <1>9
  DEF allVars, viewVars, vars, serverVars, clientVars, ViewInv, UpdatesAreLatest, Explained,
      ExplainedAt, IsRemote
<1>10. QED
  BY <1>3, <1>4, <1>5, <1>6, <1>7, <1>8, <1>9, ReceiveMoveKeeps, LoseMoveKeeps, MoveKeeps
  DEF ViewNext

\* Type correctness, with the updates and the views.
THEOREM ViewTypeCorrect == ViewSpec => []ViewTypeOK
<1>1. ViewInv => ViewTypeOK
  BY DEF ViewInv
<1>2. QED
  BY <1>1, ViewInvInit, ViewInvStep, PTL DEF ViewSpec

\* However drags, updates that overwrite them, swaps, hand-overs, losses, joins
\* and departures mix, a client shows a piece where the server has it once
\* nothing of it is on its way, unless the piece is stray.
THEOREM ViewsAgree == ViewSpec => []AgreeUnlessStray
<1>1. ViewInv => AgreeUnlessStray
  BY NothingFlies
  DEF ViewInv, Explained, ExplainedAt, AgreeUnlessStray, Settled
<1>2. QED
  BY <1>1, ViewInvInit, ViewInvStep, PTL DEF ViewSpec
=============================================================================
