-------------------------- MODULE PlayerVisualsProofs --------------------------
(***************************************************************************)
(* Theorems about PlayerVisuals, for any players, viewers and slots.       *)
(***************************************************************************)
EXTENDS PlayerVisuals, WellFoundedInduction, TLAPS

-----------------------------------------------------------------------------
(* The pool of slots                                                       *)

\* The first free index of a pool that is not full is one of its free
\* indices, and the least of them (TArray::IndexOfByKey).
LEMMA FirstFreeIsFree ==
    ASSUME NEW pool, FreeIndices(pool) # {}
    PROVE  /\ FirstFree(pool) \in FreeIndices(pool)
           /\ \A j \in FreeIndices(pool) : FirstFree(pool) <= j
<1>1. FreeIndices(pool) \subseteq Nat
  BY MaxPlayersAssumption DEF FreeIndices, PoolIndex
<1>2. PICK i \in FreeIndices(pool) :
          \A j \in FreeIndices(pool) : ~(<<j, i>> \in OpToRel(<, Nat))
  BY <1>1, NatLessThanWellFounded, WFMin
<1>3. OpToRel(<, Nat) = {ss \in Nat \X Nat : ss[1] < ss[2]}
  BY DEF OpToRel
<1>4. ASSUME NEW j \in FreeIndices(pool) PROVE i <= j
  <2>1. <<j, i>> \in Nat \X Nat /\ j \in Nat /\ i \in Nat
    BY <1>1
  <2>2. ~(j < i)
    BY <1>2, <1>3, <2>1
  <2>3. QED
    BY <2>1, <2>2
<1>5. QED
  BY <1>4 DEF FirstFree

\* Slot numbers are integers, and 0 is neither one of them nor -1.
LEMMA SlotNumbers ==
    /\ StencilSlots \subseteq Int /\ NoStencilSlot \in Int
    /\ 0 \notin StencilSlots /\ NoStencilSlot # 0
<1>1. NoStencilSlot \in Int /\ NoStencilSlot # 0
  BY DEF NoStencilSlot
<1>2. StencilSlots \subseteq Int /\ 0 \notin StencilSlots
  BY MaxPlayersAssumption DEF StencilSlots, MinStencilSlot
<1>3. QED
  BY <1>1, <1>2

LEMMA SlotIsInteger ==
    ASSUME NEW s \in StencilSlots \cup {0, NoStencilSlot}
    PROVE  s \in Int
  BY SlotNumbers

\* Reserving returns a slot number of the pool or -1, and keeps the pool a
\* pool.
LEMMA ReserveType ==
    ASSUME NEW pool \in [PoolIndex -> BOOLEAN]
    PROVE  /\ ReservedSlot(pool) \in StencilSlots \cup {NoStencilSlot}
           /\ ReserveStencilSlot(pool) \in [PoolIndex -> BOOLEAN]
<1>1. CASE FreeIndices(pool) = {}
  BY <1>1 DEF ReservedSlot, ReserveStencilSlot
<1>2. CASE FreeIndices(pool) # {}
  <2>1. FirstFree(pool) \in PoolIndex
    BY <1>2, FirstFreeIsFree DEF FreeIndices
  <2>2. FirstFree(pool) + MinStencilSlot \in StencilSlots
    BY <2>1, MaxPlayersAssumption DEF PoolIndex, StencilSlots, MinStencilSlot
  <2>3. QED
    BY <1>2, <2>1, <2>2 DEF ReservedSlot, ReserveStencilSlot
<1>3. QED
  BY <1>1, <1>2

\* A slot that is reserved was free, and marking it leaves the marks of the
\* others alone.
LEMMA ReserveMarks ==
    ASSUME NEW pool \in [PoolIndex -> BOOLEAN], NEW s \in StencilSlots
    PROVE  /\ pool[s - MinStencilSlot] => ReservedSlot(pool) # s
           /\ ReservedSlot(pool) = s \/ pool[s - MinStencilSlot]
                  => ReserveStencilSlot(pool)[s - MinStencilSlot]
<1>1. s - MinStencilSlot \in PoolIndex /\ s \in Int
  BY MaxPlayersAssumption DEF StencilSlots, PoolIndex, MinStencilSlot
<1>2. CASE FreeIndices(pool) = {}
  BY <1>1, <1>2, SlotNumbers
  DEF FreeIndices, ReservedSlot, ReserveStencilSlot, StencilSlots, NoStencilSlot,
      MinStencilSlot
<1>3. CASE FreeIndices(pool) # {}
  <2> DEFINE k == FirstFree(pool)
  <2>1. k \in PoolIndex /\ ~pool[k] /\ k \in Int
    BY <1>3, FirstFreeIsFree, MaxPlayersAssumption DEF FreeIndices, PoolIndex
  <2>2. ReservedSlot(pool) = k + MinStencilSlot
    BY <1>3 DEF ReservedSlot
  <2>3. ReserveStencilSlot(pool) = [pool EXCEPT ![k] = TRUE]
    BY <1>3 DEF ReserveStencilSlot
  <2> HIDE DEF k
  <2>4. k + MinStencilSlot = s <=> k = s - MinStencilSlot
    BY <1>1, <2>1 DEF MinStencilSlot
  <2>5. QED
    BY <1>1, <2>1, <2>2, <2>3, <2>4
<1>4. QED
  BY <1>2, <1>3

\* Releasing a slot leaves the marks of the others alone.
LEMMA ReleaseKeepsOthers ==
    ASSUME NEW pool \in [PoolIndex -> BOOLEAN],
           NEW r \in StencilSlots \cup {0, NoStencilSlot},
           NEW s \in StencilSlots, s # r
    PROVE  ReleaseStencilSlot(pool, r)[s - MinStencilSlot] = pool[s - MinStencilSlot]
<1>1. s - MinStencilSlot \in PoolIndex
  BY MaxPlayersAssumption DEF StencilSlots, PoolIndex, MinStencilSlot
<1>2. s - MinStencilSlot # r - MinStencilSlot
  BY SlotIsInteger, SlotNumbers DEF MinStencilSlot
<1>3. QED
  BY <1>1, <1>2 DEF ReleaseStencilSlot

-----------------------------------------------------------------------------
(* Type correctness                                                        *)

LEMMA SlotColorType ==
    ASSUME NEW s \in StencilSlots \cup {NoStencilSlot}
    PROVE  SlotColor(s) \in Colors
  BY DEF SlotColor, Colors

LEMMA KnownColorType ==
    ASSUME TypeOK, NEW p \in Player, NEW parts \in SUBSET Parts
    PROVE  KnownColor(parts, p) \in Colors
  BY DEF TypeOK, KnownColor, Colors

LEMMA TypeOKInit == Init => TypeOK
  BY DEF Init, TypeOK, EmptyPool, Colors

LEMMA TypeOKStep == TypeOK /\ [Next]_vars => TypeOK'
<1> SUFFICES ASSUME TypeOK, [Next]_vars PROVE TypeOK'
  OBVIOUS
<1> USE DEF TypeOK
<1>1. ASSUME NEW p \in Player, Enter(p) PROVE TypeOK'
  BY <1>1 DEF Enter, viewerVars, Colors
<1>2. ASSUME NEW p \in Player, BeginPlay(p) PROVE TypeOK'
  BY <1>2, ReserveType, SlotColorType DEF BeginPlay, viewerVars
<1>3. ASSUME NEW p \in Player, PossessedBy(p) PROVE TypeOK'
  BY <1>3 DEF PossessedBy, viewerVars
<1>4. ASSUME NEW p \in Player, NextTick(p) PROVE TypeOK'
  BY <1>4 DEF NextTick, viewerVars
<1>5. ASSUME NEW p \in Player, EndPlay(p) PROVE TypeOK'
  BY <1>5 DEF EndPlay, ReleaseStencilSlot
<1>6. ASSUME NEW p \in Player, NEW v \in Viewer, NEW arrived \in SUBSET Properties,
             OnRepProperties(v, p, arrived)
      PROVE  TypeOK'
  <2>1. seen[v][p] \cup arrived \in SUBSET Parts
    BY DEF Parts
  <2>2. KnownColor(seen[v][p] \cup arrived, p) \in Colors
    BY <2>1, KnownColorType
  <2>3. QED
    BY <1>6, <2>1, <2>2 DEF OnRepProperties, serverVars
<1>7. ASSUME NEW p \in Player, NEW v \in Viewer, OnRepPlayerState(v, p) PROVE TypeOK'
  <2>1. KnownColor(seen[v][p], p) \in Colors
    BY KnownColorType
  <2>2. seen[v][p] \cup {Link} \in SUBSET Parts
    BY DEF Parts
  <2>3. QED
    BY <1>7, <2>1, <2>2 DEF OnRepPlayerState, serverVars
<1>8. ASSUME NEW p \in Player, NEW v \in Viewer,
             \/ PawnOutOfRange(v, p) \/ PlayerStateDestroyed(v, p) \/ PawnDestroyed(v, p)
      PROVE  TypeOK'
  <2>1. CASE PawnOutOfRange(v, p)
    BY <2>1 DEF PawnOutOfRange, serverVars
  <2>2. CASE PlayerStateDestroyed(v, p)
    BY <2>2 DEF PlayerStateDestroyed, serverVars
  <2>3. CASE PawnDestroyed(v, p)
    BY <2>3 DEF PawnDestroyed, serverVars
  <2>4. QED
    BY <1>8, <2>1, <2>2, <2>3
<1>9. CASE UNCHANGED vars
  BY <1>9 DEF vars, serverVars, viewerVars
<1>10. QED
  BY <1>1, <1>2, <1>3, <1>4, <1>5, <1>6, <1>7, <1>8, <1>9 DEF Next

\* Type correctness: for any number of players, every slot a player holds is one
\* of the pool or a sentinel, every colour one of the collection.
THEOREM TypeCorrect == Spec => []TypeOK
<1>1. Init => TypeOK
  BY TypeOKInit
<1>2. TypeOK /\ [Next]_vars => TypeOK'
  BY TypeOKStep
<1>3. QED
  BY <1>1, <1>2, PTL DEF Spec

-----------------------------------------------------------------------------
(* What viewers keep                                                       *)

\* A player state that has not begun play has neither a slot nor its colour.
NewIsBlank == \A p \in entered \ begun : stencil[p] = 0

\* What a viewer has of a player goes with the two actors.
GoneIsForgotten ==
    \A v \in Viewer, p \in Player :
        /\ ~Known(v, p, "PlayerState") => seen[v][p] = {}
        /\ ~Known(v, p, "Pawn") => Link \notin seen[v][p] /\ shown[v][p] = Unpainted

\* The properties of a player state are sent only once it has begun play.
NothingSent ==
    \A v \in Viewer, p \in Player : stencil[p] = 0 => seen[v][p] \cap Properties = {}

CopiesInv == TypeOK /\ NewIsBlank /\ GoneIsForgotten /\ NothingSent

LEMMA CopiesInvInit == Init => CopiesInv
  BY TypeOKInit DEF Init, CopiesInv, NewIsBlank, GoneIsForgotten, NothingSent

\* A step of one player leaves what the viewers have of the others alone.
LEMMA OthersAreLeftAlone ==
    ASSUME TypeOK, NEW p \in Player, NEW v \in Viewer,
           \/ \E arrived \in SUBSET Properties : OnRepProperties(v, p, arrived)
           \/ OnRepPlayerState(v, p)
           \/ PawnOutOfRange(v, p) \/ PlayerStateDestroyed(v, p) \/ PawnDestroyed(v, p)
    PROVE  /\ UNCHANGED serverVars
           /\ \A w \in Viewer, q \in Player : w # v \/ q # p =>
                  /\ leaving'[w][q] = leaving[w][q]
                  /\ seen'[w][q] = seen[w][q]
                  /\ shown'[w][q] = shown[w][q]
<1>1. /\ UNCHANGED serverVars
      /\ \E c : shown' = [shown EXCEPT ![v][p] = c] \/ shown' = shown
      /\ \E c : seen' = [seen EXCEPT ![v][p] = c]
      /\ \E c : leaving' = [leaving EXCEPT ![v][p] = c] \/ leaving' = leaving
  BY DEF OnRepProperties, OnRepPlayerState, PawnOutOfRange, PlayerStateDestroyed,
         PawnDestroyed
<1>2. QED
  BY <1>1 DEF TypeOK

LEMMA CopiesInvStep == CopiesInv /\ [Next]_vars => CopiesInv'
<1> SUFFICES ASSUME CopiesInv, [Next]_vars PROVE CopiesInv'
  OBVIOUS
<1>0. TypeOK /\ TypeOK'
  BY TypeOKStep DEF CopiesInv
<1> USE DEF CopiesInv, NewIsBlank, GoneIsForgotten, NothingSent
<1>1. ASSUME NEW p \in Player, Enter(p) PROVE CopiesInv'
  <2>1. \A v \in Viewer : seen[v][p] = {}
    BY <1>1 DEF Enter, Known
  <2>2. \A q \in Player : q # p => stencil'[q] = stencil[q]
    BY <1>0, <1>1 DEF Enter, TypeOK
  <2>3. stencil'[p] = 0
    BY <1>0, <1>1 DEF Enter, TypeOK
  <2>4. NewIsBlank'
    BY <1>0, <1>1, <2>2, <2>3 DEF Enter, TypeOK
  <2>5. GoneIsForgotten'
    BY <1>1 DEF Enter, Known, viewerVars
  <2>6. NothingSent'
    BY <1>1, <2>1, <2>2 DEF Enter, viewerVars
  <2>7. QED
    BY <1>0, <2>4, <2>5, <2>6
<1>2. ASSUME NEW p \in Player, BeginPlay(p) PROVE CopiesInv'
  <2>1. \A q \in Player : q # p => stencil'[q] = stencil[q]
    BY <1>0, <1>2 DEF BeginPlay, TypeOK
  <2>2. stencil[p] = 0
    BY <1>2 DEF BeginPlay
  <2>3. NewIsBlank'
    BY <1>0, <1>2, <2>1 DEF BeginPlay, TypeOK
  <2>4. GoneIsForgotten'
    BY <1>2 DEF BeginPlay, Known, viewerVars
  <2>5. NothingSent'
    BY <1>2, <2>1, <2>2 DEF BeginPlay, viewerVars
  <2>6. QED
    BY <1>0, <2>3, <2>4, <2>5
<1>3. ASSUME NEW p \in Player, PossessedBy(p) \/ NextTick(p) PROVE CopiesInv'
  BY <1>0, <1>3 DEF PossessedBy, NextTick, viewerVars, Known
<1>4. ASSUME NEW p \in Player, EndPlay(p) PROVE CopiesInv'
  <2>1. \A v \in Viewer, q \in Player :
            leaving'[v][q] = IF q = p THEN Actors ELSE leaving[v][q]
    BY <1>0, <1>4 DEF EndPlay, TypeOK
  <2>2. GoneIsForgotten'
    BY <1>4, <2>1 DEF EndPlay, Known, Actors
  <2>3. NewIsBlank' /\ NothingSent'
    BY <1>4 DEF EndPlay
  <2>4. QED
    BY <1>0, <2>2, <2>3
<1>5. ASSUME NEW p \in Player, NEW v \in Viewer, NEW arrived \in SUBSET Properties,
             OnRepProperties(v, p, arrived)
      PROVE  CopiesInv'
  <2>1. /\ UNCHANGED serverVars
        /\ \A w \in Viewer, q \in Player : w # v \/ q # p =>
               /\ leaving'[w][q] = leaving[w][q]
               /\ seen'[w][q] = seen[w][q]
               /\ shown'[w][q] = shown[w][q]
    BY <1>0, <1>5, OthersAreLeftAlone
  <2>2. /\ leaving'[v][p] = leaving[v][p]
        /\ seen'[v][p] = seen[v][p] \cup arrived
        /\ Link \notin seen[v][p] => shown'[v][p] = shown[v][p]
        /\ Known(v, p, "PlayerState") /\ stencil[p] # 0
    BY <1>0, <1>5 DEF OnRepProperties, TypeOK
  <2>3. Link \notin arrived
    BY DEF Link, Properties
  <2>4. NewIsBlank'
    BY <2>1 DEF serverVars
  <2>5. NothingSent'
    BY <2>1, <2>2 DEF serverVars
  <2>6. GoneIsForgotten'
    BY <2>1, <2>2, <2>3 DEF Known, serverVars
  <2>7. QED
    BY <1>0, <2>4, <2>5, <2>6
<1>6. ASSUME NEW p \in Player, NEW v \in Viewer,
             \/ OnRepPlayerState(v, p)
             \/ PawnOutOfRange(v, p) \/ PlayerStateDestroyed(v, p) \/ PawnDestroyed(v, p)
      PROVE  CopiesInv'
  <2>1. /\ UNCHANGED serverVars
        /\ \A w \in Viewer, q \in Player : w # v \/ q # p =>
               /\ leaving'[w][q] = leaving[w][q]
               /\ seen'[w][q] = seen[w][q]
               /\ shown'[w][q] = shown[w][q]
    BY <1>0, <1>6, OthersAreLeftAlone
  <2>2. Link \notin Properties
    BY DEF Link, Properties
  <2>3. seen'[v][p] \subseteq seen[v][p] \cup {Link}
    BY <1>0, <1>6 DEF OnRepPlayerState, PawnOutOfRange, PlayerStateDestroyed, PawnDestroyed,
                      TypeOK
  <2>4. NewIsBlank'
    BY <2>1 DEF serverVars
  <2>5. NothingSent'
    BY <2>1, <2>2, <2>3 DEF serverVars
  <2>6. ASSUME ~Known(v, p, "PlayerState")' PROVE seen'[v][p] = {}
    BY <1>0, <1>6, <2>1, <2>6
    DEF OnRepPlayerState, PawnOutOfRange, PlayerStateDestroyed, PawnDestroyed, TypeOK,
        Known, serverVars
  <2>7. ASSUME ~Known(v, p, "Pawn")'
        PROVE  Link \notin seen'[v][p] /\ shown'[v][p] = Unpainted
    BY <1>0, <1>6, <2>1, <2>7
    DEF OnRepPlayerState, PawnOutOfRange, PlayerStateDestroyed, PawnDestroyed, TypeOK,
        Known, serverVars
  <2>8. GoneIsForgotten'
    BY <2>1, <2>6, <2>7 DEF Known, serverVars
  <2>9. QED
    BY <1>0, <2>4, <2>5, <2>8
<1>7. CASE UNCHANGED vars
  BY <1>0, <1>7 DEF vars, serverVars, viewerVars, Known
<1>8. QED
  BY <1>1, <1>2, <1>3, <1>4, <1>5, <1>6, <1>7 DEF Next

-----------------------------------------------------------------------------
(* Painting                                                                *)

PaintInv == CopiesInv /\ ServerPaints /\ EveryOrderingPaintsHolders

LEMMA PaintInvInit == Init => PaintInv
  BY CopiesInvInit
  DEF Init, PaintInv, ServerPaints, EveryOrderingPaintsHolders, Parts

LEMMA PaintInvStep == PaintInv /\ [Next]_vars => PaintInv'
<1> SUFFICES ASSUME PaintInv, [Next]_vars PROVE PaintInv'
  OBVIOUS
<1>0. CopiesInv' /\ TypeOK
  BY CopiesInvStep DEF PaintInv, CopiesInv
<1> USE DEF PaintInv, ServerPaints, EveryOrderingPaintsHolders
<1>1. ASSUME NEW p \in Player, Enter(p) PROVE PaintInv'
  <2>1. \A q \in Player : q # p => /\ stencil'[q] = stencil[q] /\ color'[q] = color[q]
                                   /\ body'[q] = body[q]
    BY <1>0, <1>1 DEF Enter, TypeOK
  <2>2. \A v \in Viewer : seen'[v][p] # Parts
    BY <1>1 DEF Enter, viewerVars, CopiesInv, GoneIsForgotten, Known, Parts
  <2>3. p \notin begun'
    BY <1>0, <1>1 DEF Enter, TypeOK
  <2>4. QED
    BY <1>0, <1>1, <2>1, <2>2, <2>3 DEF Enter, viewerVars
<1>2. ASSUME NEW p \in Player, BeginPlay(p) PROVE PaintInv'
  <2>1. \A q \in Player : q # p => stencil'[q] = stencil[q] /\ color'[q] = color[q]
    BY <1>0, <1>2 DEF BeginPlay, TypeOK
  <2>2. \A v \in Viewer : seen'[v][p] # Parts
    BY <1>2 DEF BeginPlay, viewerVars, Parts, Properties, CopiesInv, NewIsBlank, NothingSent
  <2>3. QED
    BY <1>0, <1>2, <2>1, <2>2 DEF BeginPlay, viewerVars, TypeOK
<1>3. ASSUME NEW p \in Player, PossessedBy(p) PROVE PaintInv'
  BY <1>0, <1>3 DEF PossessedBy, viewerVars, TypeOK
<1>4. ASSUME NEW p \in Player, NextTick(p) PROVE PaintInv'
  BY <1>0, <1>4 DEF NextTick, viewerVars, TypeOK
<1>5. ASSUME NEW p \in Player, EndPlay(p) PROVE PaintInv'
  BY <1>0, <1>5 DEF EndPlay
<1>6. ASSUME NEW p \in Player, NEW v \in Viewer, NEW arrived \in SUBSET Properties,
             OnRepProperties(v, p, arrived)
      PROVE  PaintInv'
  <2>1. /\ UNCHANGED serverVars
        /\ \A w \in Viewer, q \in Player : w # v \/ q # p =>
               seen'[w][q] = seen[w][q] /\ shown'[w][q] = shown[w][q]
    BY <1>0, <1>6, OthersAreLeftAlone
  <2>2. seen'[v][p] = seen[v][p] \cup arrived
    BY <1>0, <1>6 DEF OnRepProperties, TypeOK
  <2>3. seen'[v][p] = Parts => shown'[v][p] = color[p]
    <3>1. SUFFICES ASSUME seen'[v][p] = Parts PROVE shown'[v][p] = color[p]
      OBVIOUS
    <3>2. Link \in seen[v][p] /\ "AssignedColor" \in seen[v][p] \cup arrived
      BY <2>2, <3>1 DEF Parts, Properties, Link
    <3>3. QED
      BY <1>0, <1>6, <3>2 DEF OnRepProperties, KnownColor, TypeOK
  <2>4. QED
    BY <1>0, <2>1, <2>3 DEF serverVars
<1>7. ASSUME NEW p \in Player, NEW v \in Viewer, OnRepPlayerState(v, p) PROVE PaintInv'
  <2>1. /\ UNCHANGED serverVars
        /\ \A w \in Viewer, q \in Player : w # v \/ q # p =>
               seen'[w][q] = seen[w][q] /\ shown'[w][q] = shown[w][q]
    BY <1>0, <1>7, OthersAreLeftAlone
  <2>2. seen'[v][p] = seen[v][p] \cup {Link}
    BY <1>0, <1>7 DEF OnRepPlayerState, TypeOK
  <2>3. seen'[v][p] = Parts /\ stencil[p] > 0 => shown'[v][p] = color[p]
    <3>1. SUFFICES ASSUME seen'[v][p] = Parts, stencil[p] > 0
                   PROVE  shown'[v][p] = color[p]
      OBVIOUS
    <3>2. "StencilSlot" \in seen[v][p] /\ "AssignedColor" \in seen[v][p]
      BY <2>2, <3>1 DEF Parts, Properties, Link
    <3>3. QED
      BY <1>0, <1>7, <3>1, <3>2 DEF OnRepPlayerState, KnownColor, KnownSlot, TypeOK
  <2>4. QED
    BY <1>0, <2>1, <2>3 DEF serverVars
<1>8. ASSUME NEW p \in Player, NEW v \in Viewer,
             \/ PawnOutOfRange(v, p) \/ PlayerStateDestroyed(v, p) \/ PawnDestroyed(v, p)
      PROVE  PaintInv'
  <2>1. /\ UNCHANGED serverVars
        /\ \A w \in Viewer, q \in Player : w # v \/ q # p =>
               seen'[w][q] = seen[w][q] /\ shown'[w][q] = shown[w][q]
    BY <1>0, <1>8, OthersAreLeftAlone
  <2>2. Link \notin seen'[v][p]
    BY <1>0, <1>8 DEF PawnOutOfRange, PlayerStateDestroyed, PawnDestroyed, TypeOK
  <2>3. seen'[v][p] # Parts
    BY <2>2 DEF Parts
  <2>4. QED
    BY <1>0, <2>1, <2>3 DEF serverVars
<1>9. CASE UNCHANGED vars
  BY <1>0, <1>9 DEF vars, serverVars, viewerVars
<1>10. QED
  BY <1>1, <1>2, <1>3, <1>4, <1>5, <1>6, <1>7, <1>8, <1>9 DEF Next

\* In whatever order the properties of a player who holds a slot and the link
\* to its pawn arrive, and however often the pawn goes out of range, every
\* viewer ends up with the player's colour.
THEOREM ReplicationPaints == Spec => []EveryOrderingPaintsHolders
<1>1. PaintInv => EveryOrderingPaintsHolders
  BY DEF PaintInv
<1>2. QED
  BY <1>1, PaintInvInit, PaintInvStep, PTL DEF Spec

\* On the server the order of BeginPlay, PossessedBy and the callback of the
\* next tick does not matter either.
THEOREM ServerPaintsAll == Spec => []ServerPaints
<1>1. PaintInv => ServerPaints
  BY DEF PaintInv
<1>2. QED
  BY <1>1, PaintInvInit, PaintInvStep, PTL DEF Spec

\* Whatever the order on the server and on its way, holders wear their colours.
THEOREM HoldersStayPainted == Spec => []HoldersArePainted
<1>1. ServerPaints /\ EveryOrderingPaintsHolders => HoldersArePainted
  BY DEF HoldersArePainted
<1>2. QED
  BY <1>1, ServerPaintsAll, ReplicationPaints, PTL

-----------------------------------------------------------------------------
(* Distinct colours                                                        *)

\* The slot of a player who is there is marked, and nobody else who is there
\* has it.
SlotsDistinct ==
    \A p \in begun : stencil[p] \in StencilSlots =>
        /\ used[stencil[p] - MinStencilSlot]
        /\ \A q \in begun : stencil[q] = stencil[p] => q = p

\* The colour of a slot belongs to whoever has the slot, or had it when it left,
\* on the server and on every viewer.
OwnColors ==
    /\ \A p \in Player : color[p] \in StencilSlots => color[p] = stencil[p]
    /\ \A p \in Player, v \in Viewer :
           shown[v][p] \in StencilSlots => shown[v][p] = color[p]

ColorInv == CopiesInv /\ SlotsDistinct /\ OwnColors

LEMMA WhiteIsNoSlot == White \notin StencilSlots /\ Unpainted \notin StencilSlots
  BY DEF White, Unpainted, StencilSlots, MinStencilSlot

LEMMA ColorInvInit == Init => ColorInv
  BY CopiesInvInit, WhiteIsNoSlot, SlotNumbers DEF Init, ColorInv, SlotsDistinct, OwnColors

LEMMA BlackIsNoSlot == Black \notin StencilSlots
  BY DEF Black, StencilSlots, MinStencilSlot

\* The name of a player is given again when no viewer shows its pawn any more.
LEMMA EnterKeepsColors ==
    ASSUME ColorInv, NEW p \in Player, Enter(p)
    PROVE  SlotsDistinct' /\ OwnColors'
<1>1. /\ \A q \in Player : /\ stencil'[q] = IF q = p THEN 0 ELSE stencil[q]
                           /\ color'[q] = IF q = p THEN White ELSE color[q]
      /\ used' = used /\ begun' = begun /\ shown' = shown
      /\ p \notin begun /\ begun \subseteq Player
  BY DEF Enter, ColorInv, CopiesInv, TypeOK, viewerVars
<1>2. \A v \in Viewer : shown[v][p] = Unpainted
  BY DEF Enter, ColorInv, CopiesInv, GoneIsForgotten, Known
<1>3. QED
  BY <1>1, <1>2, WhiteIsNoSlot DEF ColorInv, SlotsDistinct, OwnColors

LEMMA BeginPlayKeepsColors ==
    ASSUME ColorInv, NEW p \in Player, BeginPlay(p)
    PROVE  SlotsDistinct' /\ OwnColors'
<1> DEFINE s == ReservedSlot(used)
<1>1. /\ \A q \in Player : /\ stencil'[q] = IF q = p THEN s ELSE stencil[q]
                           /\ color'[q] = IF q = p THEN SlotColor(s) ELSE color[q]
      /\ used' = ReserveStencilSlot(used)
      /\ begun' = begun \cup {p} /\ p \notin begun /\ begun \subseteq Player
      /\ shown' = shown
  BY DEF BeginPlay, ColorInv, CopiesInv, TypeOK, viewerVars
<1>2. s \in StencilSlots \cup {NoStencilSlot} /\ NoStencilSlot \notin StencilSlots
  BY ReserveType DEF ColorInv, CopiesInv, TypeOK, StencilSlots, MinStencilSlot, NoStencilSlot
<1>3. \A q \in begun : stencil[q] \in StencilSlots =>
          /\ stencil[q] # s
          /\ used'[stencil[q] - MinStencilSlot]
  BY <1>1, ReserveMarks DEF ColorInv, CopiesInv, TypeOK, SlotsDistinct
<1>4. s \in StencilSlots => used'[s - MinStencilSlot]
  BY <1>1, ReserveMarks DEF ColorInv, CopiesInv, TypeOK
<1> HIDE DEF s
<1>5. SlotsDistinct'
  BY <1>1, <1>2, <1>3, <1>4 DEF ColorInv, SlotsDistinct
<1>6. SlotColor(s) \in StencilSlots => SlotColor(s) = s
  BY BlackIsNoSlot DEF SlotColor
<1>7. stencil[p] = 0
  BY DEF BeginPlay, ColorInv, CopiesInv, NewIsBlank
<1>8. \A v \in Viewer : shown[v][p] \notin StencilSlots
  BY <1>7, SlotNumbers DEF ColorInv, OwnColors
<1>9. OwnColors'
  BY <1>1, <1>6, <1>8 DEF ColorInv, OwnColors
<1>10. QED
  BY <1>5, <1>9

LEMMA EndPlayKeepsColors ==
    ASSUME ColorInv, NEW p \in Player, EndPlay(p)
    PROVE  SlotsDistinct' /\ OwnColors'
<1>1. /\ used' = ReleaseStencilSlot(used, stencil[p])
      /\ begun' = begun \ {p} /\ begun \subseteq Player
      /\ UNCHANGED <<stencil, color, shown>>
  BY DEF EndPlay, ColorInv, CopiesInv, TypeOK
<1>2. \A q \in begun : q # p /\ stencil[q] \in StencilSlots /\ stencil[q] # stencil[p] =>
          used'[stencil[q] - MinStencilSlot]
  BY <1>1, ReleaseKeepsOthers DEF ColorInv, CopiesInv, TypeOK, SlotsDistinct
<1>3. \A q \in begun : q # p /\ stencil[q] \in StencilSlots => stencil[q] # stencil[p]
  <2>1. CASE p \in begun
    BY <2>1 DEF ColorInv, SlotsDistinct
  <2>2. CASE p \notin begun
    BY <2>2, SlotNumbers DEF EndPlay, ColorInv, CopiesInv, NewIsBlank
  <2>3. QED
    BY <2>1, <2>2
<1>4. SlotsDistinct'
  BY <1>1, <1>2, <1>3 DEF ColorInv, SlotsDistinct
<1>5. OwnColors'
  BY <1>1 DEF ColorInv, OwnColors
<1>6. QED
  BY <1>4, <1>5

\* A viewer paints a pawn with the colour of its player or with the initial
\* one.
LEMMA PaintsOwnColor ==
    ASSUME ColorInv, NEW p \in Player, NEW v \in Viewer,
           \/ \E arrived \in SUBSET Properties : OnRepProperties(v, p, arrived)
           \/ OnRepPlayerState(v, p)
           \/ PawnOutOfRange(v, p) \/ PlayerStateDestroyed(v, p) \/ PawnDestroyed(v, p)
    PROVE  SlotsDistinct' /\ OwnColors'
<1>0. TypeOK
  BY DEF ColorInv, CopiesInv
<1>1. /\ UNCHANGED serverVars
      /\ \A w \in Viewer, q \in Player : w # v \/ q # p => shown'[w][q] = shown[w][q]
  BY <1>0, OthersAreLeftAlone
<1>2. shown'[v][p] \in {shown[v][p], Unpainted, White, color[p]}
  BY <1>0 DEF OnRepPlayerState, PawnOutOfRange, PlayerStateDestroyed, PawnDestroyed,
              OnRepProperties, KnownColor, TypeOK
<1>3. OwnColors'
  BY <1>1, <1>2, WhiteIsNoSlot DEF serverVars, ColorInv, OwnColors
<1>4. SlotsDistinct'
  BY <1>1 DEF serverVars, ColorInv, SlotsDistinct
<1>5. QED
  BY <1>3, <1>4

LEMMA ColorInvStep == ColorInv /\ [Next]_vars => ColorInv'
<1> SUFFICES ASSUME ColorInv, [Next]_vars PROVE ColorInv'
  OBVIOUS
<1>1. CopiesInv'
  BY CopiesInvStep DEF ColorInv
<1>2. CASE \E p \in Player : Enter(p)
  BY <1>1, <1>2, EnterKeepsColors DEF ColorInv
<1>3. CASE \E p \in Player : BeginPlay(p)
  BY <1>1, <1>3, BeginPlayKeepsColors DEF ColorInv
<1>4. CASE \E p \in Player : EndPlay(p)
  BY <1>1, <1>4, EndPlayKeepsColors DEF ColorInv
<1>5. CASE \E p \in Player, v \in Viewer :
               \/ \E arrived \in SUBSET Properties : OnRepProperties(v, p, arrived)
               \/ OnRepPlayerState(v, p)
               \/ PawnOutOfRange(v, p) \/ PlayerStateDestroyed(v, p) \/ PawnDestroyed(v, p)
  BY <1>1, <1>5, PaintsOwnColor DEF ColorInv
<1>6. CASE (\E p \in Player : PossessedBy(p) \/ NextTick(p)) \/ UNCHANGED vars
  <2>1. UNCHANGED <<begun, used, stencil, color, shown>>
    BY <1>6 DEF PossessedBy, NextTick, vars, serverVars, viewerVars
  <2>2. QED
    BY <1>1, <2>1 DEF ColorInv, SlotsDistinct, OwnColors
<1>7. QED
  BY <1>2, <1>3, <1>4, <1>5, <1>6 DEF Next

\* Slots are handed on while viewers still show the pawns of earlier holders:
\* of two pawns in the colour of one slot, one has left and waits for its
\* destruction, and nobody wears the colour of a slot it never had.
THEOREM ColorsAreDistinct == Spec => []SharedOnlyWithLeavers
<1>1. ColorInv => SharedOnlyWithLeavers
  <2> SUFFICES ASSUME ColorInv, NEW v \in Viewer, NEW p \in Player, NEW q \in Player,
                      shown[v][p] \in StencilSlots
               PROVE  /\ shown[v][p] = stencil[p] /\ Known(v, p, "Pawn")
                      /\ shown[v][p] = shown[v][q] /\ p # q
                             => "Pawn" \in leaving[v][p] \cup leaving[v][q]
    BY DEF SharedOnlyWithLeavers
  <2>1. \A r \in Player : shown[v][r] \in StencilSlots => shown[v][r] = stencil[r]
    BY DEF ColorInv, OwnColors
  <2>2. \A r \in Player : shown[v][r] \in StencilSlots => Known(v, r, "Pawn")
    BY WhiteIsNoSlot DEF ColorInv, CopiesInv, GoneIsForgotten
  <2>3. \A r \in entered : stencil[r] \in StencilSlots => r \in begun
    BY SlotNumbers DEF ColorInv, CopiesInv, NewIsBlank
  <2>4. ASSUME shown[v][p] = shown[v][q], p # q,
               "Pawn" \notin leaving[v][p] \cup leaving[v][q]
        PROVE  FALSE
    <3>1. p \in entered /\ q \in entered
      BY <2>2, <2>4 DEF Known
    <3>2. stencil[p] = stencil[q] /\ stencil[p] \in StencilSlots
      BY <2>1, <2>4
    <3>3. QED
      BY <2>3, <2>4, <3>1, <3>2 DEF ColorInv, SlotsDistinct
  <2>5. QED
    BY <2>1, <2>2, <2>4
<1>2. QED
  BY <1>1, ColorInvInit, ColorInvStep, PTL DEF Spec
=============================================================================
