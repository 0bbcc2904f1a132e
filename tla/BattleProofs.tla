----------------------------- MODULE BattleProofs -----------------------------
(***************************************************************************)
(* Proofs about Battle for any players, NPCs, intervals and amounts: the   *)
(* types; an NPC has one chain of moves and one of attacks at most, and a  *)
(* dead one exactly one respawn; no NPC is frozen in a view list; whoever  *)
(* is dead comes back; a heal is under way for the wounded; a respawn that *)
(* takes a live player home was registered for the id's last holder.       *)
(***************************************************************************)
EXTENDS Battle, TLAPS

-----------------------------------------------------------------------------
(* The invariant *)

\* Timer events, however late.
Event ==
    [kind : {"move", "attack", "npcRespawn", "heal", "respawn"}, obj : Players \cup NPCs,
     target : Players \cup {None}, login : Nat, wait : Int]

\* The events of a kind for an object, and the respawns of p's l-th login.
Of(kind, obj) == {e \in Event : e.kind = kind /\ e.obj = obj}
Own(p, l) == {e \in Of("respawn", p) : e.login = l}

(***************************************************************************)
(* A chain: while the flag is set one event of K is outstanding, once, and *)
(* otherwise none.                                                         *)
(***************************************************************************)
One(B, K) == \E e \in BagToSet(B) : BagToSet(B) \cap K = {e} /\ B[e] = 1
Nothing(B, K) == BagToSet(B) \cap K = {}
Chain(B, flag, K) == (flag => One(B, K)) /\ (~flag => Nothing(B, K))

\* An event is for an object of its kind, is due an interval after it was
\* registered at the latest, and names a login there has been.
Fits(e, logins) ==
    /\ e.kind \in {"move", "attack", "npcRespawn"} => e.obj \in NPCs
    /\ e.kind = "attack" => e.target \in Players
    /\ e.kind \in {"heal", "respawn"} => e.obj \in Players
    /\ e.kind = "move" => e.wait <= MoveDelay
    /\ e.kind = "attack" => e.wait <= AttackDelay
    /\ e.kind = "respawn" => e.login <= logins[e.obj]

EventsFit(B, logins) ==
    IsABag(B) /\ \A e \in BagToSet(B) : e \in Timer /\ Fits(e, logins)

Healthy == \A n \in NPCs : alive[n] => npcHp[n] > 0

TypesInv == TypeOK /\ EventsFit(timers, login) /\ Healthy

\* The events that a dead NPC has left behind are due before its respawn.
LeftoversFirst(B) ==
    \A e, r \in BagToSet(B) :
      /\ e.kind \in {"move", "attack"}
      /\ r.kind = "npcRespawn"
      /\ e.obj = r.obj
      => e.wait < r.wait

\* What is under way for an NPC with these flags.
Chains(B, n, living, moving, biting) ==
    /\ Chain(B, ~living, Of("npcRespawn", n))
    /\ living => Chain(B, moving, Of("move", n))
    /\ living => Chain(B, biting, Of("attack", n))

NPCEvents(B, living, moving, biting) ==
    /\ LeftoversFirst(B)
    /\ \A n \in NPCs : Chains(B, n, living[n], moving[n], biting[n])

NPCInv == NPCEvents(timers, alive, active, attacking)

\* What a player with a session sees is alive, in view and active.
SeenInv ==
    \A p \in Players, n \in NPCs :
      Linked(p) /\ n \in view[p] => alive[n] /\ Visible(zone, n, p) /\ active[n]

(***************************************************************************)
(* What p waits for: a respawn of the present login exactly while it is    *)
(* dead, as long as `own', that is until an event of the id's last holder  *)
(* has respawned it; one at least while it is dead in any case; and a heal *)
(* while it is wounded and no heal was lost.                               *)
(***************************************************************************)
Awaits(B, p, l, dead, own, wounded) ==
    /\ own => Chain(B, dead, Own(p, l))
    /\ dead => ~Nothing(B, Own(p, l))
    /\ wounded => ~Nothing(B, Of("heal", p))

Dead(p) == life[p] = "dead"
OnItsOwn(p) == InWorld(p) /\ p \notin early
Wounded(p) == InWorld(p) /\ healed[p] /\ p \notin lost

PlayerInv ==
    \A p \in Players : Awaits(timers, p, login[p], Dead(p), OnItsOwn(p), Wounded(p))

-----------------------------------------------------------------------------
(* Bags of events *)

\* Events that are registered are added to those under way, and what has not
\* been there is there once.
LEMMA Added ==
    ASSUME NEW B, IsABag(B), NEW S
    PROVE  /\ IsABag(B (+) SetToBag(S))
           /\ BagToSet(B (+) SetToBag(S)) = BagToSet(B) \cup S
           /\ \A x \in S \ BagToSet(B) : (B (+) SetToBag(S))[x] = 1
           /\ \A x \in BagToSet(B) \ S : (B (+) SetToBag(S))[x] = B[x]
  BY DEF IsABag, SetToBag, BagToSet, (+)

\* An event that is handed over is gone, once.
LEMMA Taken ==
    ASSUME NEW B, IsABag(B), NEW x \in BagToSet(B)
    PROVE  LET C == B (-) SetToBag({x})
           IN  /\ IsABag(C)
               /\ BagToSet(C) \subseteq BagToSet(B)
               /\ BagToSet(B) \ {x} \subseteq BagToSet(C)
               /\ B[x] = 1 => x \notin BagToSet(C)
               /\ \A y \in BagToSet(B) \ {x} : C[y] = B[y]
  BY DEF IsABag, SetToBag, BagToSet, (-)

\* A chain is as it was when events of others are registered.
LEMMA AddedElsewhere ==
    ASSUME NEW B, IsABag(B), NEW S, NEW K, S \cap K = {}, NEW flag, Chain(B, flag, K)
    PROVE  Chain(B (+) SetToBag(S), flag, K)
  <1> DEFINE C == B (+) SetToBag(S)
  <1>1. /\ BagToSet(C) \cap K = BagToSet(B) \cap K
        /\ \A x \in BagToSet(B) \cap K : x \in BagToSet(C) /\ C[x] = B[x]
    BY Added
  <1> HIDE DEF C
  <1>2. ASSUME One(B, K)
        PROVE  One(C, K)
    BY <1>1, <1>2 DEF One
  <1>3. ASSUME Nothing(B, K)
        PROVE  Nothing(C, K)
    BY <1>1, <1>3 DEF Nothing
  <1>4. Chain(C, flag, K)
    BY <1>2, <1>3 DEF Chain
  <1> QED
    BY <1>4 DEF C

\* Where nothing is under way, one event starts a chain.
LEMMA Started ==
    ASSUME NEW B, IsABag(B), NEW S, NEW K, Nothing(B, K), NEW e, S \cap K = {e}
    PROVE  Chain(B (+) SetToBag(S), TRUE, K)
  <1> DEFINE C == B (+) SetToBag(S)
  <1>1. BagToSet(C) \cap K = {e} /\ C[e] = 1 /\ e \in BagToSet(C)
    BY Added DEF Nothing
  <1> HIDE DEF C
  <1>2. Chain(C, TRUE, K)
    BY <1>1 DEF Chain, One
  <1> QED
    BY <1>2 DEF C

\* A chain is as it was when another event is handed over.
LEMMA TakenElsewhere ==
    ASSUME NEW B, IsABag(B), NEW x \in BagToSet(B), NEW K, x \notin K,
           NEW flag, Chain(B, flag, K)
    PROVE  Chain(B (-) SetToBag({x}), flag, K)
  <1> DEFINE C == B (-) SetToBag({x})
  <1>1. /\ BagToSet(C) \cap K = BagToSet(B) \cap K
        /\ \A y \in BagToSet(B) \cap K : y \in BagToSet(C) /\ C[y] = B[y]
    BY Taken
  <1> HIDE DEF C
  <1>2. ASSUME One(B, K)
        PROVE  One(C, K)
    BY <1>1, <1>2 DEF One
  <1>3. ASSUME Nothing(B, K)
        PROVE  Nothing(C, K)
    BY <1>1, <1>3 DEF Nothing
  <1>4. Chain(C, flag, K)
    BY <1>2, <1>3 DEF Chain
  <1> QED
    BY <1>4 DEF C

\* When the event of a chain is handed over the flag was set, and nothing of
\* the chain is left.
LEMMA Broken ==
    ASSUME NEW B, IsABag(B), NEW x \in BagToSet(B), NEW K, x \in K,
           NEW flag, Chain(B, flag, K)
    PROVE  /\ flag
           /\ Nothing(B (-) SetToBag({x}), K)
           /\ Chain(B (-) SetToBag({x}), FALSE, K)
  <1> DEFINE C == B (-) SetToBag({x})
  <1>1. flag /\ One(B, K)
    BY DEF Chain, Nothing
  <1>2. BagToSet(B) \cap K = {x} /\ B[x] = 1
    BY <1>1 DEF One
  <1>3. BagToSet(C) \cap K = {}
    BY <1>2, Taken
  <1> HIDE DEF C
  <1>4. Nothing(C, K) /\ Chain(C, FALSE, K)
    BY <1>3 DEF Nothing, Chain
  <1> QED
    BY <1>1, <1>4 DEF C

\* One tick earlier, and one back.
Earlier(e) == [e EXCEPT !.wait = @ - 1]
AllEarlier(B) ==
    [e \in {[f EXCEPT !.wait = @ - 1] : f \in BagToSet(B)} |-> B[[e EXCEPT !.wait = @ + 1]]]

\* A tick brings every event nearer, and changes neither how many there are
\* nor whose.
LEMMA Ticked ==
    ASSUME NEW B, IsABag(B), BagToSet(B) \subseteq Event, NEW C,
           C = AllEarlier(B)
    PROVE  /\ IsABag(C)
           /\ BagToSet(C) = {Earlier(f) : f \in BagToSet(B)}
           /\ \A f \in BagToSet(B) : C[Earlier(f)] = B[f]
  <1>1. \A f \in Event : /\ Earlier(f) \in Event
                         /\ [Earlier(f) EXCEPT !.wait = @ + 1] = f
    <2> SUFFICES ASSUME NEW f \in Event
                 PROVE  /\ Earlier(f) \in Event
                        /\ [Earlier(f) EXCEPT !.wait = @ + 1] = f
      OBVIOUS
    <2>0. /\ Earlier(f) = [kind |-> f.kind, obj |-> f.obj, target |-> f.target,
                           login |-> f.login, wait |-> f.wait - 1]
          /\ f.wait - 1 \in Int
      BY DEF Event, Earlier
    <2>1. Earlier(f) \in Event
      BY <2>0 DEF Event
    <2>2. f.wait \in Int /\ Earlier(f).wait = f.wait - 1
      BY DEF Event, Earlier
    <2>3. [Earlier(f) EXCEPT !.wait = f.wait] = f
      BY DEF Event, Earlier
    <2>4. Earlier(f).wait + 1 = f.wait
      BY <2>2
    <2> QED
      BY <2>1, <2>3, <2>4
  <1>2. /\ DOMAIN C = {Earlier(f) : f \in BagToSet(B)}
        /\ \A e \in DOMAIN C : C[e] = B[[e EXCEPT !.wait = @ + 1]]
    BY DEF Earlier, AllEarlier
  <1>3. \A f \in BagToSet(B) : C[Earlier(f)] = B[f]
    BY <1>1, <1>2
  <1>4. C = [e \in DOMAIN C |-> C[e]]
    BY DEF AllEarlier
  <1>5. \A e \in DOMAIN C : C[e] \in {n \in Nat : n > 0}
    <2> SUFFICES ASSUME NEW f \in BagToSet(B)
                 PROVE  C[Earlier(f)] \in {n \in Nat : n > 0}
      BY <1>2
    <2>1. B[f] \in {n \in Nat : n > 0}
      BY DEF IsABag, BagToSet
    <2> QED
      BY <1>3, <2>1
  <1> QED
    BY <1>2, <1>3, <1>4, <1>5 DEF IsABag, BagToSet

\* A chain goes on through a tick.
LEMMA ChainTicks ==
    ASSUME NEW B, IsABag(B), BagToSet(B) \subseteq Event, NEW C, IsABag(C),
           BagToSet(C) = {Earlier(f) : f \in BagToSet(B)},
           \A f \in BagToSet(B) : C[Earlier(f)] = B[f],
           NEW K, \A f \in Event : f \in K <=> Earlier(f) \in K,
           NEW flag, Chain(B, flag, K)
    PROVE  Chain(C, flag, K)
  <1>1. ASSUME NEW e \in BagToSet(B), BagToSet(B) \cap K = {e}, B[e] = 1
        PROVE  One(C, K)
    <2>1. Earlier(e) \in BagToSet(C) /\ Earlier(e) \in K /\ C[Earlier(e)] = 1
      BY <1>1
    <2>2. ASSUME NEW g \in BagToSet(C) \cap K
          PROVE  g = Earlier(e)
      BY <1>1, <2>2
    <2> QED
      BY <2>1, <2>2 DEF One
  <1>2. Nothing(B, K) => Nothing(C, K)
    BY DEF Nothing
  <1> QED
    BY <1>1, <1>2 DEF Chain, One

\* Whose an event is does not depend on how long it waits.
LEMMA KeysTick ==
    ASSUME NEW f \in Event, NEW kind, NEW obj, NEW l
    PROVE  /\ f \in Of(kind, obj) <=> Earlier(f) \in Of(kind, obj)
           /\ f \in Own(obj, l) <=> Earlier(f) \in Own(obj, l)
  BY DEF Of, Own, Event, Earlier

-----------------------------------------------------------------------------
(* Types *)

\* Every interval is a possible wait.
LEMMA DelaysAreWaits ==
    /\ {MoveDelay, AttackDelay, RespawnDelay, HealDelay, NPCRespawnDelay} \subseteq Waits
    /\ Waits \subseteq Int
    /\ \A w \in Waits : w > -MaxLag => w - 1 \in Waits
  <1> DEFINE D == {MoveDelay, AttackDelay, RespawnDelay, HealDelay, NPCRespawnDelay}
  <1>1. D \subseteq Nat \ {0} /\ MaxLag \in Nat
    BY Delays, Amounts
  <1>2. \E x \in D : \A y \in D : x >= y
    BY <1>1
  <1>3. Max(D) \in D /\ \A y \in D : Max(D) >= y
    BY <1>2 DEF Max
  <1> DEFINE M == Max(D)
  <1>4. Waits = (-MaxLag)..M
    BY DEF Waits
  <1>5. M \in Nat /\ \A y \in D : y \in Nat /\ M >= y
    BY <1>1, <1>3
  <1> HIDE DEF M
  <1>6. D \subseteq Waits
    BY <1>1, <1>4, <1>5
  <1> HIDE DEF D
  <1>7. Waits \subseteq Int /\ \A w \in Waits : w > -MaxLag => w - 1 \in Waits
    BY <1>1, <1>4, <1>5
  <1> QED
    BY <1>6, <1>7 DEF D

\* What is registered is of the type of events, fits, and has the key it
\* should have.
LEMMA EventsMade ==
    ASSUME login \in [Players -> Nat], NEW n \in NPCs, NEW p \in Players
    PROVE  /\ \A e \in {Move(n), Attack(n, p), NPCRespawn(n), Heal(p), Respawn(p)} :
                e \in Timer /\ Fits(e, login)
           /\ Move(n).kind = "move" /\ Move(n).obj = n
           /\ Attack(n, p).kind = "attack" /\ Attack(n, p).obj = n
           /\ NPCRespawn(n).kind = "npcRespawn" /\ NPCRespawn(n).obj = n
           /\ NPCRespawn(n).wait = NPCRespawnDelay
           /\ Heal(p).kind = "heal" /\ Heal(p).obj = p
           /\ Respawn(p).kind = "respawn" /\ Respawn(p).obj = p /\ Respawn(p).login = login[p]
  <1>1. {MoveDelay, AttackDelay, RespawnDelay, HealDelay, NPCRespawnDelay} \subseteq Nat
    BY Delays
  <1>2. Move(n) \in Timer /\ Fits(Move(n), login)
    BY <1>1, DelaysAreWaits DEF Move, Timer, Fits
  <1>3. Attack(n, p) \in Timer /\ Fits(Attack(n, p), login)
    BY <1>1, DelaysAreWaits DEF Attack, Timer, Fits
  <1>4. NPCRespawn(n) \in Timer /\ Fits(NPCRespawn(n), login)
    BY <1>1, DelaysAreWaits DEF NPCRespawn, Timer, Fits
  <1>5. Heal(p) \in Timer /\ Fits(Heal(p), login)
    BY <1>1, DelaysAreWaits DEF Heal, Timer, Fits
  <1>6. Respawn(p) \in Timer /\ Fits(Respawn(p), login)
    BY <1>1, DelaysAreWaits DEF Respawn, Timer, Fits
  <1> QED
    BY <1>2, <1>3, <1>4, <1>5, <1>6 DEF Move, Attack, NPCRespawn, Heal, Respawn

\* Timer events are events.
LEMMA TimersAreEvents == Timer \subseteq Event
  BY DelaysAreWaits DEF Timer, Event

\* The types of the events hold through registering and handing over.
LEMMA FitAdded ==
    ASSUME NEW B, NEW logins, EventsFit(B, logins), NEW S,
           \A e \in S : e \in Timer /\ Fits(e, logins)
    PROVE  EventsFit(B (+) SetToBag(S), logins)
  BY Added DEF EventsFit

\* The same of an event that is handed over.
LEMMA FitTaken ==
    ASSUME NEW B, NEW logins, EventsFit(B, logins), NEW x \in BagToSet(B)
    PROVE  EventsFit(B (-) SetToBag({x}), logins)
  BY Taken DEF EventsFit

\* The same of a tick.
LEMMA FitTicks ==
    ASSUME TypeOK, EventsFit(timers, login), Tick
    PROVE  /\ EventsFit(timers', login')
           /\ BagToSet(timers') = {Earlier(f) : f \in BagToSet(timers)}
           /\ \A f \in BagToSet(timers) : timers'[Earlier(f)] = timers[f]
  <1>1. IsABag(timers) /\ BagToSet(timers) \subseteq Event
    BY TimersAreEvents DEF EventsFit
  <1>2. /\ IsABag(timers')
        /\ BagToSet(timers') = {Earlier(f) : f \in BagToSet(timers)}
        /\ \A f \in BagToSet(timers) : timers'[Earlier(f)] = timers[f]
    <2>1. timers' = AllEarlier(timers)
      BY DEF Tick, AllEarlier
    <2> QED
      BY <1>1, <2>1, Ticked
  <1>3. ASSUME NEW f \in BagToSet(timers)
        PROVE  Earlier(f) \in Timer /\ Fits(Earlier(f), login')
    <2>1. f \in Timer /\ Fits(f, login) /\ f.wait > -MaxLag /\ login' = login
      BY <1>3 DEF EventsFit, Tick, historyVars
    <2>2. f.wait \in Int /\ f.wait - 1 \in Waits
      BY <2>1, DelaysAreWaits DEF Timer
    <2>3. Earlier(f) = [kind |-> f.kind, obj |-> f.obj, target |-> f.target,
                        login |-> f.login, wait |-> f.wait - 1]
      BY <2>1 DEF Timer, Earlier
    <2>4. Earlier(f) \in Timer
      BY <2>1, <2>2, <2>3 DEF Timer
    <2>5. MoveDelay \in Int /\ AttackDelay \in Int
      BY Delays
    <2>6. Fits(Earlier(f), login')
      BY <2>1, <2>2, <2>3, <2>5 DEF Fits
    <2> QED
      BY <2>4, <2>6
  <1> QED
    BY <1>2, <1>3 DEF EventsFit

\* Looking around wakes NPCs by moves, and changes nothing else.
LEMMA LookTypes ==
    ASSUME TypeOK, NEW p \in Players, NEW z, NEW seen, NEW pending, NEW logins,
           EventsFit(pending, logins), LookAround(p, z, seen, pending)
    PROVE  /\ EventsFit(timers', logins)
           /\ view' \in [Players -> SUBSET NPCs]
           /\ active' \in [NPCs -> BOOLEAN]
  <1>1. \A n \in NPCs : Move(n) \in Timer /\ Fits(Move(n), logins)
    <2> SUFFICES ASSUME NEW n \in NPCs
                 PROVE  Move(n) \in Timer /\ Fits(Move(n), logins)
      OBVIOUS
    <2>1. MoveDelay \in Nat
      BY Delays
    <2> QED
      BY <2>1, DelaysAreWaits DEF Move, Timer, Fits
  <1>2. Sight(p, z) \subseteq NPCs
    BY DEF Sight
  <1>3. EventsFit(timers', logins)
    BY <1>1, <1>2, FitAdded DEF LookAround
  <1>4. view' \in [Players -> SUBSET NPCs]
    BY <1>2 DEF LookAround, TypeOK
  <1>5. active' \in [NPCs -> BOOLEAN]
    BY DEF LookAround, TypeOK
  <1> QED
    BY <1>3, <1>4, <1>5

\* A step of a player: types and fitting events are kept.
LEMMA TypesPlayer ==
    ASSUME TypesInv, NEW p \in Players,
           Login(p) \/ SessionExpires(p) \/ Logout(p) \/ HandleMove(p) \/ HandleAttack(p)
    PROVE  TypesInv'
  <1> USE DEF TypesInv, npcVars, playerVars, historyVars
  <1>0. /\ TypeOK /\ EventsFit(timers, login) /\ Healthy
        /\ MaxHp \in Nat \ {0} /\ HitDamage \in Nat \ {0}
    BY Amounts
  <1>1. ASSUME EventsFit(timers', login')
        PROVE  IsABag(timers') /\ BagToSet(timers') \subseteq Timer
    BY <1>1 DEF EventsFit
  <1>2. CASE Login(p)
    <2>1. EventsFit(timers, login') /\ login' \in [Players -> Nat]
      <3>1. /\ login' \in [Players -> Nat]
            /\ \A q \in Players : login[q] \in Nat /\ login[q] <= login'[q]
        BY <1>0, <1>2 DEF Login, TypeOK
      <3>2. ASSUME NEW e \in BagToSet(timers)
            PROVE  Fits(e, login')
        <4>1. e \in Timer /\ Fits(e, login)
          BY <1>0 DEF EventsFit
        <4>2. e.login \in Nat
          BY <4>1 DEF Timer
        <4> QED
          BY <3>1, <4>1, <4>2 DEF Fits
      <3> QED
        BY <1>0, <3>1, <3>2 DEF EventsFit
    <2>2. PICK z \in Grids : zone' = z /\ LookAround(p, z, {}, timers)
      BY <1>2 DEF Login
    <2>3. /\ EventsFit(timers', login')
          /\ view' \in [Players -> SUBSET NPCs] /\ active' \in [NPCs -> BOOLEAN]
      BY <1>0, <2>1, <2>2, LookTypes
    <2>4. TypeOK'
      BY <1>0, <1>1, <1>2, <2>1, <2>2, <2>3 DEF Login, TypeOK, Grids
    <2>5. Healthy'
      BY <1>0, <1>2 DEF Login, Healthy
    <2> QED
      BY <2>3, <2>4, <2>5
  <1>3. CASE SessionExpires(p)
    BY <1>0, <1>3 DEF SessionExpires, TypeOK, Healthy, EventsFit
  <1>4. CASE Logout(p)
    <2>1. zone' \in [NPCs -> [Players -> Zones]]
      BY <1>0, <1>4 DEF Logout, TypeOK, Zones, Away, Beside
    <2> QED
      BY <1>0, <1>4, <2>1 DEF Logout, TypeOK, Healthy, EventsFit
  <1>5. CASE HandleMove(p)
    <2>1. PICK z \in Grids : zone' = z /\ LookAround(p, z, view[p], timers)
      BY <1>5 DEF HandleMove
    <2>2. login' = login
      BY <1>5 DEF HandleMove
    <2>3. /\ EventsFit(timers', login')
          /\ view' \in [Players -> SUBSET NPCs] /\ active' \in [NPCs -> BOOLEAN]
      BY <1>0, <2>1, <2>2, LookTypes
    <2>4. TypeOK' /\ Healthy'
      BY <1>0, <1>1, <1>5, <2>1, <2>3 DEF HandleMove, TypeOK, Grids, Healthy
    <2> QED
      BY <2>3, <2>4
  <1>6. CASE HandleAttack(p)
    <2>1. PICK hits \in SUBSET {n \in NPCs : alive[n] /\ zone[n][p] = Beside} : Hit(p, hits)
      BY <1>6 DEF HandleAttack
    <2> DEFINE hurt == hits \cap Agro
               dead == {n \in hurt : npcHp[n] <= HitDamage}
               angry == {n \in hurt \ dead : ~attacking[n]}
    <2>2. /\ npcHp' = [n \in NPCs |-> IF n \in hurt THEN npcHp[n] - HitDamage ELSE npcHp[n]]
          /\ alive' = [n \in NPCs |-> alive[n] /\ n \notin dead]
          /\ active' = [n \in NPCs |-> active[n] /\ n \notin dead]
          /\ attacking' = [n \in NPCs |-> (attacking[n] \/ n \in angry) /\ n \notin dead]
          /\ view' = [q \in Players |-> {n \in view[q] : n \in dead => zone[n][q] < Near}]
          /\ timers' = timers (+) SetToBag({NPCRespawn(n) : n \in dead})
                              (+) SetToBag({Attack(n, p) : n \in angry})
      BY <2>1 DEF Hit
    <2>3. /\ hurt \subseteq NPCs /\ \A n \in hurt : alive[n] /\ npcHp[n] > 0
          /\ dead = {n \in hurt : npcHp[n] <= HitDamage} /\ angry \subseteq NPCs
      BY <1>0, <2>1 DEF Healthy
    <2>4. EventsFit(timers', login)
      <3> HIDE DEF hurt, dead, angry
      <3>1. EventsFit(timers (+) SetToBag({NPCRespawn(n) : n \in dead}), login)
        BY <1>0, <2>3, FitAdded, EventsMade DEF TypeOK
      <3> QED
        BY <1>0, <2>2, <2>3, <3>1, FitAdded, EventsMade DEF TypeOK
    <2>5. login' = login
      BY <1>6 DEF HandleAttack
    <2> HIDE DEF hurt, dead, angry
    <2>6. npcHp' \in [NPCs -> (1 - HitDamage)..MaxHp] /\ Healthy'
      <3> SUFFICES ASSUME NEW n \in NPCs
                   PROVE  npcHp'[n] \in (1 - HitDamage)..MaxHp /\ (alive'[n] => npcHp'[n] > 0)
        BY <2>2 DEF Healthy
      <3>1. npcHp[n] \in (1 - HitDamage)..MaxHp /\ (alive[n] => npcHp[n] > 0)
        BY <1>0 DEF TypeOK, Healthy
      <3>2. CASE n \in hurt
        <4>1. npcHp'[n] = npcHp[n] - HitDamage /\ npcHp[n] > 0
          BY <2>2, <2>3, <3>2
        <4>2. alive'[n] => ~(npcHp[n] <= HitDamage)
          BY <2>2, <2>3, <3>2
        <4> QED
          BY <1>0, <3>1, <4>1, <4>2
      <3>3. CASE n \notin hurt
        BY <2>2, <3>1, <3>3
      <3> QED
        BY <3>2, <3>3
    <2>7. /\ view' \in [Players -> SUBSET NPCs]
          /\ alive' \in [NPCs -> BOOLEAN] /\ active' \in [NPCs -> BOOLEAN]
          /\ attacking' \in [NPCs -> BOOLEAN]
      BY <1>0, <2>2 DEF TypeOK
    <2>8. TypeOK'
      BY <1>0, <1>1, <1>6, <2>4, <2>5, <2>6, <2>7 DEF HandleAttack, TypeOK
    <2> QED
      BY <2>4, <2>5, <2>6, <2>8
  <1> QED
    BY <1>2, <1>3, <1>4, <1>5, <1>6

\* What an event that is handed over is about.
LEMMA DueFits ==
    ASSUME TypesInv, NEW e, Due(e)
    PROVE  /\ IsABag(timers) /\ e \in BagToSet(timers) /\ e \in Timer /\ Fits(e, login)
           /\ EventsFit(Without(e), login)
  BY FitTaken DEF TypesInv, Due, EventsFit, Without

\* An NPC that has moved is told to the players around, and goes on if there
\* are any.
LEMMA BroadcastTypes ==
    ASSUME TypeOK, NEW n \in NPCs, NEW z, NEW pending, EventsFit(pending, login),
           Broadcast(n, z, pending)
    PROVE  /\ EventsFit(timers', login)
           /\ view' \in [Players -> SUBSET NPCs]
           /\ active' \in [NPCs -> BOOLEAN]
  <1>1. EventsFit(timers', login)
    <2>1. \A e \in {Move(n)} : e \in Timer /\ Fits(e, login)
      <3>1. MoveDelay \in Nat
        BY Delays
      <3> QED
        BY <3>1, DelaysAreWaits DEF Move, Timer, Fits
    <2>2. EventsFit(pending (+) SetToBag({Move(n)}), login)
      BY <2>1, FitAdded
    <2> QED
      BY <2>2 DEF Broadcast
  <1>2. view' \in [Players -> SUBSET NPCs]
    BY DEF Broadcast, TypeOK
  <1>3. active' \in [NPCs -> BOOLEAN]
    BY DEF Broadcast, TypeOK
  <1> QED
    BY <1>1, <1>2, <1>3

\* A bite takes hit points and registers a respawn or a heal.
LEMMA BiteTypes ==
    ASSUME TypeOK, NEW p \in Players, NEW pending, EventsFit(pending, login),
           Bite(p, pending)
    PROVE  /\ EventsFit(timers', login)
           /\ life' \in [Players -> {"out", "inGame", "dead"}]
           /\ hp' \in [Players -> 0..MaxHp]
           /\ healed' \in [Players -> BOOLEAN]
  <1> DEFINE left == IF hp[p] > BiteDamage THEN hp[p] - BiteDamage ELSE 0
  <1>1. left \in 0..MaxHp
    BY Amounts DEF TypeOK
  <1>2. /\ EventsFit(pending (+) SetToBag({Respawn(p)}), login)
        /\ EventsFit(pending (+) SetToBag({Heal(p)}), login)
    <2>1. {RespawnDelay, HealDelay} \subseteq Nat /\ login[p] \in Nat
      BY Delays DEF TypeOK
    <2>2. Respawn(p) \in Timer /\ Fits(Respawn(p), login)
      BY <2>1, DelaysAreWaits DEF Respawn, Timer, Fits
    <2>3. Heal(p) \in Timer /\ Fits(Heal(p), login)
      BY <2>1, DelaysAreWaits DEF Heal, Timer, Fits
    <2> QED
      BY <2>2, <2>3, FitAdded
  <1> HIDE DEF left
  <1>3. CASE life[p] = "dead" \/ ~linked[p]
    BY <1>3 DEF Bite, TypeOK
  <1>4. CASE ~(life[p] = "dead" \/ ~linked[p])
    <2>1. /\ hp' = [hp EXCEPT ![p] = left]
          /\ life' = life \/ life' = [life EXCEPT ![p] = "dead"]
          /\ healed' = healed \/ healed' = [healed EXCEPT ![p] = TRUE]
          /\ \/ timers' = pending
             \/ timers' = pending (+) SetToBag({Respawn(p)})
             \/ timers' = pending (+) SetToBag({Heal(p)})
      BY <1>4 DEF Bite, left
    <2> QED
      BY <1>1, <1>2, <2>1 DEF TypeOK
  <1> QED
    BY <1>3, <1>4

\* A timer event, or a tick: types and fitting events are kept.
LEMMA TypesTimer ==
    ASSUME TypesInv, (\E e \in BagToSet(timers) : Fire(e)) \/ Tick
    PROVE  TypesInv'
  <1> USE DEF TypesInv, npcVars, playerVars, historyVars
  <1>0. /\ TypeOK /\ EventsFit(timers, login) /\ Healthy
        /\ MaxHp \in Nat \ {0} /\ HitDamage \in Nat \ {0} /\ HealAmount \in Nat \ {0}
    BY Amounts
  <1>1. ASSUME EventsFit(timers', login')
        PROVE  IsABag(timers') /\ BagToSet(timers') \subseteq Timer
    BY <1>1 DEF EventsFit
  <1>2. CASE Tick
    BY <1>0, <1>1, <1>2, FitTicks DEF Tick, TypeOK, Healthy
  <1>3. ASSUME NEW e \in BagToSet(timers), Drop(e)
        PROVE  TypesInv'
    <2>1. /\ EventsFit(Without(e), login) /\ Fits(e, login)
      BY <1>3, DueFits DEF Drop
    <2>2. timers' = Without(e) /\ login' = login /\ lost' \subseteq Players
      BY <1>0, <1>3, <2>1 DEF Drop, Fits, TypeOK
    <2> QED
      BY <1>0, <1>1, <1>3, <2>1, <2>2 DEF Drop, TypeOK, Healthy
  <1>4. ASSUME NEW e \in BagToSet(timers), UpdateMove(e)
        PROVE  TypesInv'
    <2>1. EventsFit(Without(e), login) /\ Fits(e, login) /\ e.obj \in NPCs
      BY <1>4, DueFits DEF UpdateMove, Fits
    <2>2. /\ zone' \in [NPCs -> [Players -> Zones]]
          /\ attacking' \in [NPCs -> BOOLEAN]
          /\ \E z, pending : EventsFit(pending, login) /\ Broadcast(e.obj, z, pending)
      <3>1. CASE \E z \in Grids : NPCStepped(e.obj, z) /\ zone' = z
                                  /\ Broadcast(e.obj, z, Without(e)) /\ UNCHANGED attacking
        BY <1>0, <2>1, <3>1 DEF Grids, TypeOK
      <3>2. ASSUME NEW p \in Players,
                   attacking' = [attacking EXCEPT ![e.obj] = TRUE],
                   Broadcast(e.obj, zone,
                     IF attacking[e.obj] THEN Without(e)
                     ELSE Without(e) (+) SetToBag({Attack(e.obj, p)})),
                   UNCHANGED zone
            PROVE  /\ zone' \in [NPCs -> [Players -> Zones]]
                   /\ attacking' \in [NPCs -> BOOLEAN]
                   /\ \E z, pending : EventsFit(pending, login) /\ Broadcast(e.obj, z, pending)
        <4>1. Attack(e.obj, p) \in Timer /\ Fits(Attack(e.obj, p), login)
          BY <1>0, <2>1, EventsMade DEF TypeOK
        <4>2. EventsFit(Without(e) (+) SetToBag({Attack(e.obj, p)}), login)
          BY <2>1, <4>1, FitAdded
        <4>3. EventsFit(IF attacking[e.obj] THEN Without(e)
                        ELSE Without(e) (+) SetToBag({Attack(e.obj, p)}), login)
          BY <2>1, <4>2
        <4> QED
          BY <1>0, <3>2, <4>3 DEF TypeOK
      <3> QED
        BY <1>4, <3>1, <3>2 DEF UpdateMove
    <2>3. /\ EventsFit(timers', login)
          /\ view' \in [Players -> SUBSET NPCs] /\ active' \in [NPCs -> BOOLEAN]
      BY <1>0, <2>1, <2>2, BroadcastTypes
    <2>4. login' = login /\ UNCHANGED <<alive, npcHp, playerVars, historyVars>>
      BY <1>4 DEF UpdateMove
    <2> QED
      BY <1>0, <1>1, <2>2, <2>3, <2>4 DEF TypeOK, Healthy
  <1>5. ASSUME NEW e \in BagToSet(timers), NPCAttack(e)
        PROVE  TypesInv'
    <2>1. /\ EventsFit(Without(e), login) /\ Fits(e, login)
          /\ e.obj \in NPCs /\ e.target \in Players
      BY <1>5, DueFits DEF NPCAttack, Fits
    <2>2. UNCHANGED <<alive, npcHp, active, zone, linked, view, historyVars>>
      BY <1>5 DEF NPCAttack
    <2>3. /\ EventsFit(timers', login)
          /\ life' \in [Players -> {"out", "inGame", "dead"}]
          /\ hp' \in [Players -> 0..MaxHp]
          /\ healed' \in [Players -> BOOLEAN]
          /\ attacking' \in [NPCs -> BOOLEAN]
      <3>1. CASE InWorld(e.target) /\ zone[e.obj][e.target] = Beside
        <4>1. /\ Bite(e.target, Without(e) (+) SetToBag({Attack(e.obj, e.target)}))
              /\ attacking' = [attacking EXCEPT ![e.obj] = TRUE]
          BY <1>5, <3>1 DEF NPCAttack
        <4>2. Attack(e.obj, e.target) \in Timer /\ Fits(Attack(e.obj, e.target), login)
          BY <1>0, <2>1, EventsMade DEF TypeOK
        <4>3. EventsFit(Without(e) (+) SetToBag({Attack(e.obj, e.target)}), login)
          BY <2>1, <4>2, FitAdded
        <4> QED
          BY <1>0, <2>1, <4>1, <4>3, BiteTypes DEF TypeOK
      <3>2. CASE ~(InWorld(e.target) /\ zone[e.obj][e.target] = Beside)
        BY <1>0, <1>5, <2>1, <3>2 DEF NPCAttack, TypeOK
      <3> QED
        BY <3>1, <3>2
    <2> QED
      BY <1>0, <1>1, <2>2, <2>3 DEF TypeOK, Healthy
  <1>6. ASSUME NEW e \in BagToSet(timers), PlayerHeal(e)
        PROVE  TypesInv'
    <2>1. EventsFit(Without(e), login) /\ Fits(e, login) /\ e.obj \in Players
      BY <1>6, DueFits DEF PlayerHeal, Fits
    <2>2. Heal(e.obj) \in Timer /\ Fits(Heal(e.obj), login)
      <3>1. HealDelay \in Nat /\ login[e.obj] \in Nat
        BY <1>0, <2>1, Delays DEF TypeOK
      <3> QED
        BY <2>1, <3>1, DelaysAreWaits DEF Heal, Timer, Fits
    <2>3. EventsFit(Without(e) (+) SetToBag({Heal(e.obj)}), login)
      BY <2>1, <2>2, FitAdded
    <2>4. /\ EventsFit(timers', login) /\ login' = login
          /\ healed' = [healed EXCEPT ![e.obj] = ~(hp[e.obj] + HealAmount > MaxHp)]
      BY <1>6, <2>1, <2>3 DEF PlayerHeal
    <2>5. hp' \in [Players -> 0..MaxHp]
      <3>1. hp' = [hp EXCEPT ![e.obj] = IF hp[e.obj] + HealAmount > MaxHp
                                        THEN MaxHp ELSE hp[e.obj] + HealAmount]
        BY <1>0, <1>6 DEF PlayerHeal, TypeOK
      <3> QED
        BY <1>0, <2>1, <3>1 DEF TypeOK
    <2> QED
      BY <1>0, <1>1, <1>6, <2>4, <2>5 DEF PlayerHeal, TypeOK, Healthy
  <1>7. ASSUME NEW e \in BagToSet(timers), PlayerRespawn(e)
        PROVE  TypesInv'
    <2>1. EventsFit(Without(e), login) /\ Fits(e, login) /\ e.obj \in Players
      BY <1>7, DueFits DEF PlayerRespawn, Fits
    <2>2. /\ hp' = [hp EXCEPT ![e.obj] = MaxHp]
          /\ life' = [life EXCEPT ![e.obj] = "inGame"]
          /\ early' = early \/ early' = early \cup {e.obj}
          /\ UNCHANGED <<alive, npcHp, attacking, healed, linked, login, lost>>
      BY <1>7 DEF PlayerRespawn
    <2>3. PICK z \in Grids :
            /\ zone' = z
            /\ IF linked[e.obj]
               THEN LookAround(e.obj, z, {}, Without(e))
               ELSE /\ view' = [view EXCEPT ![e.obj] = Sight(e.obj, z)]
                    /\ timers' = Without(e)
                    /\ UNCHANGED active
      BY <1>7 DEF PlayerRespawn
    <2>4. /\ EventsFit(timers', login)
          /\ view' \in [Players -> SUBSET NPCs] /\ active' \in [NPCs -> BOOLEAN]
      <3>1. CASE linked[e.obj]
        BY <1>0, <2>1, <2>3, <3>1, LookTypes
      <3>2. CASE ~linked[e.obj]
        <4>1. Sight(e.obj, z) \subseteq NPCs
          BY DEF Sight
        <4> QED
          BY <1>0, <2>1, <2>3, <3>2, <4>1 DEF TypeOK
      <3> QED
        BY <3>1, <3>2
    <2>5. hp' \in [Players -> 0..MaxHp] /\ life' \in [Players -> {"out", "inGame", "dead"}]
      <3>1. MaxHp \in 0..MaxHp
        BY <1>0
      <3>2. hp' \in [Players -> 0..MaxHp]
        BY <1>0, <2>2, <3>1 DEF TypeOK
      <3> QED
        BY <1>0, <2>2, <3>2 DEF TypeOK
    <2> QED
      BY <1>0, <1>1, <2>1, <2>2, <2>3, <2>4, <2>5 DEF TypeOK, Grids, Healthy
  <1>8. ASSUME NEW e \in BagToSet(timers), NPCRespawns(e)
        PROVE  TypesInv'
    <2>1. EventsFit(Without(e), login) /\ Fits(e, login) /\ e.obj \in NPCs
      BY <1>8, DueFits DEF NPCRespawns, Fits
    <2>2. /\ npcHp' = [npcHp EXCEPT ![e.obj] = MaxHp]
          /\ alive' = [alive EXCEPT ![e.obj] = TRUE]
          /\ active' = [active EXCEPT ![e.obj] = FALSE]
          /\ attacking' = [attacking EXCEPT ![e.obj] = FALSE]
          /\ zone' \in Grids
          /\ timers' = Without(e)
          /\ UNCHANGED <<playerVars, view, historyVars>>
      BY <1>8 DEF NPCRespawns
    <2>3. /\ npcHp' \in [NPCs -> (1 - HitDamage)..MaxHp]
          /\ \A n \in NPCs : alive'[n] => npcHp'[n] > 0
      <3>1. MaxHp \in (1 - HitDamage)..MaxHp /\ MaxHp > 0
        BY <1>0
      <3> QED
        BY <1>0, <2>1, <2>2, <3>1 DEF TypeOK, Healthy
    <2> QED
      BY <1>0, <1>1, <2>1, <2>2, <2>3 DEF TypeOK, Grids, Healthy
  <1> QED
    BY <1>2, <1>3, <1>4, <1>5, <1>6, <1>7, <1>8 DEF Fire

\* The types hold at first.
LEMMA InitTypes == Init => TypesInv
  <1> SUFFICES ASSUME Init
               PROVE  TypesInv
    OBVIOUS
  <1>1. IsABag(EmptyBag) /\ BagToSet(EmptyBag) = {}
    BY DEF IsABag, EmptyBag, SetToBag, BagToSet
  <1>2. MaxHp \in Nat \ {0} /\ HitDamage \in Nat \ {0}
    BY Amounts
  <1>3. MaxHp \in (1 - HitDamage)..MaxHp /\ MaxHp \in 0..MaxHp
    BY <1>2
  <1>4. TypeOK
    BY <1>1, <1>3 DEF Init, TypeOK, Zones, Away, Beside
  <1> QED
    BY <1>1, <1>2, <1>4 DEF Init, TypesInv, EventsFit, Healthy

\* Every step keeps the types.
LEMMA TypesStep ==
    ASSUME TypesInv, [Next]_vars
    PROVE  TypesInv'
  <1>1. CASE UNCHANGED vars
    BY <1>1 DEF vars, npcVars, playerVars, historyVars, TypesInv, TypeOK, EventsFit, Healthy
  <1> QED
    BY <1>1, TypesPlayer, TypesTimer DEF Next

\* The types of every variable and of every timer event, for any players, NPCs,
\* intervals and amounts.
THEOREM TypeCorrect == Spec => []TypeOK
  <1>1. TypesInv /\ [Next]_vars => TypesInv'
    BY TypesStep
  <1>2. TypesInv => TypeOK
    BY DEF TypesInv
  <1> QED
    BY InitTypes, <1>1, <1>2, PTL DEF Spec

-----------------------------------------------------------------------------
(* NPCs *)

\* Which chains the registered events belong to.
LEMMA KeysOfMoves ==
    ASSUME NEW M \in SUBSET NPCs, NEW n \in NPCs
    PROVE  /\ n \in M => {Move(m) : m \in M} \cap Of("move", n) = {Move(n)}
           /\ n \notin M => {Move(m) : m \in M} \cap Of("move", n) = {}
           /\ {Move(m) : m \in M} \cap Of("attack", n) = {}
           /\ {Move(m) : m \in M} \cap Of("npcRespawn", n) = {}
  <1>1. \A m \in M : Move(m) \in Event /\ Move(m).kind = "move" /\ Move(m).obj = m
    BY Delays DEF Move, Event
  <1> QED
    BY <1>1 DEF Of

\* The same of respawns.
LEMMA KeysOfRespawns ==
    ASSUME NEW M \in SUBSET NPCs, NEW n \in NPCs
    PROVE  /\ n \in M => {NPCRespawn(m) : m \in M} \cap Of("npcRespawn", n) = {NPCRespawn(n)}
           /\ n \notin M => {NPCRespawn(m) : m \in M} \cap Of("npcRespawn", n) = {}
           /\ {NPCRespawn(m) : m \in M} \cap Of("move", n) = {}
           /\ {NPCRespawn(m) : m \in M} \cap Of("attack", n) = {}
  <1>1. \A m \in M : /\ NPCRespawn(m) \in Event
                     /\ NPCRespawn(m).kind = "npcRespawn" /\ NPCRespawn(m).obj = m
    BY Delays DEF NPCRespawn, Event
  <1> QED
    BY <1>1 DEF Of

\* NPCs that wake up each start a chain of moves.
LEMMA WakeUp ==
    ASSUME NEW B, NEW logins, EventsFit(B, logins), NEW living, NEW moving, NEW biting,
           NPCEvents(B, living, moving, biting),
           NEW M \in SUBSET NPCs, \A m \in M : living[m] /\ ~moving[m],
           NEW moves, \A n \in NPCs : moves[n] <=> moving[n] \/ n \in M
    PROVE  NPCEvents(B (+) SetToBag({Move(m) : m \in M}), living, moves, biting)
  <1> DEFINE S == {Move(m) : m \in M}
             C == B (+) SetToBag(S)
  <1>1. IsABag(B) /\ BagToSet(C) = BagToSet(B) \cup S
    BY Added DEF EventsFit
  <1>2. LeftoversFirst(C)
    <2>1. ASSUME NEW m \in M, NEW r \in BagToSet(B), r.kind = "npcRespawn"
          PROVE  r.obj # m
      <3>1. Nothing(B, Of("npcRespawn", m))
        BY DEF NPCEvents, Chains, Chain
      <3>2. r \in Event
        BY TimersAreEvents DEF EventsFit
      <3> QED
        BY <2>1, <3>1, <3>2 DEF Nothing, Of
    <2>2. \A m \in M : Move(m).kind = "move" /\ Move(m).obj = m
      BY DEF Move
    <2> QED
      BY <1>1, <2>1, <2>2 DEF NPCEvents, LeftoversFirst
  <1>3. ASSUME NEW n \in NPCs
        PROVE  Chains(C, n, living[n], moves[n], biting[n])
    <2>0. /\ n \in M => S \cap Of("move", n) = {Move(n)}
          /\ n \notin M => S \cap Of("move", n) = {}
          /\ S \cap Of("attack", n) = {} /\ S \cap Of("npcRespawn", n) = {}
      BY KeysOfMoves
    <2> HIDE DEF S
    <2>1. Chains(B, n, living[n], moving[n], biting[n])
      BY DEF NPCEvents
    <2>2. Chain(C, ~living[n], Of("npcRespawn", n))
      BY <1>1, <2>0, <2>1, AddedElsewhere DEF Chains
    <2>3. living[n] => Chain(C, biting[n], Of("attack", n))
      BY <1>1, <2>0, <2>1, AddedElsewhere DEF Chains
    <2>4. ASSUME living[n], n \in M
          PROVE  Chain(C, moves[n], Of("move", n))
      <3>1. Nothing(B, Of("move", n))
        BY <2>1, <2>4 DEF Chains, Chain
      <3>2. Chain(C, TRUE, Of("move", n))
        BY <1>1, <2>0, <2>4, <3>1, Started
      <3> QED
        BY <2>4, <3>2 DEF Chain
    <2>5. ASSUME living[n], n \notin M
          PROVE  Chain(C, moves[n], Of("move", n))
      <3>1. Chain(C, moving[n], Of("move", n))
        BY <1>1, <2>0, <2>1, <2>5, AddedElsewhere DEF Chains
      <3> QED
        BY <2>5, <3>1 DEF Chain
    <2> QED
      BY <2>2, <2>3, <2>4, <2>5 DEF Chains
  <1> QED
    BY <1>2, <1>3 DEF NPCEvents

\* NPCs that strike back each start a chain of attacks.
LEMMA StrikeBack ==
    ASSUME NEW B, NEW logins, EventsFit(B, logins), NEW living, NEW moving, NEW biting,
           NPCEvents(B, living, moving, biting), NEW p \in Players, login[p] \in Nat,
           NEW M \in SUBSET NPCs, \A m \in M : living[m] /\ ~biting[m],
           NEW bites, \A n \in NPCs : bites[n] <=> biting[n] \/ n \in M
    PROVE  NPCEvents(B (+) SetToBag({Attack(m, p) : m \in M}), living, moving, bites)
  <1> DEFINE S == {Attack(m, p) : m \in M}
             C == B (+) SetToBag(S)
  <1>1. IsABag(B) /\ BagToSet(C) = BagToSet(B) \cup S
    BY Added DEF EventsFit
  <1>2. LeftoversFirst(C)
    <2>1. ASSUME NEW m \in M, NEW r \in BagToSet(B), r.kind = "npcRespawn"
          PROVE  r.obj # m
      <3>1. Nothing(B, Of("npcRespawn", m))
        BY DEF NPCEvents, Chains, Chain
      <3>2. r \in Event
        BY TimersAreEvents DEF EventsFit
      <3> QED
        BY <2>1, <3>1, <3>2 DEF Nothing, Of
    <2>2. \A m \in M : Attack(m, p).kind = "attack" /\ Attack(m, p).obj = m
      BY DEF Attack
    <2> QED
      BY <1>1, <2>1, <2>2 DEF NPCEvents, LeftoversFirst
  <1>3. ASSUME NEW n \in NPCs
        PROVE  Chains(C, n, living[n], moving[n], bites[n])
    <2>0. /\ n \in M => S \cap Of("attack", n) = {Attack(n, p)}
          /\ n \notin M => S \cap Of("attack", n) = {}
          /\ S \cap Of("move", n) = {} /\ S \cap Of("npcRespawn", n) = {}
      <3>1. \A m \in M :
              Attack(m, p) \in Event /\ Attack(m, p).kind = "attack" /\ Attack(m, p).obj = m
        BY Delays DEF Attack, Event
      <3> QED
        BY <3>1 DEF Of
    <2> HIDE DEF S
    <2>1. Chains(B, n, living[n], moving[n], biting[n])
      BY DEF NPCEvents
    <2>2. Chain(C, ~living[n], Of("npcRespawn", n))
      BY <1>1, <2>0, <2>1, AddedElsewhere DEF Chains
    <2>3. living[n] => Chain(C, moving[n], Of("move", n))
      BY <1>1, <2>0, <2>1, AddedElsewhere DEF Chains
    <2>4. ASSUME living[n], n \in M
          PROVE  Chain(C, bites[n], Of("attack", n))
      <3>1. Nothing(B, Of("attack", n))
        BY <2>1, <2>4 DEF Chains, Chain
      <3>2. Chain(C, TRUE, Of("attack", n))
        BY <1>1, <2>0, <2>4, <3>1, Started
      <3> QED
        BY <2>4, <3>2 DEF Chain
    <2>5. ASSUME living[n], n \notin M
          PROVE  Chain(C, bites[n], Of("attack", n))
      <3>1. Chain(C, biting[n], Of("attack", n))
        BY <1>1, <2>0, <2>1, <2>5, AddedElsewhere DEF Chains
      <3> QED
        BY <2>5, <3>1 DEF Chain
    <2> QED
      BY <2>2, <2>3, <2>4, <2>5 DEF Chains
  <1> QED
    BY <1>2, <1>3 DEF NPCEvents

\* NPCs that die are each due to respawn, after whatever they leave behind.
LEMMA FallDead ==
    ASSUME NEW B, NEW logins, EventsFit(B, logins), NEW living, NEW moving, NEW biting,
           NPCEvents(B, living, moving, biting),
           NEW M \in SUBSET NPCs, \A m \in M : living[m],
           NEW lives, \A n \in NPCs : lives[n] <=> living[n] /\ n \notin M
    PROVE  NPCEvents(B (+) SetToBag({NPCRespawn(m) : m \in M}), lives, moving, biting)
  <1> DEFINE S == {NPCRespawn(m) : m \in M}
             C == B (+) SetToBag(S)
  <1>1. IsABag(B) /\ BagToSet(C) = BagToSet(B) \cup S
    BY Added DEF EventsFit
  <1>2. LeftoversFirst(C)
    <2>1. ASSUME NEW e \in BagToSet(B), e.kind \in {"move", "attack"}
          PROVE  e.wait < NPCRespawnDelay
      <3>1. e \in Timer /\ Fits(e, logins)
        BY DEF EventsFit
      <3>2. e.wait \in Int
        BY <3>1, DelaysAreWaits DEF Timer
      <3> QED
        BY <2>1, <3>1, <3>2, Delays DEF Fits
    <2>2. \A m \in M : NPCRespawn(m).kind = "npcRespawn" /\ NPCRespawn(m).wait = NPCRespawnDelay
      BY DEF NPCRespawn
    <2> QED
      BY <1>1, <2>1, <2>2 DEF NPCEvents, LeftoversFirst
  <1>3. ASSUME NEW n \in NPCs
        PROVE  Chains(C, n, lives[n], moving[n], biting[n])
    <2>0. /\ n \in M => S \cap Of("npcRespawn", n) = {NPCRespawn(n)}
          /\ n \notin M => S \cap Of("npcRespawn", n) = {}
          /\ S \cap Of("move", n) = {} /\ S \cap Of("attack", n) = {}
      BY KeysOfRespawns
    <2> HIDE DEF S
    <2>1. Chains(B, n, living[n], moving[n], biting[n])
      BY DEF NPCEvents
    <2>2. lives[n] => Chain(C, moving[n], Of("move", n)) /\ Chain(C, biting[n], Of("attack", n))
      BY <1>1, <2>0, <2>1, AddedElsewhere DEF Chains
    <2>3. ASSUME n \in M
          PROVE  Chain(C, ~lives[n], Of("npcRespawn", n))
      <3>1. Nothing(B, Of("npcRespawn", n))
        BY <2>1, <2>3 DEF Chains, Chain
      <3>2. Chain(C, TRUE, Of("npcRespawn", n))
        BY <1>1, <2>0, <2>3, <3>1, Started
      <3> QED
        BY <2>3, <3>2 DEF Chain
    <2>4. ASSUME n \notin M
          PROVE  Chain(C, ~lives[n], Of("npcRespawn", n))
      <3>1. Chain(C, ~living[n], Of("npcRespawn", n))
        BY <1>1, <2>0, <2>1, <2>4, AddedElsewhere DEF Chains
      <3> QED
        BY <2>4, <3>1 DEF Chain
    <2> QED
      BY <2>2, <2>3, <2>4 DEF Chains
  <1> QED
    BY <1>2, <1>3 DEF NPCEvents

\* The events of players are of no NPC's chain.
LEMMA PlayersOwn ==
    ASSUME NEW B, NEW logins, EventsFit(B, logins), NEW living, NEW moving, NEW biting,
           NPCEvents(B, living, moving, biting),
           NEW s, s.kind \in {"heal", "respawn"}
    PROVE  NPCEvents(B (+) SetToBag({s}), living, moving, biting)
  <1> DEFINE C == B (+) SetToBag({s})
  <1>1. IsABag(B) /\ BagToSet(C) = BagToSet(B) \cup {s}
    BY Added DEF EventsFit
  <1>2. LeftoversFirst(C)
    BY <1>1 DEF NPCEvents, LeftoversFirst
  <1>3. ASSUME NEW n \in NPCs
        PROVE  Chains(C, n, living[n], moving[n], biting[n])
    <2>1. Chains(B, n, living[n], moving[n], biting[n])
      BY DEF NPCEvents
    <2>2. \A k \in {"move", "attack", "npcRespawn"} : {s} \cap Of(k, n) = {}
      BY DEF Of
    <2> QED
      BY <1>1, <2>1, <2>2, AddedElsewhere DEF Chains
  <1> QED
    BY <1>2, <1>3 DEF NPCEvents

\* What is left after an event was handed over: the chains it is not of, and
\* the order of what the dead left behind.
LEMMA Others ==
    ASSUME NEW B, NEW logins, EventsFit(B, logins), NEW living, NEW moving, NEW biting,
           NPCEvents(B, living, moving, biting), NEW e \in BagToSet(B), NEW n \in NPCs
    PROVE  LET C == B (-) SetToBag({e})
           IN  /\ LeftoversFirst(C)
               /\ e \notin Of("npcRespawn", n) => Chain(C, ~living[n], Of("npcRespawn", n))
               /\ living[n] /\ e \notin Of("move", n) => Chain(C, moving[n], Of("move", n))
               /\ living[n] /\ e \notin Of("attack", n) => Chain(C, biting[n], Of("attack", n))
  <1> DEFINE C == B (-) SetToBag({e})
  <1>1. IsABag(B) /\ BagToSet(C) \subseteq BagToSet(B)
    BY Taken DEF EventsFit
  <1>2. LeftoversFirst(C)
    BY <1>1 DEF NPCEvents, LeftoversFirst
  <1>3. Chains(B, n, living[n], moving[n], biting[n])
    BY DEF NPCEvents
  <1> QED
    BY <1>1, <1>2, <1>3, TakenElsewhere DEF Chains

\* An event of a player, or of a dead NPC but its respawn, is of no chain of a
\* live one.
LEMMA TakeForeign ==
    ASSUME NEW B, NEW logins, EventsFit(B, logins), NEW living, NEW moving, NEW biting,
           NPCEvents(B, living, moving, biting), NEW e \in BagToSet(B),
           \/ e.kind \in {"heal", "respawn"}
           \/ e.kind \in {"move", "attack"} /\ ~living[e.obj]
    PROVE  NPCEvents(B (-) SetToBag({e}), living, moving, biting)
  <1>1. ASSUME NEW n \in NPCs
        PROVE  /\ e \notin Of("npcRespawn", n)
               /\ living[n] => e \notin Of("move", n) /\ e \notin Of("attack", n)
    BY DEF Of
  <1>2. ASSUME NEW n \in NPCs
        PROVE  Chains(B (-) SetToBag({e}), n, living[n], moving[n], biting[n])
    BY <1>1, Others DEF Chains
  <1>3. LeftoversFirst(B (-) SetToBag({e}))
    <2>1. IsABag(B) /\ BagToSet(B (-) SetToBag({e})) \subseteq BagToSet(B)
      BY Taken DEF EventsFit
    <2> QED
      BY <2>1 DEF NPCEvents, LeftoversFirst
  <1> QED
    BY <1>2, <1>3 DEF NPCEvents

\* The move of a live NPC ends its chain of moves.
LEMMA TakeMove ==
    ASSUME NEW B, NEW logins, EventsFit(B, logins), NEW living, NEW biting,
           NEW moving \in [NPCs -> BOOLEAN],
           NPCEvents(B, living, moving, biting), NEW e \in BagToSet(B),
           e.kind = "move", living[e.obj],
           NEW moves, \A n \in NPCs : moves[n] <=> moving[n] /\ n # e.obj
    PROVE  moving[e.obj] /\ NPCEvents(B (-) SetToBag({e}), living, moves, biting)
  <1>1. IsABag(B) /\ e.obj \in NPCs /\ e \in Of("move", e.obj)
    BY TimersAreEvents DEF EventsFit, Fits, Of
  <1>2. Chain(B, moving[e.obj], Of("move", e.obj))
    BY <1>1 DEF NPCEvents, Chains
  <1>3. moving[e.obj] /\ Chain(B (-) SetToBag({e}), FALSE, Of("move", e.obj))
    <2>1. moving[e.obj]
      BY <1>1, <1>2 DEF Chain, Nothing
    <2>2. Chain(B, TRUE, Of("move", e.obj))
      BY <1>2, <2>1 DEF Chain
    <2> QED
      BY <1>1, <2>1, <2>2, Broken
  <1>4. ASSUME NEW n \in NPCs
        PROVE  /\ LeftoversFirst(B (-) SetToBag({e}))
               /\ Chains(B (-) SetToBag({e}), n, living[n], moves[n], biting[n])
    <2>1. /\ e \notin Of("npcRespawn", n) /\ e \notin Of("attack", n)
          /\ n # e.obj => e \notin Of("move", n)
      BY DEF Of
    <2>2. ASSUME living[n]
          PROVE  Chain(B (-) SetToBag({e}), moves[n], Of("move", n))
      <3>1. CASE n = e.obj
        BY <1>3, <3>1 DEF Chain
      <3>2. CASE n # e.obj
        <4>1. Chain(B (-) SetToBag({e}), moving[n], Of("move", n))
          BY <2>1, <2>2, <3>2, Others
        <4> QED
          BY <3>2, <4>1 DEF Chain
      <3> QED
        BY <3>1, <3>2
    <2> QED
      BY <2>1, <2>2, Others DEF Chains
  <1> QED
    BY <1>1, <1>3, <1>4 DEF NPCEvents

\* The attack of a live NPC ends its chain of attacks.
LEMMA TakeAttack ==
    ASSUME NEW B, NEW logins, EventsFit(B, logins), NEW living, NEW moving,
           NEW biting \in [NPCs -> BOOLEAN],
           NPCEvents(B, living, moving, biting), NEW e \in BagToSet(B),
           e.kind = "attack", living[e.obj],
           NEW bites, \A n \in NPCs : bites[n] <=> biting[n] /\ n # e.obj
    PROVE  biting[e.obj] /\ NPCEvents(B (-) SetToBag({e}), living, moving, bites)
  <1>1. IsABag(B) /\ e.obj \in NPCs /\ e \in Of("attack", e.obj)
    BY TimersAreEvents DEF EventsFit, Fits, Of
  <1>2. Chain(B, biting[e.obj], Of("attack", e.obj))
    BY <1>1 DEF NPCEvents, Chains
  <1>3. biting[e.obj] /\ Chain(B (-) SetToBag({e}), FALSE, Of("attack", e.obj))
    <2>1. biting[e.obj]
      BY <1>1, <1>2 DEF Chain, Nothing
    <2>2. Chain(B, TRUE, Of("attack", e.obj))
      BY <1>2, <2>1 DEF Chain
    <2> QED
      BY <1>1, <2>1, <2>2, Broken
  <1>4. ASSUME NEW n \in NPCs
        PROVE  /\ LeftoversFirst(B (-) SetToBag({e}))
               /\ Chains(B (-) SetToBag({e}), n, living[n], moving[n], bites[n])
    <2>1. /\ e \notin Of("npcRespawn", n) /\ e \notin Of("move", n)
          /\ n # e.obj => e \notin Of("attack", n)
      BY DEF Of
    <2>2. ASSUME living[n]
          PROVE  Chain(B (-) SetToBag({e}), bites[n], Of("attack", n))
      <3>1. CASE n = e.obj
        BY <1>3, <3>1 DEF Chain
      <3>2. CASE n # e.obj
        <4>1. Chain(B (-) SetToBag({e}), biting[n], Of("attack", n))
          BY <2>1, <2>2, <3>2, Others
        <4> QED
          BY <3>2, <4>1 DEF Chain
      <3> QED
        BY <3>1, <3>2
    <2> QED
      BY <2>1, <2>2, Others DEF Chains
  <1> QED
    BY <1>1, <1>3, <1>4 DEF NPCEvents

\* A respawn that comes first finds its NPC dead, and nothing of it under way.
LEMMA TakeRespawn ==
    ASSUME NEW B, NEW logins, EventsFit(B, logins), NEW moving, NEW biting,
           NEW living,
           NPCEvents(B, living, moving, biting), NEW e \in BagToSet(B),
           e.kind = "npcRespawn", \A f \in BagToSet(B) : e.wait <= f.wait,
           NEW lives, \A n \in NPCs : lives[n] <=> living[n] \/ n = e.obj,
           NEW moves, \A n \in NPCs : moves[n] <=> moving[n] /\ n # e.obj,
           NEW bites, \A n \in NPCs : bites[n] <=> biting[n] /\ n # e.obj
    PROVE  ~living[e.obj] /\ NPCEvents(B (-) SetToBag({e}), lives, moves, bites)
  <1> DEFINE C == B (-) SetToBag({e})
  <1>1. /\ IsABag(B) /\ e.obj \in NPCs /\ e \in Of("npcRespawn", e.obj)
        /\ BagToSet(C) \subseteq BagToSet(B)
    BY TimersAreEvents, Taken DEF EventsFit, Fits, Of
  <1>2. Chain(B, ~living[e.obj], Of("npcRespawn", e.obj))
    BY <1>1 DEF NPCEvents, Chains
  <1>3. ~living[e.obj] /\ Chain(C, FALSE, Of("npcRespawn", e.obj))
    BY <1>1, <1>2, Broken
  <1>4. Nothing(B, Of("move", e.obj)) /\ Nothing(B, Of("attack", e.obj))
    <2>1. ASSUME NEW f \in BagToSet(B), f.kind \in {"move", "attack"}, f.obj = e.obj
          PROVE  FALSE
      <3>1. f.wait < e.wait /\ e.wait <= f.wait
        BY <2>1 DEF NPCEvents, LeftoversFirst
      <3>2. f.wait \in Int /\ e.wait \in Int
        BY TimersAreEvents DEF EventsFit, Event
      <3> QED
        BY <3>1, <3>2
    <2> QED
      BY <2>1 DEF Nothing, Of
  <1>5. Nothing(C, Of("move", e.obj)) /\ Nothing(C, Of("attack", e.obj))
    BY <1>1, <1>4 DEF Nothing
  <1> HIDE DEF C
  <1>6. ASSUME NEW n \in NPCs
        PROVE  LeftoversFirst(C) /\ Chains(C, n, lives[n], moves[n], bites[n])
    <2>1. CASE n = e.obj
      <3>1. LeftoversFirst(C)
        BY <1>1, Others DEF C
      <3> QED
        BY <1>3, <1>5, <2>1, <3>1 DEF Chains, Chain
    <2>2. CASE n # e.obj
      <3>1. \A k \in {"move", "attack", "npcRespawn"} : e \notin Of(k, n)
        BY <2>2 DEF Of
      <3>2. LeftoversFirst(C) /\ Chains(C, n, living[n], moving[n], biting[n])
        BY <3>1, Others DEF C, Chains
      <3>3. (lives[n] <=> living[n]) /\ (moves[n] <=> moving[n]) /\ (bites[n] <=> biting[n])
        BY <2>2
      <3> QED
        BY <3>2, <3>3 DEF Chains, Chain
    <2> QED
      BY <2>1, <2>2
  <1>7. NPCEvents(C, lives, moves, bites)
    BY <1>1, <1>6 DEF NPCEvents
  <1> QED
    BY <1>3, <1>7 DEF C

\* A tick changes no chain, nor the order of what the dead left behind.
LEMMA NPCEventsTick ==
    ASSUME TypesInv, NPCInv, Tick
    PROVE  NPCInv'
  <1>1. /\ IsABag(timers) /\ BagToSet(timers) \subseteq Event /\ IsABag(timers')
        /\ BagToSet(timers') = {Earlier(f) : f \in BagToSet(timers)}
        /\ \A f \in BagToSet(timers) : timers'[Earlier(f)] = timers[f]
    BY FitTicks, TimersAreEvents DEF TypesInv, EventsFit
  <1>2. UNCHANGED <<alive, active, attacking>>
    BY DEF Tick, npcVars
  <1>3. LeftoversFirst(timers')
    <2>1. \A f \in Event : /\ Earlier(f).kind = f.kind /\ Earlier(f).obj = f.obj
                           /\ Earlier(f).wait = f.wait - 1 /\ f.wait \in Int
      BY DEF Event, Earlier
    <2>2. ASSUME NEW f \in BagToSet(timers), NEW g \in BagToSet(timers),
                 Earlier(f).kind \in {"move", "attack"}, Earlier(g).kind = "npcRespawn",
                 Earlier(f).obj = Earlier(g).obj
          PROVE  Earlier(f).wait < Earlier(g).wait
      <3>1. f.wait < g.wait
        BY <1>1, <2>1, <2>2 DEF NPCInv, NPCEvents, LeftoversFirst
      <3> QED
        BY <1>1, <2>1, <3>1
    <2> QED
      BY <1>1, <2>2 DEF LeftoversFirst
  <1>4. ASSUME NEW kind, NEW obj, NEW flag, Chain(timers, flag, Of(kind, obj))
        PROVE  Chain(timers', flag, Of(kind, obj))
    <2>1. \A f \in Event : f \in Of(kind, obj) <=> Earlier(f) \in Of(kind, obj)
      BY KeysTick
    <2> QED
      BY <1>1, <1>4, <2>1, ChainTicks
  <1> QED
    BY <1>2, <1>3, <1>4 DEF NPCInv, NPCEvents, Chains

\* NPCs that come into a view wake up.
LEMMA LookWakes ==
    ASSUME TypeOK, NEW p \in Players, NEW z, NEW seen, NEW pending, NEW logins,
           EventsFit(pending, logins), NPCEvents(pending, alive, active, attacking),
           LookAround(p, z, seen, pending)
    PROVE  NPCEvents(timers', alive, active', attacking)
  <1> DEFINE woken == Sight(p, z) \ seen
             M == {m \in woken : ~active[m]}
  <1>1. /\ M \in SUBSET NPCs /\ \A m \in M : alive[m] /\ ~active[m]
    BY DEF Sight
  <1>2. \A n \in NPCs : active'[n] <=> active[n] \/ n \in M
    BY DEF LookAround
  <1>3. timers' = pending (+) SetToBag({Move(n) : n \in M})
    BY DEF LookAround
  <1> HIDE DEF M, woken
  <1> QED
    BY <1>1, <1>2, <1>3, WakeUp

\* A player's step.
LEMMA NPCPlayer ==
    ASSUME TypesInv, NPCInv, NEW p \in Players,
           Login(p) \/ SessionExpires(p) \/ Logout(p) \/ HandleMove(p) \/ HandleAttack(p)
    PROVE  NPCInv'
  <1>0. TypeOK /\ EventsFit(timers, login) /\ NPCEvents(timers, alive, active, attacking)
    BY DEF TypesInv, NPCInv
  <1>1. CASE Login(p) \/ HandleMove(p)
    <2>1. UNCHANGED <<alive, attacking>> /\ \E z, seen : LookAround(p, z, seen, timers)
      BY <1>1 DEF Login, HandleMove
    <2>2. NPCEvents(timers', alive, active', attacking)
      BY <1>0, <2>1, LookWakes
    <2> QED
      BY <2>1, <2>2 DEF NPCInv
  <1>2. CASE SessionExpires(p) \/ Logout(p)
    <2>1. UNCHANGED <<timers, alive, active, attacking>>
      BY <1>2 DEF SessionExpires, Logout, npcVars
    <2> QED
      BY <1>0, <2>1 DEF NPCInv
  <1>3. CASE HandleAttack(p)
    <2>1. PICK hits \in SUBSET {n \in NPCs : alive[n] /\ zone[n][p] = Beside} : Hit(p, hits)
      BY <1>3 DEF HandleAttack
    <2> DEFINE hurt == hits \cap Agro
               dead == {n \in hurt : npcHp[n] <= HitDamage}
               angry == {n \in hurt \ dead : ~attacking[n]}
               B == timers (+) SetToBag({NPCRespawn(n) : n \in dead})
    <2>2. /\ alive' = [n \in NPCs |-> alive[n] /\ n \notin dead]
          /\ active' = [n \in NPCs |-> active[n] /\ n \notin dead]
          /\ attacking' = [n \in NPCs |-> (attacking[n] \/ n \in angry) /\ n \notin dead]
          /\ timers' = B (+) SetToBag({Attack(n, p) : n \in angry})
      BY <2>1 DEF Hit
    <2>3. /\ dead \in SUBSET NPCs /\ \A n \in dead : alive[n]
          /\ angry \in SUBSET NPCs /\ \A n \in angry : alive[n] /\ n \notin dead /\ ~attacking[n]
      BY <2>1
    <2> HIDE DEF hurt, dead, angry
    <2>4. \A n \in NPCs : alive'[n] <=> alive[n] /\ n \notin dead
      BY <2>2
    <2>5. NPCEvents(B, alive', active, attacking)
      BY <1>0, <2>3, <2>4, FallDead
    <2>6. EventsFit(B, login)
      BY <1>0, <2>3, FitAdded, EventsMade DEF TypeOK
    <2> HIDE DEF B
    <2> DEFINE bites == [n \in NPCs |-> attacking[n] \/ n \in angry]
    <2>7. NPCEvents(timers', alive', active, bites)
      <3>1. login[p] \in Nat /\ \A n \in angry : alive'[n] /\ ~attacking[n]
        BY <1>0, <2>3, <2>4 DEF TypeOK
      <3>2. \A n \in NPCs : bites[n] <=> attacking[n] \/ n \in angry
        OBVIOUS
      <3> HIDE DEF bites
      <3> QED
        BY <2>2, <2>3, <2>5, <2>6, <3>1, <3>2, StrikeBack
    <2>8. \A n \in NPCs : alive'[n] =>
            (active'[n] <=> active[n]) /\ (attacking'[n] <=> bites[n])
      BY <2>2
    <2> HIDE DEF bites
    <2> QED
      BY <2>7, <2>8 DEF NPCInv, NPCEvents, Chains, Chain
  <1> QED
    BY <1>1, <1>2, <1>3

\* An NPC that moved goes on while there is a player around, and stops
\* otherwise.
LEMMA BroadcastChain ==
    ASSUME TypeOK, NEW n \in NPCs, alive[n], active[n], NEW z, NEW pending,
           EventsFit(pending, login), NEW moves, NEW bites,
           \A m \in NPCs : moves[m] <=> active[m] /\ m # n,
           NPCEvents(pending, alive, moves, bites),
           Broadcast(n, z, pending)
    PROVE  NPCEvents(timers', alive, active', bites)
  <1>1. CASE Nearby(z, n) # {}
    <2>1. /\ timers' = pending (+) SetToBag({Move(m) : m \in {n}})
          /\ active' = active
      BY <1>1 DEF Broadcast
    <2>2. \A m \in NPCs : active'[m] <=> moves[m] \/ m \in {n}
      BY <2>1
    <2>3. {n} \in SUBSET NPCs /\ \A m \in {n} : alive[m] /\ ~moves[m]
      OBVIOUS
    <2> QED
      BY <2>1, <2>2, <2>3, WakeUp
  <1>2. CASE Nearby(z, n) = {}
    <2>1. timers' = pending /\ \A m \in NPCs : active'[m] <=> moves[m]
      BY <1>2 DEF Broadcast, TypeOK
    <2> QED
      BY <2>1 DEF NPCEvents, Chains, Chain
  <1> QED
    BY <1>1, <1>2

\* The move of a live NPC: it goes on, strikes, or stops.
LEMMA NPCUpdateMove ==
    ASSUME TypesInv, NPCInv, NEW e \in BagToSet(timers), UpdateMove(e)
    PROVE  NPCInv'
  <1> DEFINE moves == [m \in NPCs |-> active[m] /\ m # e.obj]
  <1>0. /\ TypeOK /\ EventsFit(timers, login) /\ NPCEvents(timers, alive, active, attacking)
        /\ active \in [NPCs -> BOOLEAN] /\ attacking \in [NPCs -> BOOLEAN]
    BY DEF TypesInv, NPCInv, TypeOK
  <1>1. /\ e.obj \in NPCs /\ e.kind = "move" /\ alive[e.obj] /\ alive' = alive
        /\ EventsFit(Without(e), login) /\ Fits(e, login)
    BY DueFits DEF UpdateMove, Fits
  <1>2. \A m \in NPCs : moves[m] <=> active[m] /\ m # e.obj
    OBVIOUS
  <1> HIDE DEF moves
  <1>3. active[e.obj] /\ NPCEvents(Without(e), alive, moves, attacking)
    BY <1>0, <1>1, <1>2, TakeMove DEF Without
  <1>4. CASE \E z \in Grids : NPCStepped(e.obj, z) /\ zone' = z
                              /\ Broadcast(e.obj, z, Without(e)) /\ UNCHANGED attacking
    <2>1. attacking' = attacking /\ \E z : Broadcast(e.obj, z, Without(e))
      BY <1>4
    <2>2. NPCEvents(timers', alive, active', attacking)
      BY <1>0, <1>1, <1>2, <1>3, <2>1, BroadcastChain
    <2> QED
      BY <1>1, <2>1, <2>2 DEF NPCInv
  <1>5. ASSUME NEW p \in Players,
               attacking' = [attacking EXCEPT ![e.obj] = TRUE],
               Broadcast(e.obj, zone,
                 IF attacking[e.obj] THEN Without(e)
                 ELSE Without(e) (+) SetToBag({Attack(e.obj, p)}))
        PROVE  NPCInv'
    <2>1. \A m \in NPCs : attacking'[m] <=> attacking[m] \/ m = e.obj
      BY <1>0, <1>1, <1>5
    <2>2. PICK pending : /\ Broadcast(e.obj, zone, pending)
                         /\ EventsFit(pending, login)
                         /\ NPCEvents(pending, alive, moves, attacking')
      <3>1. CASE attacking[e.obj]
        <4>1. \A m \in NPCs : attacking'[m] <=> attacking[m]
          BY <2>1, <3>1
        <4>2. NPCEvents(Without(e), alive, moves, attacking')
          BY <1>3, <4>1 DEF NPCEvents, Chains, Chain
        <4> QED
          BY <1>1, <1>5, <3>1, <4>2
      <3>2. CASE ~attacking[e.obj]
        <4>1. Broadcast(e.obj, zone, Without(e) (+) SetToBag({Attack(e.obj, p)}))
          BY <1>5, <3>2
        <4>2. \A s \in {Attack(e.obj, p)} : s \in Timer /\ Fits(s, login)
          BY <1>0, <1>1, EventsMade DEF TypeOK
        <4>3. EventsFit(Without(e) (+) SetToBag({Attack(e.obj, p)}), login)
          BY <1>1, <4>2, FitAdded
        <4>4. /\ {e.obj} \in SUBSET NPCs /\ \A m \in {e.obj} : alive[m] /\ ~attacking[m]
              /\ \A m \in NPCs : attacking'[m] <=> attacking[m] \/ m \in {e.obj}
              /\ login[p] \in Nat
          BY <1>0, <1>1, <2>1, <3>2 DEF TypeOK
        <4>5. NPCEvents(Without(e) (+) SetToBag({Attack(m, p) : m \in {e.obj}}),
                        alive, moves, attacking')
          BY <1>1, <1>3, <4>4, StrikeBack
        <4>6. {Attack(m, p) : m \in {e.obj}} = {Attack(e.obj, p)}
          OBVIOUS
        <4> QED
          BY <4>1, <4>3, <4>5, <4>6
      <3> QED
        BY <3>1, <3>2
    <2>3. NPCEvents(timers', alive, active', attacking')
      BY <1>0, <1>1, <1>2, <1>3, <2>2, BroadcastChain
    <2> QED
      BY <1>1, <2>3 DEF NPCInv
  <1> QED
    BY <1>4, <1>5 DEF UpdateMove

\* The attack of a live NPC: it attacks again while somebody with that id is
\* beside it.
LEMMA NPCNPCAttack ==
    ASSUME TypesInv, NPCInv, NEW e \in BagToSet(timers), NPCAttack(e)
    PROVE  NPCInv'
  <1> DEFINE bites == [m \in NPCs |-> attacking[m] /\ m # e.obj]
             n == e.obj
             p == e.target
  <1>0. /\ TypeOK /\ EventsFit(timers, login) /\ NPCEvents(timers, alive, active, attacking)
        /\ active \in [NPCs -> BOOLEAN] /\ attacking \in [NPCs -> BOOLEAN]
    BY DEF TypesInv, NPCInv, TypeOK
  <1>1. /\ n \in NPCs /\ p \in Players /\ e.kind = "attack" /\ alive[n]
        /\ alive' = alive /\ active' = active
        /\ EventsFit(Without(e), login) /\ Fits(e, login)
    BY DueFits DEF NPCAttack, Fits
  <1>2. \A m \in NPCs : bites[m] <=> attacking[m] /\ m # n
    OBVIOUS
  <1> HIDE DEF bites, n, p
  <1>3. NPCEvents(Without(e), alive, active, bites)
    BY <1>0, <1>1, <1>2, TakeAttack DEF Without, n
  <1>4. CASE InWorld(p) /\ zone[n][p] = Beside
    <2> DEFINE B == Without(e) (+) SetToBag({Attack(n, p)})
    <2>1. Bite(p, B) /\ attacking' = [attacking EXCEPT ![n] = TRUE]
      BY <1>4 DEF NPCAttack, n, p
    <2>2. /\ \A m \in {n} : alive[m] /\ ~bites[m]
          /\ \A m \in NPCs : attacking'[m] <=> bites[m] \/ m \in {n}
          /\ {n} \in SUBSET NPCs /\ login[p] \in Nat
      BY <1>0, <1>1, <1>2, <2>1 DEF TypeOK
    <2>3. NPCEvents(B, alive, active, attacking')
      <3>1. NPCEvents(Without(e) (+) SetToBag({Attack(m, p) : m \in {n}}),
                      alive, active, attacking')
        BY <1>1, <1>3, <2>2, StrikeBack
      <3>2. {Attack(m, p) : m \in {n}} = {Attack(n, p)}
        OBVIOUS
      <3> QED
        BY <3>1, <3>2
    <2>4. EventsFit(B, login)
      <3>1. \A s \in {Attack(n, p)} : s \in Timer /\ Fits(s, login)
        BY <1>0, <1>1, EventsMade DEF TypeOK
      <3> QED
        BY <1>1, <3>1, FitAdded
    <2> HIDE DEF B
    <2>5. \/ timers' = B
          \/ timers' = B (+) SetToBag({Respawn(p)})
          \/ timers' = B (+) SetToBag({Heal(p)})
      BY <2>1 DEF Bite
    <2>6. Respawn(p).kind = "respawn" /\ Heal(p).kind = "heal"
      BY DEF Respawn, Heal
    <2>7. NPCEvents(timers', alive, active, attacking')
      BY <2>3, <2>4, <2>5, <2>6, PlayersOwn
    <2> QED
      BY <1>1, <2>7 DEF NPCInv
  <1>5. CASE ~(InWorld(p) /\ zone[n][p] = Beside)
    <2>1. attacking' = [attacking EXCEPT ![n] = FALSE] /\ timers' = Without(e)
      BY <1>5 DEF NPCAttack, n, p
    <2>2. \A m \in NPCs : attacking'[m] <=> bites[m]
      BY <1>0, <1>1, <1>2, <2>1
    <2>3. NPCEvents(timers', alive, active, attacking')
      BY <1>3, <2>1, <2>2 DEF NPCEvents, Chains, Chain
    <2> QED
      BY <1>1, <2>3 DEF NPCInv
  <1> QED
    BY <1>4, <1>5

\* The events of players, and those that find nobody.
LEMMA NPCOtherEvents ==
    ASSUME TypesInv, NPCInv, NEW e \in BagToSet(timers),
           Drop(e) \/ PlayerHeal(e) \/ PlayerRespawn(e)
    PROVE  NPCInv'
  <1>0. TypeOK /\ EventsFit(timers, login) /\ NPCEvents(timers, alive, active, attacking)
    BY DEF TypesInv, NPCInv
  <1>1. EventsFit(Without(e), login)
    BY DueFits DEF Drop, PlayerHeal, PlayerRespawn
  <1>2. \/ e.kind \in {"heal", "respawn"}
        \/ e.kind \in {"move", "attack"} /\ ~alive[e.obj]
    BY DEF Drop, PlayerHeal, PlayerRespawn
  <1>3. NPCEvents(Without(e), alive, active, attacking)
    BY <1>0, <1>2, TakeForeign DEF Without
  <1>4. CASE Drop(e)
    BY <1>3, <1>4 DEF Drop, NPCInv, npcVars
  <1>5. CASE PlayerHeal(e)
    <2>1. /\ UNCHANGED <<alive, active, attacking>>
          /\ timers' = Without(e) \/ timers' = Without(e) (+) SetToBag({Heal(e.obj)})
      BY <1>5 DEF PlayerHeal, npcVars
    <2>2. Heal(e.obj).kind = "heal"
      BY DEF Heal
    <2>3. NPCEvents(timers', alive, active, attacking)
      BY <1>1, <1>3, <2>1, <2>2, PlayersOwn
    <2> QED
      BY <2>1, <2>3 DEF NPCInv
  <1>6. CASE PlayerRespawn(e)
    <2>1. /\ UNCHANGED <<alive, attacking>> /\ e.obj \in Players
          /\ \/ \E z : LookAround(e.obj, z, {}, Without(e))
             \/ timers' = Without(e) /\ active' = active
      BY <1>6, DueFits DEF PlayerRespawn, Fits
    <2>2. NPCEvents(timers', alive, active', attacking)
      BY <1>0, <1>1, <1>3, <2>1, LookWakes
    <2> QED
      BY <2>1, <2>2 DEF NPCInv
  <1> QED
    BY <1>4, <1>5, <1>6

\* A respawn of an NPC starts it afresh.
LEMMA NPCNPCRespawns ==
    ASSUME TypesInv, NPCInv, NEW e \in BagToSet(timers), NPCRespawns(e)
    PROVE  NPCInv' /\ ~alive[e.obj]
  <1>0. /\ TypeOK /\ EventsFit(timers, login) /\ NPCEvents(timers, alive, active, attacking)
        /\ alive \in [NPCs -> BOOLEAN]
        /\ active \in [NPCs -> BOOLEAN] /\ attacking \in [NPCs -> BOOLEAN]
    BY DEF TypesInv, NPCInv, TypeOK
  <1>1. /\ e.kind = "npcRespawn" /\ \A f \in BagToSet(timers) : e.wait <= f.wait
        /\ timers' = Without(e)
        /\ alive' = [alive EXCEPT ![e.obj] = TRUE]
        /\ active' = [active EXCEPT ![e.obj] = FALSE]
        /\ attacking' = [attacking EXCEPT ![e.obj] = FALSE]
    BY DEF NPCRespawns, Due
  <1>2. /\ \A n \in NPCs : alive'[n] <=> alive[n] \/ n = e.obj
        /\ \A n \in NPCs : active'[n] <=> active[n] /\ n # e.obj
        /\ \A n \in NPCs : attacking'[n] <=> attacking[n] /\ n # e.obj
    BY <1>0, <1>1
  <1>3. /\ ~alive[e.obj]
        /\ NPCEvents(timers (-) SetToBag({e}), alive', active', attacking')
    <2>1. /\ EventsFit(timers, login) /\ NPCEvents(timers, alive, active, attacking)
          /\ e.kind = "npcRespawn" /\ \A f \in BagToSet(timers) : e.wait <= f.wait
      BY <1>0, <1>1
    <2> QED
      BY <1>2, <2>1, TakeRespawn
  <1> QED
    BY <1>1, <1>3 DEF NPCInv, Without

\* Every step keeps the chains of the NPCs.
LEMMA NPCStep ==
    ASSUME TypesInv, NPCInv, [Next]_vars
    PROVE  NPCInv'
  <1>1. CASE UNCHANGED vars
    BY <1>1 DEF vars, npcVars, NPCInv
  <1>2. ASSUME NEW e \in BagToSet(timers), Fire(e)
        PROVE  NPCInv'
    BY <1>2, NPCUpdateMove, NPCNPCAttack, NPCOtherEvents, NPCNPCRespawns DEF Fire
  <1> QED
    BY <1>1, <1>2, NPCPlayer, NPCEventsTick DEF Next

\* The chains as the properties of Battle state them.
LEMMA Stated ==
    ASSUME TypesInv, NEW kind, NEW obj
    PROVE  /\ Outstanding(kind, obj) = BagToSet(timers) \cap Of(kind, obj)
           /\ \A flag : Chain(timers, flag, Of(kind, obj)) =>
                /\ flag => OneOutstanding(kind, obj) /\ Outstanding(kind, obj) # {}
                /\ ~flag => Outstanding(kind, obj) = {}
  <1>1. Outstanding(kind, obj) = BagToSet(timers) \cap Of(kind, obj)
    BY TimersAreEvents DEF TypesInv, EventsFit, Outstanding, Of
  <1>2. ASSUME One(timers, Of(kind, obj))
        PROVE  OneOutstanding(kind, obj) /\ Outstanding(kind, obj) # {}
    BY <1>1, <1>2 DEF One, OneOutstanding
  <1>3. ASSUME Nothing(timers, Of(kind, obj))
        PROVE  Outstanding(kind, obj) = {}
    BY <1>1, <1>3 DEF Nothing
  <1> QED
    BY <1>1, <1>2, <1>3 DEF Chain

\* At first nothing is under way and every NPC lives.
LEMMA InitNPC == Init => NPCInv
  <1> SUFFICES ASSUME Init
               PROVE  NPCInv
    OBVIOUS
  <1>1. BagToSet(timers) = {}
    BY DEF Init, EmptyBag, SetToBag, BagToSet
  <1>2. \A n \in NPCs : alive[n] /\ ~active[n] /\ ~attacking[n]
    BY DEF Init
  <1> QED
    BY <1>1, <1>2 DEF NPCInv, NPCEvents, LeftoversFirst, Chains, Chain, Nothing

\* For any players and NPCs, and any intervals of which the NPCs' respawn is
\* the longest: a live NPC has one move under way while it is active and none
\* otherwise, and the same of its attacks, although a death and a respawn reset
\* the flags while events are under way (NPC.cpp:148-174, 228-229, 273-274).
THEOREM OneChain == Spec => []OneChainEach
  <1>1. Init => TypesInv /\ NPCInv
    BY InitTypes, InitNPC
  <1>2. TypesInv /\ NPCInv /\ [Next]_vars => (TypesInv /\ NPCInv)'
    BY TypesStep, NPCStep
  <1>3. TypesInv /\ NPCInv => OneChainEach
    <2> SUFFICES ASSUME TypesInv, NPCInv, NEW n \in NPCs, alive[n]
                 PROVE  /\ IF active[n] THEN OneOutstanding("move", n)
                                        ELSE Outstanding("move", n) = {}
                        /\ IF attacking[n] THEN OneOutstanding("attack", n)
                                           ELSE Outstanding("attack", n) = {}
      BY DEF OneChainEach
    <2>1. /\ Chain(timers, active[n], Of("move", n))
          /\ Chain(timers, attacking[n], Of("attack", n))
      BY DEF NPCInv, NPCEvents, Chains
    <2> QED
      BY <2>1, Stated
  <1> QED
    BY <1>1, <1>2, <1>3, PTL DEF Spec

-----------------------------------------------------------------------------
(* What players see *)

\* Looking around, p sees what is alive, in view and awake; the others see
\* what they saw.
LEMMA LookSeen ==
    ASSUME TypeOK, SeenInv, NEW p \in Players, NEW z \in Grids, NEW seen, NEW pending,
           LookAround(p, z, seen, pending), zone' = z, alive' = alive,
           PlayerPut(p, z) \/ PlayerStepped(p, z),
           \A q \in Players \ {p} : Linked(q)' <=> Linked(q),
           \A n \in seen : Linked(p) /\ n \in view[p]
    PROVE  SeenInv'
  <1>1. /\ view' = [view EXCEPT ![p] = Sight(p, z)]
        /\ active' = [n \in NPCs |-> active[n] \/ n \in Sight(p, z) \ seen]
    BY DEF LookAround
  <1>2. ASSUME NEW n \in NPCs, n \in view'[p]
        PROVE  alive'[n] /\ Visible(zone', n, p) /\ active'[n]
    <2>1. n \in Sight(p, z)
      BY <1>1, <1>2 DEF TypeOK
    <2>2. n \in seen => active[n]
      BY DEF SeenInv
    <2> QED
      BY <1>1, <2>1, <2>2 DEF Sight, Visible
  <1>3. ASSUME NEW q \in Players \ {p}, NEW n \in NPCs, Linked(q)', n \in view'[q]
        PROVE  alive'[n] /\ Visible(zone', n, q) /\ active'[n]
    <2>1. n \in view[q] /\ Linked(q)
      BY <1>1, <1>3 DEF TypeOK
    <2>2. alive[n] /\ Visible(zone, n, q) /\ active[n]
      BY <2>1 DEF SeenInv
    <2>3. zone'[n][q] = zone[n][q]
      BY DEF PlayerPut, PlayerStepped
    <2> QED
      BY <1>1, <2>2, <2>3 DEF Visible
  <1> QED
    BY <1>2, <1>3 DEF SeenInv

\* A player's step.
LEMMA SeenPlayer ==
    ASSUME TypesInv, SeenInv, NEW p \in Players,
           Login(p) \/ SessionExpires(p) \/ Logout(p) \/ HandleMove(p) \/ HandleAttack(p)
    PROVE  SeenInv'
  <1>0. TypeOK
    BY DEF TypesInv
  <1>1. CASE Login(p)
    <2>1. PICK z \in Grids : PlayerPut(p, z) /\ zone' = z /\ LookAround(p, z, {}, timers)
      BY <1>1 DEF Login
    <2>2. \A q \in Players \ {p} : Linked(q)' <=> Linked(q)
      BY <1>0, <1>1 DEF Login, Linked, InWorld, TypeOK
    <2>3. alive' = alive
      BY <1>1 DEF Login
    <2> QED
      BY <1>0, <2>1, <2>2, <2>3, LookSeen
  <1>2. CASE HandleMove(p)
    <2>1. PICK z \in Grids :
            PlayerStepped(p, z) /\ zone' = z /\ LookAround(p, z, view[p], timers)
      BY <1>2 DEF HandleMove
    <2>2. /\ \A q \in Players \ {p} : Linked(q)' <=> Linked(q)
          /\ Linked(p) /\ alive' = alive
      BY <1>2 DEF HandleMove, playerVars, Linked, InWorld
    <2> QED
      BY <1>0, <2>1, <2>2, LookSeen
  <1>3. CASE SessionExpires(p)
    <2>1. /\ UNCHANGED <<alive, active, zone, view>>
          /\ \A q \in Players : Linked(q)' => Linked(q)
      BY <1>0, <1>3 DEF SessionExpires, npcVars, Linked, InWorld, TypeOK
    <2> QED
      BY <2>1 DEF SeenInv, Visible
  <1>4. CASE Logout(p)
    <2>1. /\ UNCHANGED <<alive, active>> /\ ~Linked(p)'
          /\ \A q \in Players \ {p} : /\ Linked(q)' => Linked(q)
                                      /\ view'[q] = view[q]
                                      /\ \A n \in NPCs : zone'[n][q] = zone[n][q]
      BY <1>0, <1>4 DEF Logout, npcVars, Linked, InWorld, TypeOK
    <2> QED
      BY <2>1 DEF SeenInv, Visible
  <1>5. CASE HandleAttack(p)
    <2>1. PICK hits \in SUBSET {n \in NPCs : alive[n] /\ zone[n][p] = Beside} : Hit(p, hits)
      BY <1>5 DEF HandleAttack
    <2> DEFINE dead == {n \in hits \cap Agro : npcHp[n] <= HitDamage}
    <2>2. /\ alive' = [n \in NPCs |-> alive[n] /\ n \notin dead]
          /\ active' = [n \in NPCs |-> active[n] /\ n \notin dead]
          /\ view' = [q \in Players |-> {n \in view[q] : n \in dead => zone[n][q] < Near}]
          /\ zone' = zone /\ \A q \in Players : Linked(q)' <=> Linked(q)
      BY <1>5, <2>1 DEF Hit, HandleAttack, playerVars, Linked, InWorld
    <2> HIDE DEF dead
    <2>3. ASSUME NEW q \in Players, NEW n \in NPCs, Linked(q)', n \in view'[q]
          PROVE  alive'[n] /\ Visible(zone', n, q) /\ active'[n]
      <3>1. alive[n] /\ Visible(zone, n, q) /\ active[n]
        BY <2>2, <2>3 DEF SeenInv
      <3>2. zone[n][q] \in Zones /\ zone[n][q] >= Seen
        BY <1>0, <3>1 DEF Visible, TypeOK
      <3>3. n \notin dead
        BY <2>2, <2>3, <3>2 DEF Zones, Away, Near, Seen, Beside
      <3> QED
        BY <2>2, <3>1, <3>3 DEF Visible
    <2> QED
      BY <2>3 DEF SeenInv
  <1> QED
    BY <1>1, <1>2, <1>3, <1>4, <1>5

\* An NPC that moves by a cell stays within the sectors around whoever saw it,
\* so BroadcastMoveToPlayers reaches every list it is in.
LEMMA BroadcastSeen ==
    ASSUME TypeOK, SeenInv, NEW n \in NPCs, alive[n], active[n], NEW z \in Grids, NEW pending,
           z = zone \/ NPCStepped(n, z), Broadcast(n, z, pending), zone' = z,
           UNCHANGED <<alive, life, linked>>
    PROVE  SeenInv'
  <1>1. ASSUME NEW q \in Players, NEW m \in NPCs, Linked(q)', m \in view'[q]
        PROVE  alive'[m] /\ Visible(zone', m, q) /\ active'[m]
    <2>1. Linked(q)
      BY <1>1 DEF Linked, InWorld
    <2>2. CASE m = n
      <3>1. zone[n][q] \in Zones /\ z[n][q] \in Zones
        BY DEF TypeOK, Grids
      <3>2. z[n][q] - zone[n][q] \in -1..1
        <4>1. CASE z = zone
          BY <3>1, <4>1 DEF Zones, Away, Beside
        <4>2. CASE NPCStepped(n, z)
          <5>1. z[n][q] \in Step(zone[n][q])
            BY <2>1, <4>2 DEF NPCStepped, Linked
          <5> QED
            BY <5>1 DEF Step
        <4> QED
          BY <4>1, <4>2
      <3>3. q \in Nearby(z, n)
        <4>1. CASE n \in view[q]
          <5>1. zone[n][q] >= Seen
            BY <2>1, <4>1 DEF SeenInv, Visible
          <5>2. z[n][q] >= Near
            BY <3>1, <3>2, <5>1 DEF Zones, Away, Near, Seen, Beside
          <5> QED
            BY <2>1, <5>2 DEF Nearby
        <4>2. CASE n \notin view[q]
          BY <1>1, <2>2, <4>2 DEF Broadcast
        <4> QED
          BY <4>1, <4>2
      <3>4. Visible(z, n, q)
        BY <1>1, <2>2, <3>3 DEF Broadcast
      <3>5. active' = active
        BY <3>3 DEF Broadcast
      <3> QED
        BY <2>2, <3>4, <3>5
    <2>3. CASE m # n
      <3>1. m \in view[q]
        BY <1>1, <2>3 DEF Broadcast
      <3>2. alive[m] /\ Visible(zone, m, q) /\ active[m]
        BY <2>1, <3>1 DEF SeenInv
      <3>3. zone'[m] = zone[m] /\ (active'[m] <=> active[m])
        BY <2>3 DEF NPCStepped, Broadcast, TypeOK
      <3> QED
        BY <3>2, <3>3 DEF Visible
    <2> QED
      BY <2>2, <2>3
  <1> QED
    BY <1>1 DEF SeenInv

\* A timer event, or a tick.
LEMMA SeenTimer ==
    ASSUME TypesInv, NPCInv, SeenInv, (\E e \in BagToSet(timers) : Fire(e)) \/ Tick
    PROVE  SeenInv'
  <1>0. TypeOK /\ EventsFit(timers, login) /\ NPCEvents(timers, alive, active, attacking)
    BY DEF TypesInv, NPCInv
  <1>1. ASSUME UNCHANGED <<alive, active, zone, view>>,
               \A q \in Players : Linked(q)' => Linked(q)
        PROVE  SeenInv'
    BY <1>1 DEF SeenInv, Visible
  <1>2. CASE Tick
    BY <1>1, <1>2 DEF Tick, npcVars, playerVars, Linked, InWorld
  <1>3. ASSUME NEW e \in BagToSet(timers), Drop(e) \/ PlayerHeal(e)
        PROVE  SeenInv'
    BY <1>1, <1>3 DEF Drop, PlayerHeal, npcVars, playerVars, Linked, InWorld
  <1>4. ASSUME NEW e \in BagToSet(timers), UpdateMove(e)
        PROVE  SeenInv'
    <2>1. /\ e.obj \in NPCs /\ e.kind = "move" /\ alive[e.obj]
          /\ UNCHANGED <<alive, life, linked>>
      BY <1>4, DueFits DEF UpdateMove, Fits, playerVars
    <2>2. active[e.obj]
      <3>1. e \in Of("move", e.obj)
        BY <1>0, <2>1, TimersAreEvents DEF EventsFit, Of
      <3>2. Chain(timers, active[e.obj], Of("move", e.obj))
        BY <1>0, <2>1 DEF NPCEvents, Chains
      <3> QED
        BY <3>1, <3>2 DEF Chain, Nothing
    <2>3. \E z \in Grids : \E pending : /\ z = zone \/ NPCStepped(e.obj, z)
                                        /\ Broadcast(e.obj, z, pending) /\ zone' = z
      <3>1. zone \in Grids
        BY <1>0 DEF TypeOK, Grids
      <3> QED
        BY <1>4, <3>1 DEF UpdateMove
    <2> QED
      BY <1>0, <2>1, <2>2, <2>3, BroadcastSeen
  <1>5. ASSUME NEW e \in BagToSet(timers), NPCAttack(e)
        PROVE  SeenInv'
    <2>1. UNCHANGED <<alive, active, linked, zone, view>>
      BY <1>5 DEF NPCAttack
    <2>2. \A q \in Players : InWorld(q)' => InWorld(q)
      BY <1>0, <1>5 DEF NPCAttack, Bite, InWorld, TypeOK
    <2> QED
      BY <1>1, <2>1, <2>2 DEF Linked
  <1>6. ASSUME NEW e \in BagToSet(timers), PlayerRespawn(e)
        PROVE  SeenInv'
    <2>1. e.obj \in Players
      BY <1>6, DueFits DEF PlayerRespawn, Fits
    <2>2. PICK z \in Grids :
            /\ PlayerPut(e.obj, z) /\ zone' = z
            /\ IF linked[e.obj]
               THEN LookAround(e.obj, z, {}, Without(e))
               ELSE /\ view' = [view EXCEPT ![e.obj] = Sight(e.obj, z)]
                    /\ timers' = Without(e)
                    /\ UNCHANGED active
      BY <1>6 DEF PlayerRespawn
    <2>3. /\ \A q \in Players \ {e.obj} : Linked(q)' <=> Linked(q)
          /\ alive' = alive /\ linked' = linked
      BY <1>0, <1>6, <2>1 DEF PlayerRespawn, Linked, InWorld, TypeOK
    <2>4. CASE linked[e.obj]
      BY <1>0, <2>1, <2>2, <2>3, <2>4, LookSeen
    <2>5. CASE ~linked[e.obj]
      <3>1. /\ ~Linked(e.obj)' /\ UNCHANGED <<alive, active>>
            /\ \A q \in Players \ {e.obj} : view'[q] = view[q]
            /\ \A q \in Players \ {e.obj}, n \in NPCs : zone'[n][q] = zone[n][q]
        BY <1>0, <2>1, <2>2, <2>3, <2>5 DEF Linked, TypeOK, PlayerPut
      <3> QED
        BY <2>3, <3>1 DEF SeenInv, Visible
    <2> QED
      BY <2>4, <2>5
  <1>7. ASSUME NEW e \in BagToSet(timers), NPCRespawns(e)
        PROVE  SeenInv'
    <2>1. ~alive[e.obj] /\ e.obj \in NPCs
      BY <1>7, NPCNPCRespawns, DueFits DEF NPCRespawns, Fits
    <2>2. /\ view' = view /\ \A q \in Players : Linked(q)' <=> Linked(q)
          /\ \A m \in NPCs \ {e.obj} : /\ zone'[m] = zone[m] /\ alive'[m] = alive[m]
                                       /\ active'[m] = active[m]
      BY <1>0, <1>7 DEF NPCRespawns, playerVars, Linked, InWorld, TypeOK
    <2> QED
      BY <2>1, <2>2 DEF SeenInv, Visible
  <1> QED
    BY <1>2, <1>3, <1>4, <1>5, <1>6, <1>7 DEF Fire

\* Every step keeps what is seen alive, in view and awake.
LEMMA SeenStep ==
    ASSUME TypesInv, NPCInv, SeenInv, [Next]_vars
    PROVE  SeenInv'
  <1>1. CASE UNCHANGED vars
    BY <1>1 DEF vars, npcVars, playerVars, SeenInv, Linked, InWorld, Visible
  <1> QED
    BY <1>1, SeenPlayer, SeenTimer DEF Next

\* No NPC is ever frozen on a screen: in the view list of a player with a
\* session every NPC is alive, in view, and has a move under way, however
\* deaths, logouts and timer events interleave (Player.cpp:108-112,
\* NPC.cpp:236-247, 440-464).
THEOREM NobodyFrozen == Spec => []SeenAreAwake
  <1>1. Init => TypesInv /\ NPCInv /\ SeenInv
    BY InitTypes, InitNPC DEF Init, SeenInv, Linked, InWorld
  <1>2. TypesInv /\ NPCInv /\ SeenInv /\ [Next]_vars => (TypesInv /\ NPCInv /\ SeenInv)'
    BY TypesStep, NPCStep, SeenStep
  <1>3. TypesInv /\ NPCInv /\ SeenInv => SeenAreAwake
    <2> SUFFICES ASSUME TypesInv, NPCInv, SeenInv, NEW p \in Players, NEW n \in NPCs,
                        Linked(p), n \in view[p]
                 PROVE  alive[n] /\ Visible(zone, n, p) /\ Outstanding("move", n) # {}
      BY DEF SeenAreAwake
    <2>1. alive[n] /\ Visible(zone, n, p) /\ active[n]
      BY DEF SeenInv
    <2>2. Chain(timers, active[n], Of("move", n))
      BY <2>1 DEF NPCInv, NPCEvents, Chains
    <2> QED
      BY <2>1, <2>2, Stated
  <1> QED
    BY <1>1, <1>2, <1>3, PTL DEF Spec

-----------------------------------------------------------------------------
(* What players wait for *)

\* Flags that claim no more leave the claim true.
LEMMA AwaitsLess ==
    ASSUME NEW B, NEW p, NEW l, NEW dead, NEW own, NEW wounded,
           Awaits(B, p, l, dead, own, wounded),
           NEW dead2, NEW own2, NEW wounded2,
           own2 => own /\ (dead2 <=> dead), dead2 => dead, wounded2 => wounded
    PROVE  Awaits(B, p, l, dead2, own2, wounded2)
  BY DEF Awaits, Chain

\* What is registered beside p's respawns takes nothing away.
LEMMA AwaitsAdded ==
    ASSUME NEW B, IsABag(B), NEW S, NEW p, NEW l, NEW dead, NEW own, NEW wounded,
           Awaits(B, p, l, dead, own, wounded), S \cap Own(p, l) = {}
    PROVE  Awaits(B (+) SetToBag(S), p, l, dead, own, wounded)
  <1> DEFINE C == B (+) SetToBag(S)
  <1>1. BagToSet(C) = BagToSet(B) \cup S
    BY Added
  <1>2. own => Chain(C, dead, Own(p, l))
    BY AddedElsewhere DEF Awaits
  <1> HIDE DEF C
  <1>3. \A K : ~Nothing(B, K) => ~Nothing(C, K)
    BY <1>1 DEF Nothing
  <1>4. Awaits(C, p, l, dead, own, wounded)
    BY <1>2, <1>3 DEF Awaits
  <1> QED
    BY <1>4 DEF C

\* What is handed over, when it is neither p's respawn nor p's heal or p waits
\* for none, is not missed.
LEMMA AwaitsTaken ==
    ASSUME NEW B, IsABag(B), NEW e \in BagToSet(B),
           NEW p, NEW l, NEW dead, NEW own, NEW wounded,
           Awaits(B, p, l, dead, own, wounded),
           e \notin Own(p, l) \/ (~own /\ ~dead),
           e \notin Of("heal", p) \/ ~wounded
    PROVE  Awaits(B (-) SetToBag({e}), p, l, dead, own, wounded)
  <1> DEFINE C == B (-) SetToBag({e})
  <1>1. BagToSet(B) \ {e} \subseteq BagToSet(C)
    BY Taken
  <1>2. own => Chain(C, dead, Own(p, l))
    BY TakenElsewhere DEF Awaits
  <1> HIDE DEF C
  <1>3. ASSUME NEW K, e \notin K, ~Nothing(B, K)
        PROVE  ~Nothing(C, K)
    BY <1>1, <1>3 DEF Nothing
  <1>4. dead => ~Nothing(C, Own(p, l))
    BY <1>3 DEF Awaits
  <1>5. wounded => ~Nothing(C, Of("heal", p))
    BY <1>3 DEF Awaits
  <1>6. Awaits(C, p, l, dead, own, wounded)
    BY <1>2, <1>4, <1>5 DEF Awaits
  <1> QED
    BY <1>6 DEF C

\* Events of NPCs are not what a player waits for.
LEMMA NPCKinds ==
    ASSUME NEW e, e.kind \in {"move", "attack", "npcRespawn"}, NEW p, NEW l
    PROVE  e \notin Own(p, l) /\ e \notin Of("heal", p)
  BY DEF Own, Of

\* Waking NPCs up registers their moves.
LEMMA LookAwaits ==
    ASSUME NEW p, NEW z, NEW seen, NEW pending, IsABag(pending),
           LookAround(p, z, seen, pending),
           NEW q, NEW l, NEW dead, NEW own, NEW wounded,
           Awaits(pending, q, l, dead, own, wounded)
    PROVE  Awaits(timers', q, l, dead, own, wounded)
  <1> DEFINE M == {m \in Sight(p, z) \ seen : ~active[m]}
             S == {Move(n) : n \in M}
  <1>1. timers' = pending (+) SetToBag(S)
    BY DEF LookAround
  <1>2. \A e \in S : e.kind = "move"
    BY DEF Move
  <1> HIDE DEF S
  <1>3. S \cap Own(q, l) = {}
    BY <1>2 DEF Own, Of
  <1> QED
    BY <1>1, <1>3, AwaitsAdded

\* A player's step.
LEMMA AwaitsPlayer ==
    ASSUME TypesInv, PlayerInv, NEW p \in Players,
           Login(p) \/ SessionExpires(p) \/ Logout(p) \/ HandleMove(p) \/ HandleAttack(p)
    PROVE  PlayerInv'
  <1> USE DEF Dead, OnItsOwn, Wounded, InWorld
  <1>0. TypeOK /\ EventsFit(timers, login) /\ IsABag(timers)
    BY DEF TypesInv, EventsFit
  <1>1. CASE Login(p)
    <2>1. PICK z : LookAround(p, z, {}, timers)
      BY <1>1 DEF Login
    <2>2. /\ login' = [login EXCEPT ![p] = login[p] + 1]
          /\ life' = [life EXCEPT ![p] = "inGame"]
          /\ healed' = [healed EXCEPT ![p] = FALSE]
          /\ lost' = lost \ {p} /\ early' = early \ {p}
      BY <1>0, <1>1 DEF Login, TypeOK
    <2>3. ASSUME NEW q \in Players \ {p}
          PROVE  Awaits(timers', q, login'[q], Dead(q)', OnItsOwn(q)', Wounded(q)')
      <3>1. Awaits(timers', q, login[q], Dead(q), OnItsOwn(q), Wounded(q))
        BY <1>0, <2>1, LookAwaits DEF PlayerInv
      <3>2. /\ login'[q] = login[q] /\ (Dead(q)' <=> Dead(q))
            /\ (OnItsOwn(q)' <=> OnItsOwn(q)) /\ (Wounded(q)' <=> Wounded(q))
        BY <1>0, <2>2 DEF TypeOK
      <3> HIDE DEF Dead, OnItsOwn, Wounded, InWorld
      <3> QED
        BY <3>1, <3>2, AwaitsLess
    <2>4. Nothing(timers, Own(p, login'[p]))
      <3>1. login[p] \in Nat /\ login'[p] = login[p] + 1
        BY <1>0, <2>2 DEF TypeOK
      <3>2. ASSUME NEW e \in BagToSet(timers), e.kind = "respawn", e.obj = p
            PROVE  e.login # login'[p]
        <4>1. e.login <= login[p] /\ e.login \in Nat
          BY <1>0, <3>2 DEF EventsFit, Fits, Timer
        <4> QED
          BY <3>1, <4>1
      <3> QED
        BY <3>2 DEF Nothing, Own, Of
    <2>5. ~Dead(p)' /\ ~Wounded(p)'
      BY <1>0, <2>2 DEF TypeOK
    <2> HIDE DEF Dead, OnItsOwn, Wounded, InWorld
    <2>6. Awaits(timers, p, login'[p], Dead(p)', OnItsOwn(p)', Wounded(p)')
      BY <2>4, <2>5 DEF Awaits, Chain
    <2>7. Awaits(timers', p, login'[p], Dead(p)', OnItsOwn(p)', Wounded(p)')
      BY <1>0, <2>1, <2>6, LookAwaits
    <2> QED
      BY <2>3, <2>7 DEF PlayerInv
  <1>2. CASE SessionExpires(p)
    BY <1>2 DEF SessionExpires, historyVars, PlayerInv
  <1>3. CASE Logout(p)
    <2>1. /\ UNCHANGED <<timers, login>>
          /\ \A q \in Players : /\ OnItsOwn(q)' => OnItsOwn(q) /\ (Dead(q)' <=> Dead(q))
                                /\ Dead(q)' => Dead(q)
                                /\ Wounded(q)' => Wounded(q)
      BY <1>0, <1>3 DEF Logout, historyVars, TypeOK
    <2> HIDE DEF Dead, OnItsOwn, Wounded, InWorld
    <2> SUFFICES ASSUME NEW q \in Players
                 PROVE  Awaits(timers, q, login[q], Dead(q)', OnItsOwn(q)', Wounded(q)')
      BY <2>1 DEF PlayerInv
    <2>2. Awaits(timers, q, login[q], Dead(q), OnItsOwn(q), Wounded(q))
      BY DEF PlayerInv
    <2> QED
      BY <2>1, <2>2, AwaitsLess
  <1>4. CASE HandleMove(p)
    <2>1. UNCHANGED <<login, life, healed, early, lost>> /\ \E z, seen : LookAround(p, z, seen, timers)
      BY <1>4 DEF HandleMove, playerVars, historyVars
    <2>2. \A q \in Players : Awaits(timers', q, login[q], Dead(q), OnItsOwn(q), Wounded(q))
      BY <1>0, <2>1, LookAwaits DEF PlayerInv
    <2> QED
      BY <2>1, <2>2 DEF PlayerInv
  <1>5. CASE HandleAttack(p)
    <2>1. UNCHANGED <<login, life, healed, early, lost>> /\ \E hits : Hit(p, hits)
      BY <1>5 DEF HandleAttack, playerVars, historyVars
    <2>2. PICK S, T :
            /\ timers' = timers (+) SetToBag(S) (+) SetToBag(T)
            /\ \A e \in S : e.kind = "npcRespawn"
            /\ \A e \in T : e.kind = "attack"
      <3>1. PICK hits : Hit(p, hits)
        BY <2>1
      <3> DEFINE hurt == hits \cap Agro
                 dead == {n \in hurt : npcHp[n] <= HitDamage}
                 angry == {n \in hurt \ dead : ~attacking[n]}
                 S == {NPCRespawn(n) : n \in dead}
                 T == {Attack(n, p) : n \in angry}
      <3>2. timers' = timers (+) SetToBag(S) (+) SetToBag(T)
        BY <3>1 DEF Hit
      <3>3. (\A e \in S : e.kind = "npcRespawn") /\ (\A e \in T : e.kind = "attack")
        BY DEF NPCRespawn, Attack
      <3> QED
        BY <3>2, <3>3
    <2>3. ASSUME NEW q \in Players
          PROVE  Awaits(timers', q, login[q], Dead(q), OnItsOwn(q), Wounded(q))
      <3>1. S \cap Own(q, login[q]) = {} /\ T \cap Own(q, login[q]) = {}
        BY <2>2 DEF Own, Of
      <3>2. Awaits(timers, q, login[q], Dead(q), OnItsOwn(q), Wounded(q))
        BY DEF PlayerInv
      <3>3. IsABag(timers (+) SetToBag(S))
        BY <1>0, Added
      <3> HIDE DEF Dead, OnItsOwn, Wounded, InWorld
      <3>4. Awaits(timers (+) SetToBag(S), q, login[q], Dead(q), OnItsOwn(q), Wounded(q))
        BY <1>0, <3>1, <3>2, AwaitsAdded
      <3> QED
        BY <2>2, <3>1, <3>3, <3>4, AwaitsAdded
    <2> QED
      BY <2>1, <2>3 DEF PlayerInv
  <1> QED
    BY <1>1, <1>2, <1>3, <1>4, <1>5

\* A tick brings what is waited for nearer.
LEMMA AwaitsTick ==
    ASSUME TypesInv, PlayerInv, Tick
    PROVE  PlayerInv'
  <1>1. /\ IsABag(timers) /\ BagToSet(timers) \subseteq Event /\ IsABag(timers')
        /\ BagToSet(timers') = {Earlier(f) : f \in BagToSet(timers)}
        /\ \A f \in BagToSet(timers) : timers'[Earlier(f)] = timers[f]
    BY FitTicks, TimersAreEvents DEF TypesInv, EventsFit
  <1>2. UNCHANGED <<login, life, healed, early, lost>>
    BY DEF Tick, playerVars, historyVars
  <1>3. ASSUME NEW K, \A f \in Event : f \in K <=> Earlier(f) \in K
        PROVE  /\ \A flag : Chain(timers, flag, K) => Chain(timers', flag, K)
               /\ ~Nothing(timers, K) => ~Nothing(timers', K)
    <2>1. \A flag : Chain(timers, flag, K) => Chain(timers', flag, K)
      BY <1>1, <1>3, ChainTicks
    <2>2. ~Nothing(timers, K) => ~Nothing(timers', K)
      BY <1>1, <1>3 DEF Nothing
    <2> QED
      BY <2>1, <2>2
  <1>4. ASSUME NEW p \in Players
        PROVE  Awaits(timers', p, login[p], Dead(p), OnItsOwn(p), Wounded(p))
    <2>1. /\ \A f \in Event : f \in Own(p, login[p]) <=> Earlier(f) \in Own(p, login[p])
          /\ \A f \in Event : f \in Of("heal", p) <=> Earlier(f) \in Of("heal", p)
      BY KeysTick
    <2>2. Awaits(timers, p, login[p], Dead(p), OnItsOwn(p), Wounded(p))
      BY DEF PlayerInv
    <2> QED
      BY <1>3, <2>1, <2>2 DEF Awaits
  <1> QED
    BY <1>2, <1>4 DEF PlayerInv, Dead, OnItsOwn, Wounded, InWorld

\* An event that finds nobody, or somebody dead: a heal that finds its player
\* dead is lost.
LEMMA AwaitsDrop ==
    ASSUME TypesInv, PlayerInv, NEW e \in BagToSet(timers), Drop(e)
    PROVE  PlayerInv'
  <1>0. TypeOK /\ IsABag(timers)
    BY DEF TypesInv, EventsFit
  <1>1. /\ timers' = Without(e) /\ UNCHANGED <<login, life, healed, early>>
        /\ lost \subseteq lost'
        /\ e.kind = "heal" /\ Dead(e.obj) => e.obj \in lost'
    BY DEF Drop, playerVars, Dead
  <1>2. /\ e.kind = "heal" => life[e.obj] # "inGame"
        /\ e.kind = "respawn" => ~InWorld(e.obj)
    BY DEF Drop
  <1> SUFFICES ASSUME NEW p \in Players
               PROVE  Awaits(timers', p, login[p], Dead(p)', OnItsOwn(p)', Wounded(p)')
    BY <1>1 DEF PlayerInv
  <1>3. /\ Dead(p)' <=> Dead(p)
        /\ OnItsOwn(p)' <=> OnItsOwn(p)
        /\ Wounded(p)' => Wounded(p)
    BY <1>1 DEF Dead, OnItsOwn, Wounded, InWorld
  <1>4. e \in Own(p, login[p]) => ~OnItsOwn(p)' /\ ~Dead(p)'
    BY <1>1, <1>2 DEF Own, Of, OnItsOwn, Dead, InWorld
  <1>5. e \in Of("heal", p) => ~Wounded(p)'
    BY <1>0, <1>1, <1>2 DEF Of, Wounded, Dead, InWorld, TypeOK
  <1>6. Awaits(timers, p, login[p], Dead(p)', OnItsOwn(p)', Wounded(p)')
    <2>1. Awaits(timers, p, login[p], Dead(p), OnItsOwn(p), Wounded(p))
      BY DEF PlayerInv
    <2> QED
      BY <1>3, <2>1, AwaitsLess
  <1> QED
    BY <1>0, <1>1, <1>4, <1>5, <1>6, AwaitsTaken DEF Without

\* Moves and respawns of NPCs.
LEMMA AwaitsNPC ==
    ASSUME TypesInv, PlayerInv, NEW e \in BagToSet(timers), UpdateMove(e) \/ NPCRespawns(e)
    PROVE  PlayerInv'
  <1>0. TypeOK /\ IsABag(timers)
    BY DEF TypesInv, EventsFit
  <1>1. UNCHANGED <<login, life, healed, early, lost>>
    BY DEF UpdateMove, NPCRespawns, playerVars, historyVars
  <1>2. e.kind \in {"move", "npcRespawn"} /\ IsABag(Without(e))
    BY <1>0, Taken DEF UpdateMove, NPCRespawns, Without
  <1> SUFFICES ASSUME NEW p \in Players
               PROVE  Awaits(timers', p, login[p], Dead(p), OnItsOwn(p), Wounded(p))
    BY <1>1 DEF PlayerInv, Dead, OnItsOwn, Wounded, InWorld
  <1> DEFINE Fine(B) == /\ IsABag(B)
                        /\ Awaits(B, p, login[p], Dead(p), OnItsOwn(p), Wounded(p))
  <1>3. Fine(Without(e))
    <2>1. Awaits(timers, p, login[p], Dead(p), OnItsOwn(p), Wounded(p))
      BY DEF PlayerInv
    <2> QED
      BY <1>0, <1>2, <2>1, NPCKinds, AwaitsTaken DEF Without
  <1>4. ASSUME NEW B, Fine(B), NEW s, s.kind \in {"move", "attack"}
        PROVE  Fine(B (+) SetToBag({s}))
    <2>1. {s} \cap Own(p, login[p]) = {}
      BY <1>4, NPCKinds
    <2> QED
      BY <1>4, <2>1, Added, AwaitsAdded
  <1>5. ASSUME NEW n, NEW z, NEW pending, Fine(pending), Broadcast(n, z, pending)
        PROVE  Fine(timers')
    <2>1. timers' = pending \/ timers' = pending (+) SetToBag({Move(n)})
      BY <1>5 DEF Broadcast
    <2>2. Move(n).kind = "move"
      BY DEF Move
    <2> HIDE DEF Fine
    <2> QED
      BY <1>4, <1>5, <2>1, <2>2
  <1>6. Fine(timers')
    <2>1. CASE NPCRespawns(e)
      BY <1>3, <2>1 DEF NPCRespawns
    <2>2. CASE UpdateMove(e)
      <3>1. \A q : Attack(e.obj, q).kind = "attack"
        BY DEF Attack
      <3>2. \A q : Fine(Without(e) (+) SetToBag({Attack(e.obj, q)}))
        <4> HIDE DEF Fine
        <4> QED
          BY <1>3, <1>4, <3>1
      <3>3. \E n, z, pending : Fine(pending) /\ Broadcast(n, z, pending)
        <4>1. CASE \E z \in Grids : NPCStepped(e.obj, z) /\ zone' = z
                                    /\ Broadcast(e.obj, z, Without(e)) /\ UNCHANGED attacking
          BY <1>3, <4>1
        <4>2. ASSUME NEW q \in Players,
                     Broadcast(e.obj, zone,
                       IF attacking[e.obj] THEN Without(e)
                       ELSE Without(e) (+) SetToBag({Attack(e.obj, q)}))
              PROVE  \E n, z, pending : Fine(pending) /\ Broadcast(n, z, pending)
          <5>1. Fine(IF attacking[e.obj] THEN Without(e)
                     ELSE Without(e) (+) SetToBag({Attack(e.obj, q)}))
            <6> HIDE DEF Fine
            <6> QED
              BY <1>3, <3>2
          <5> HIDE DEF Fine
          <5> QED
            BY <4>2, <5>1
        <4> HIDE DEF Fine
        <4> QED
          BY <2>2, <4>1, <4>2 DEF UpdateMove
      <3> HIDE DEF Fine
      <3> QED
        BY <1>5, <3>3
    <2> HIDE DEF Fine
    <2> QED
      BY <2>1, <2>2
  <1> QED
    BY <1>6

\* A heal: the next one is registered, or the player is whole.
LEMMA AwaitsHeal ==
    ASSUME TypesInv, PlayerInv, NEW e \in BagToSet(timers), PlayerHeal(e)
    PROVE  PlayerInv'
  <1> DEFINE p == e.obj
             full == hp[p] + HealAmount > MaxHp
  <1>0. /\ TypeOK /\ IsABag(timers) /\ IsABag(Without(e))
        /\ p \in Players /\ e.kind = "heal"
    BY DueFits DEF TypesInv, EventsFit, PlayerHeal, Fits
  <1>1. /\ UNCHANGED <<login, life, early, lost>>
        /\ healed' = [healed EXCEPT ![p] = ~full]
        /\ timers' = IF full THEN Without(e) ELSE Without(e) (+) SetToBag({Heal(p)})
    BY DEF PlayerHeal, historyVars
  <1> HIDE DEF full, p
  <1> SUFFICES ASSUME NEW q \in Players
               PROVE  Awaits(timers', q, login[q], Dead(q)', OnItsOwn(q)', Wounded(q)')
    BY <1>1 DEF PlayerInv
  <1>2. /\ Dead(q)' <=> Dead(q)
        /\ OnItsOwn(q)' <=> OnItsOwn(q)
        /\ q # p => (Wounded(q)' <=> Wounded(q))
        /\ q = p /\ full => ~Wounded(q)'
    BY <1>0, <1>1 DEF Dead, OnItsOwn, Wounded, InWorld, TypeOK
  <1>3. Awaits(timers, q, login[q], Dead(q), OnItsOwn(q), Wounded(q))
    BY DEF PlayerInv
  <1>4. /\ e \notin Own(q, login[q])
        /\ q # p => e \notin Of("heal", q)
        /\ {Heal(p)} \cap Own(q, login[q]) = {}
    BY <1>0 DEF Own, Of, Heal, p
  <1>5. CASE q # p
    <2>1. Awaits(timers, q, login[q], Dead(q)', OnItsOwn(q)', Wounded(q)')
      BY <1>2, <1>3, <1>5, AwaitsLess
    <2>2. Awaits(Without(e), q, login[q], Dead(q)', OnItsOwn(q)', Wounded(q)')
      BY <1>0, <1>4, <1>5, <2>1, AwaitsTaken DEF Without
    <2> QED
      BY <1>0, <1>1, <1>4, <2>2, AwaitsAdded
  <1>6. CASE q = p
    <2>1. Awaits(timers, q, login[q], Dead(q)', OnItsOwn(q)', FALSE)
      BY <1>2, <1>3 DEF Awaits, Chain
    <2>2. Awaits(Without(e), q, login[q], Dead(q)', OnItsOwn(q)', FALSE)
      BY <1>0, <1>4, <2>1, AwaitsTaken DEF Without
    <2>3. Awaits(timers', q, login[q], Dead(q)', OnItsOwn(q)', FALSE)
      BY <1>0, <1>1, <1>4, <2>2, AwaitsAdded
    <2>4. Wounded(q)' => ~Nothing(timers', Of("heal", q))
      <3>1. CASE full
        BY <1>2, <1>6, <3>1
      <3>2. CASE ~full
        <4>1. Heal(p) \in BagToSet(timers')
          BY <1>0, <1>1, <3>2, Added
        <4>2. Heal(p) \in Event /\ Heal(p).kind = "heal" /\ Heal(p).obj = p
          BY <1>0, Delays DEF Heal, Event, TypeOK
        <4> QED
          BY <1>6, <4>1, <4>2 DEF Nothing, Of
      <3> QED
        BY <3>1, <3>2
    <2> QED
      BY <2>3, <2>4 DEF Awaits
  <1> QED
    BY <1>5, <1>6

\* An attack: whoever is bitten dies and is due to respawn, or heals; who is
\* dead, or has no session, is let be.
LEMMA AwaitsAttack ==
    ASSUME TypesInv, PlayerInv, NEW e \in BagToSet(timers), NPCAttack(e)
    PROVE  PlayerInv'
  <1> DEFINE p == e.target
             n == e.obj
             B == Without(e) (+) SetToBag({Attack(n, p)})
  <1>0. /\ TypeOK /\ IsABag(timers) /\ IsABag(Without(e))
        /\ p \in Players /\ e.kind = "attack"
        /\ UNCHANGED <<login, early, lost>>
    BY DueFits DEF TypesInv, EventsFit, NPCAttack, Fits, historyVars
  <1>1. Attack(n, p).kind = "attack"
    BY DEF Attack
  <1>2. /\ Respawn(p) \in Own(p, login[p])
        /\ \A q \in Players \ {p} : {Respawn(p)} \cap Own(q, login[q]) = {}
        /\ Heal(p) \in Of("heal", p)
        /\ \A q \in Players : {Heal(p)} \cap Own(q, login[q]) = {}
    <2>1. Respawn(p) \in Event /\ Heal(p) \in Event
      BY <1>0, Delays DEF Respawn, Heal, Event, TypeOK
    <2>2. /\ Respawn(p).kind = "respawn" /\ Respawn(p).obj = p /\ Respawn(p).login = login[p]
          /\ Heal(p).kind = "heal" /\ Heal(p).obj = p
      BY DEF Respawn, Heal
    <2> HIDE DEF p
    <2> QED
      BY <2>1, <2>2 DEF Own, Of
  <1>3. ASSUME NEW q \in Players
        PROVE  /\ Awaits(Without(e), q, login[q], Dead(q), OnItsOwn(q), Wounded(q))
               /\ Awaits(B, q, login[q], Dead(q), OnItsOwn(q), Wounded(q))
    <2>1. Awaits(timers, q, login[q], Dead(q), OnItsOwn(q), Wounded(q))
      BY DEF PlayerInv
    <2>2. Awaits(Without(e), q, login[q], Dead(q), OnItsOwn(q), Wounded(q))
      BY <1>0, <2>1, NPCKinds, AwaitsTaken DEF Without
    <2>3. {Attack(n, p)} \cap Own(q, login[q]) = {}
      BY <1>1, NPCKinds
    <2> QED
      BY <1>0, <2>2, <2>3, AwaitsAdded
  <1>4. IsABag(B)
    BY <1>0, Added
  <1>5. \/ UNCHANGED <<life, healed>> /\ timers' \in {Without(e), B}
        \/ /\ life[p] = "inGame" /\ life' = [life EXCEPT ![p] = "dead"]
           /\ UNCHANGED healed /\ timers' = B (+) SetToBag({Respawn(p)})
        \/ /\ healed' = [healed EXCEPT ![p] = TRUE] /\ UNCHANGED life /\ InWorld(p)
           /\ timers' = IF healed[p] THEN B ELSE B (+) SetToBag({Heal(p)})
    <2>1. CASE InWorld(p) /\ zone[n][p] = Beside
      <3>1. Bite(p, B)
        BY <2>1 DEF NPCAttack
      <3> HIDE DEF B, p, n
      <3>2. life[p] \in {"inGame", "dead"}
        BY <1>0, <2>1 DEF TypeOK, InWorld
      <3> QED
        BY <2>1, <3>1, <3>2 DEF Bite
    <2>2. CASE ~(InWorld(p) /\ zone[n][p] = Beside)
      BY <2>2 DEF NPCAttack
    <2> QED
      BY <2>1, <2>2
  <1> HIDE DEF B, p, n
  <1> SUFFICES ASSUME NEW q \in Players
               PROVE  Awaits(timers', q, login[q], Dead(q)', OnItsOwn(q)', Wounded(q)')
    BY <1>0 DEF PlayerInv
  <1>6. CASE UNCHANGED <<life, healed>> /\ timers' \in {Without(e), B}
    <2>1. (Dead(q)' <=> Dead(q)) /\ (OnItsOwn(q)' <=> OnItsOwn(q)) /\ (Wounded(q)' <=> Wounded(q))
      BY <1>0, <1>6 DEF Dead, OnItsOwn, Wounded, InWorld
    <2>2. Awaits(timers', q, login[q], Dead(q), OnItsOwn(q), Wounded(q))
      BY <1>3, <1>6
    <2> QED
      BY <2>1, <2>2, AwaitsLess
  <1>7. CASE /\ life[p] = "inGame" /\ life' = [life EXCEPT ![p] = "dead"]
             /\ UNCHANGED healed /\ timers' = B (+) SetToBag({Respawn(p)})
    <2>1. /\ OnItsOwn(q)' <=> OnItsOwn(q)
          /\ Wounded(q)' <=> Wounded(q)
          /\ q # p => (Dead(q)' <=> Dead(q))
          /\ q = p => ~Dead(q)
      BY <1>0, <1>7 DEF Dead, OnItsOwn, Wounded, InWorld, TypeOK
    <2>2. CASE q # p
      <3>1. Awaits(timers', q, login[q], Dead(q), OnItsOwn(q), Wounded(q))
        BY <1>2, <1>3, <1>4, <1>7, <2>2, AwaitsAdded
      <3> QED
        BY <2>1, <2>2, <3>1, AwaitsLess
    <2>3. CASE q = p
      <3>1. BagToSet(timers') = BagToSet(B) \cup {Respawn(p)}
        BY <1>4, <1>7, Added
      <3>2. ~Nothing(timers', Own(p, login[p]))
        BY <1>2, <3>1 DEF Nothing
      <3>3. OnItsOwn(p) => Chain(timers', TRUE, Own(p, login[p]))
        <4>1. OnItsOwn(p) => Nothing(B, Own(p, login[p]))
          BY <1>0, <1>3, <2>1, <2>3 DEF Awaits, Chain
        <4>2. {Respawn(p)} \cap Own(p, login[p]) = {Respawn(p)}
          BY <1>2
        <4> QED
          BY <1>4, <1>7, <4>1, <4>2, Started
      <3>4. Wounded(p) => ~Nothing(timers', Of("heal", p))
        <4>1. Wounded(p) => ~Nothing(B, Of("heal", p))
          BY <1>0, <1>3 DEF Awaits
        <4> QED
          BY <3>1, <4>1 DEF Nothing
      <3>5. Dead(p)'
        BY <1>0, <1>7 DEF Dead, TypeOK
      <3> QED
        BY <2>1, <2>3, <3>2, <3>3, <3>4, <3>5 DEF Awaits, Chain
    <2> QED
      BY <2>2, <2>3
  <1>8. CASE /\ healed' = [healed EXCEPT ![p] = TRUE] /\ UNCHANGED life /\ InWorld(p)
             /\ timers' = IF healed[p] THEN B ELSE B (+) SetToBag({Heal(p)})
    <2>1. /\ Dead(q)' <=> Dead(q)
          /\ OnItsOwn(q)' <=> OnItsOwn(q)
          /\ q # p \/ healed[p] => (Wounded(q)' <=> Wounded(q))
      BY <1>0, <1>8 DEF Dead, OnItsOwn, Wounded, InWorld, TypeOK
    <2>2. Awaits(timers', q, login[q], Dead(q), OnItsOwn(q), Wounded(q))
      BY <1>2, <1>3, <1>4, <1>8, AwaitsAdded
    <2>3. CASE q # p \/ healed[p]
      BY <2>1, <2>2, <2>3, AwaitsLess
    <2>4. CASE q = p /\ ~healed[p]
      <3>1. ~Nothing(timers', Of("heal", p))
        BY <1>2, <1>4, <1>8, <2>4, Added DEF Nothing
      <3> QED
        BY <2>1, <2>2, <2>4, <3>1 DEF Awaits, Chain
    <2> QED
      BY <2>3, <2>4
  <1> QED
    BY <1>5, <1>6, <1>7, <1>8

\* A respawn: of the present login, and then it was the only one and the dead
\* lives again; or of the id's last holder, and the player is on its own no
\* longer.
LEMMA AwaitsRespawn ==
    ASSUME TypesInv, PlayerInv, NEW e \in BagToSet(timers), PlayerRespawn(e)
    PROVE  PlayerInv'
  <1> DEFINE p == e.obj
  <1>0. /\ TypeOK /\ IsABag(timers) /\ IsABag(Without(e))
        /\ p \in Players /\ e.kind = "respawn" /\ e \in Event
    BY DueFits, TimersAreEvents DEF TypesInv, EventsFit, PlayerRespawn, Fits
  <1>1. /\ UNCHANGED <<login, lost, healed>> /\ InWorld(p)
        /\ life' = [life EXCEPT ![p] = "inGame"]
        /\ early' = IF e.login = login[p] THEN early ELSE early \cup {p}
    BY DEF PlayerRespawn
  <1>2. timers' = Without(e) \/ \E z : LookAround(p, z, {}, Without(e))
    BY DEF PlayerRespawn
  <1> HIDE DEF p
  <1> SUFFICES ASSUME NEW q \in Players
               PROVE  Awaits(timers', q, login[q], Dead(q)', OnItsOwn(q)', Wounded(q)')
    BY <1>1 DEF PlayerInv
  <1>3. /\ Wounded(q)' <=> Wounded(q)
        /\ q # p => (Dead(q)' <=> Dead(q)) /\ (OnItsOwn(q)' <=> OnItsOwn(q))
        /\ q = p => ~Dead(q)'
        /\ OnItsOwn(q)' => OnItsOwn(q)
        /\ q = p /\ OnItsOwn(q)' => e.login = login[q]
    BY <1>0, <1>1 DEF Dead, OnItsOwn, Wounded, InWorld, TypeOK
  <1>4. Awaits(timers, q, login[q], Dead(q), OnItsOwn(q), Wounded(q))
    BY DEF PlayerInv
  <1>5. /\ e \notin Of("heal", q)
        /\ q # p => e \notin Own(q, login[q])
        /\ q = p /\ e.login = login[q] => e \in Own(q, login[q])
    BY <1>0 DEF Own, Of, p
  <1>6. Awaits(Without(e), q, login[q], Dead(q)', OnItsOwn(q)', Wounded(q)')
    <2>1. CASE q # p
      <3>1. Awaits(timers, q, login[q], Dead(q)', OnItsOwn(q)', Wounded(q)')
        BY <1>3, <1>4, <2>1, AwaitsLess
      <3> QED
        BY <1>0, <1>5, <2>1, <3>1, AwaitsTaken DEF Without
    <2>2. CASE q = p
      <3>1. Awaits(timers, q, login[q], FALSE, FALSE, Wounded(q)')
        BY <1>3, <1>4 DEF Awaits
      <3>2. Awaits(Without(e), q, login[q], FALSE, FALSE, Wounded(q)')
        BY <1>0, <1>5, <3>1, AwaitsTaken DEF Without
      <3>3. OnItsOwn(q)' => Chain(Without(e), FALSE, Own(q, login[q]))
        <4>1. ASSUME OnItsOwn(q)'
              PROVE  Chain(Without(e), FALSE, Own(q, login[q]))
          <5>1. e \in Own(q, login[q]) /\ Chain(timers, Dead(q), Own(q, login[q]))
            BY <1>3, <1>4, <1>5, <2>2, <4>1 DEF Awaits
          <5> QED
            BY <1>0, <5>1, Broken DEF Without
        <4> QED
          BY <4>1
      <3> QED
        BY <1>3, <2>2, <3>2, <3>3 DEF Awaits, Chain
    <2> QED
      BY <2>1, <2>2
  <1> QED
    BY <1>0, <1>2, <1>6, LookAwaits

\* Every step keeps what the players wait for.
LEMMA AwaitsStep == TypesInv /\ PlayerInv /\ [Next]_vars => PlayerInv'
  <1>1. ASSUME TypesInv, PlayerInv, UNCHANGED vars
        PROVE  PlayerInv'
    BY <1>1 DEF vars, playerVars, historyVars, PlayerInv, Awaits, Chain, One, Nothing,
                Dead, OnItsOwn, Wounded, InWorld
  <1> QED
    BY <1>1, AwaitsPlayer, AwaitsTick, AwaitsDrop, AwaitsNPC, AwaitsHeal, AwaitsAttack,
       AwaitsRespawn DEF Next, Fire

\* At first nobody is in.
LEMMA InitPlayers == Init => PlayerInv
  BY DEF Init, PlayerInv, Awaits, Dead, OnItsOwn, Wounded, InWorld

\* All of it together.
LEMMA PlayersHold == Spec => [](TypesInv /\ NPCInv /\ PlayerInv)
  <1>1. Init => TypesInv /\ NPCInv /\ PlayerInv
    BY InitTypes, InitNPC, InitPlayers
  <1>2. TypesInv /\ NPCInv /\ PlayerInv /\ [Next]_vars => (TypesInv /\ NPCInv /\ PlayerInv)'
    BY TypesStep, NPCStep, AwaitsStep
  <1> QED
    BY <1>1, <1>2, PTL DEF Spec

\* For any players and NPCs a dead NPC has exactly one respawn event under way
\* and a live one none, and a dead player has one of its own login, whatever
\* events of the id's last holder come first (Player.cpp:222-253,
\* NPC.cpp:222-260).
THEOREM TheDeadComeBack == Spec => []DeadComeBack
  <1>1. TypesInv /\ NPCInv /\ PlayerInv => DeadComeBack
    <2> SUFFICES ASSUME TypesInv, NPCInv, PlayerInv
                 PROVE  DeadComeBack
      OBVIOUS
    <2>1. ASSUME NEW n \in NPCs
          PROVE  IF alive[n] THEN Outstanding("npcRespawn", n) = {}
                             ELSE OneOutstanding("npcRespawn", n)
      <3>1. Chain(timers, ~alive[n], Of("npcRespawn", n))
        BY DEF NPCInv, NPCEvents, Chains
      <3> QED
        BY <3>1, Stated
    <2>2. ASSUME NEW p \in Players, life[p] = "dead"
          PROVE  \E e \in Outstanding("respawn", p) : e.login = login[p]
      <3>1. ~Nothing(timers, Own(p, login[p]))
        BY <2>2 DEF PlayerInv, Awaits, Dead
      <3>2. Outstanding("respawn", p) = BagToSet(timers) \cap Of("respawn", p)
        BY Stated
      <3> QED
        BY <3>1, <3>2 DEF Nothing, Own
    <2> QED
      BY <2>1, <2>2 DEF DeadComeBack
  <1> QED
    BY <1>1, PlayersHold, PTL

\* For any players: while _isHealed is set a heal is under way, except where
\* one came while the player was dead (TimerThread.cpp:115,
\* Player.cpp:294-325).
THEOREM HealComes == Spec => []HealUnderWay
  <1>1. TypesInv /\ NPCInv /\ PlayerInv => HealUnderWay
    <2> SUFFICES ASSUME TypesInv, PlayerInv, NEW p \in Players, InWorld(p), healed[p], p \notin lost
                 PROVE  Outstanding("heal", p) # {}
      BY DEF HealUnderWay
    <2>1. ~Nothing(timers, Of("heal", p))
      BY DEF PlayerInv, Awaits, Wounded
    <2> QED
      BY <2>1, Stated DEF Nothing
  <1> QED
    BY <1>1, PlayersHold, PTL

\* For any players: only an event registered for the id's last holder respawns
\* a live player, which costs it half of its experience (TimerThread.cpp:151,
\* Player.cpp:255-263).
THEOREM RespawnForTheDead == Spec => RespawnIsForTheDead
  <1>1. TypesInv /\ NPCInv /\ PlayerInv =>
          \A e \in BagToSet(timers) :
            PlayerRespawn(e) => life[e.obj] = "dead" \/ e.obj \in early'
    <2> SUFFICES ASSUME TypesInv, PlayerInv, NEW e \in BagToSet(timers),
                        PlayerRespawn(e), e.obj \notin early'
                 PROVE  life[e.obj] = "dead"
      OBVIOUS
    <2> DEFINE p == e.obj
    <2>1. p \in Players /\ e \in Event /\ e.kind = "respawn" /\ InWorld(p)
      BY TimersAreEvents DEF TypesInv, EventsFit, PlayerRespawn, Fits
    <2>2. e.login = login[p] /\ p \notin early
      BY DEF PlayerRespawn
    <2>3. e \in Own(p, login[p]) /\ OnItsOwn(p)
      BY <2>1, <2>2 DEF Own, Of, OnItsOwn
    <2>4. Chain(timers, Dead(p), Own(p, login[p]))
      BY <2>1, <2>3 DEF PlayerInv, Awaits
    <2> QED
      BY <2>3, <2>4 DEF Chain, Nothing, Dead
  <1>2. TypesInv /\ NPCInv /\ PlayerInv /\ [Next]_vars =>
          [\A e \in BagToSet(timers) :
             PlayerRespawn(e) => life[e.obj] = "dead" \/ e.obj \in early']_vars
    BY <1>1
  <1> QED
    BY <1>2, PlayersHold, PTL DEF Spec, RespawnIsForTheDead
===============================================================================
