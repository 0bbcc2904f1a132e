-------------------------------- MODULE Battle --------------------------------
(***************************************************************************)
(* Player.cpp, NPC.cpp and the events of TimerThread::ProcessTimerEvent:   *)
(* moves, attacks, damage, death, healing and respawn.  All of it runs on  *)
(* the logic thread, so one step is one event.  What makes it hard are the *)
(* timer events that are under way meanwhile: each carries an object id    *)
(* and finds whatever has that id and that state when it comes.            *)
(*                                                                         *)
(* TimerThread hands its events to the logic thread in the order of their  *)
(* wakeup time, so the two queues are one bag here, and the event that is  *)
(* due longest comes next.  A tick stands for 500 ms in the run.           *)
(*                                                                         *)
(* Positions are abstracted to how close an NPC is to a player (Zones).    *)
(* One step moves an object by one cell, hence by one zone, as VIEW_RANGE  *)
(* and one more are within SECTOR_SIZE.  How fast a client may move and    *)
(* attack, experience, the players' view of each other and the packets     *)
(* are left out.  Ids are shared by successive players, one at a time      *)
(* (SessionLifecycle says when that fails).                                *)
(***************************************************************************)
EXTENDS Integers, FiniteSetsExt, Bags

CONSTANTS
    Players,    \* ids of players
    NPCs,
    Agro,       \* the NPCs with BATTLE_TYPE::AGRO, the others have PEACE
    None,
    MoveDelay, AttackDelay, RespawnDelay, HealDelay, NPCRespawnDelay,
    MaxHp, HealAmount,
    HitDamage,  \* what a player's hit takes from an NPC
    BiteDamage, \* what an NPC's attack takes from a player
    MaxLogins,  \* bound: logins in a run
    MaxLag      \* bound: ticks by which a timer event may be late

ASSUME Kinds == Agro \subseteq NPCs /\ Players \cap NPCs = {} /\ None \notin Players
ASSUME Delays ==
    /\ {MoveDelay, AttackDelay, RespawnDelay, HealDelay, NPCRespawnDelay} \subseteq Nat \ {0}
    /\ MoveDelay < NPCRespawnDelay
    /\ AttackDelay < NPCRespawnDelay
ASSUME Amounts ==
    /\ {MaxHp, HealAmount, HitDamage, BiteDamage} \subseteq Nat \ {0}
    /\ {MaxLogins, MaxLag} \subseteq Nat

VARIABLES
    \* NPCs
    alive,      \* _state # DEAD
    npcHp,      \* _hp
    active,     \* _active_npc
    attacking,  \* _attack_player
    zone,       \* zone[n][p]: how close n is to p
    \* Players
    life,       \* "out" of the object table, or _state
    hp,         \* _hp
    healed,     \* _isHealed
    linked,     \* _session.lock() # nullptr
    view,       \* the NPCs in _viewList
    \* TimerThread
    timers,     \* bag of outstanding events
    \* history
    login,      \* logins under the id so far
    lost,       \* players with a heal that came while they were dead
    early       \* players respawned by an event of the id's last holder

npcVars == <<alive, npcHp, active, attacking>>
playerVars == <<life, hp, healed, linked>>
historyVars == <<login, lost, early>>
vars == <<npcVars, zone, playerVars, view, timers, historyVars>>

\* Away: not in the nine sectors around; near: in them, out of view; seen: in
\* VIEW_RANGE; beside: within 2 cells, NPC::Attack's range.
Away == 0
Near == 1
Seen == 2
Beside == 3
Zones == Away..Beside

Waits ==
    (-MaxLag)..Max({MoveDelay, AttackDelay, RespawnDelay, HealDelay, NPCRespawnDelay})

Timer ==
    [kind : {"move", "attack", "npcRespawn", "heal", "respawn"}, obj : Players \cup NPCs,
     target : Players \cup {None}, login : Nat, wait : Waits]

TypeOK ==
    /\ alive \in [NPCs -> BOOLEAN]
    /\ npcHp \in [NPCs -> (1 - HitDamage)..MaxHp]
    /\ active \in [NPCs -> BOOLEAN]
    /\ attacking \in [NPCs -> BOOLEAN]
    /\ zone \in [NPCs -> [Players -> Zones]]
    /\ life \in [Players -> {"out", "inGame", "dead"}]
    /\ hp \in [Players -> 0..MaxHp]
    /\ healed \in [Players -> BOOLEAN]
    /\ linked \in [Players -> BOOLEAN]
    /\ view \in [Players -> SUBSET NPCs]
    /\ IsABag(timers) /\ BagToSet(timers) \subseteq Timer
    /\ login \in [Players -> Nat]
    /\ lost \subseteq Players
    /\ early \subseteq Players

\* The spawner has placed the NPCs and nobody is in.
Init ==
    /\ alive = [n \in NPCs |-> TRUE]
    /\ npcHp = [n \in NPCs |-> MaxHp]
    /\ active = [n \in NPCs |-> FALSE]
    /\ attacking = [n \in NPCs |-> FALSE]
    /\ zone = [n \in NPCs |-> [p \in Players |-> Away]]
    /\ life = [p \in Players |-> "out"]
    /\ hp = [p \in Players |-> MaxHp]
    /\ healed = [p \in Players |-> FALSE]
    /\ linked = [p \in Players |-> FALSE]
    /\ view = [p \in Players |-> {}]
    /\ timers = EmptyBag
    /\ login = [p \in Players |-> 0]
    /\ lost = {}
    /\ early = {}

-----------------------------------------------------------------------------
(* Helpers *)

InWorld(p) == life[p] # "out"
Linked(p) == InWorld(p) /\ linked[p]

Visible(z, n, p) == z[n][p] >= Seen

\* ForEachNearbyPlayer, with the players that have a session.
Nearby(z, n) == {p \in Players : Linked(p) /\ z[n][p] >= Near}

\* The view SendNearbyObjectsToPlayer computes: it leaves out the dead.
Sight(p, z) == {n \in NPCs : alive[n] /\ Visible(z, n, p)}

\* An object has moved by one cell; these are the zones that may follow.
Step(z) == {y \in Zones : y - z \in -1..1}

\* z is zone after n, respectively p, moved; and p went somewhere else.
NPCStepped(n, z) ==
    /\ \A p \in Players : z[n][p] \in (IF InWorld(p) THEN Step(zone[n][p]) ELSE {Away})
    /\ \A m \in NPCs \ {n} : z[m] = zone[m]
PlayerStepped(p, z) ==
    /\ \A n \in NPCs : z[n][p] \in Step(zone[n][p])
    /\ \A n \in NPCs, q \in Players \ {p} : z[n][q] = zone[n][q]
PlayerPut(p, z) == \A n \in NPCs, q \in Players \ {p} : z[n][q] = zone[n][q]

Grids == [NPCs -> [Players -> Zones]]

\* Timer events as they are registered.
Move(n) == [kind |-> "move", obj |-> n, target |-> None, login |-> 0, wait |-> MoveDelay]
Attack(n, p) == [kind |-> "attack", obj |-> n, target |-> p, login |-> login[p], wait |-> AttackDelay]
NPCRespawn(n) == [kind |-> "npcRespawn", obj |-> n, target |-> None, login |-> 0, wait |-> NPCRespawnDelay]
Heal(p) == [kind |-> "heal", obj |-> p, target |-> None, login |-> login[p], wait |-> HealDelay]
Respawn(p) == [kind |-> "respawn", obj |-> p, target |-> None, login |-> login[p], wait |-> RespawnDelay]

Outstanding(kind, obj) == {e \in BagToSet(timers) : e.kind = kind /\ e.obj = obj}

\* UpdateViewList of p, which has a session, to what is in sight at z: an NPC
\* that comes into the list is woken up, which registers a move (RegisterMove)
\* unless it is active.  `seen' is the list before.
LookAround(p, z, seen, pending) ==
    LET woken == Sight(p, z) \ seen
    IN  /\ view' = [view EXCEPT ![p] = Sight(p, z)]
        /\ active' = [n \in NPCs |-> active[n] \/ n \in woken]
        /\ timers' = pending (+) SetToBag({Move(n) : n \in {m \in woken : ~active[m]}})

-----------------------------------------------------------------------------
(* Players come and go *)

\* OnLoginResult and InitFromLogin.
Login(p) ==
    /\ ~InWorld(p)
    /\ MapThenSumSet(LAMBDA q : login[q], Players) < MaxLogins
    /\ login' = [login EXCEPT ![p] = @ + 1]
    /\ life' = [life EXCEPT ![p] = "inGame"]
    /\ hp' = [hp EXCEPT ![p] = MaxHp]
    /\ healed' = [healed EXCEPT ![p] = FALSE]
    /\ linked' = [linked EXCEPT ![p] = TRUE]
    /\ lost' = lost \ {p}
    /\ early' = early \ {p}
    /\ \E z \in Grids : PlayerPut(p, z) /\ zone' = z /\ LookAround(p, z, {}, timers)
    /\ UNCHANGED <<alive, npcHp, attacking>>

\* The session of a player that nobody logged out (see SessionLifecycle).
SessionExpires(p) ==
    /\ Linked(p)
    /\ linked' = [linked EXCEPT ![p] = FALSE]
    /\ UNCHANGED <<npcVars, zone, life, hp, healed, view, timers, historyVars>>

\* Logout's event.
Logout(p) ==
    /\ Linked(p)
    /\ life' = [life EXCEPT ![p] = "out"]
    /\ linked' = [linked EXCEPT ![p] = FALSE]
    /\ view' = [view EXCEPT ![p] = {}]
    /\ zone' = [n \in NPCs |-> [zone[n] EXCEPT ![p] = Away]]
    /\ UNCHANGED <<npcVars, hp, healed, timers, historyVars>>

-----------------------------------------------------------------------------
(* What players do *)

\* HandleMovePacket's event, for a dead player too.  (A step that comes too
\* soon, is blocked or too long changes nothing of this module.)
HandleMove(p) ==
    /\ Linked(p)
    /\ \E z \in Grids :
         PlayerStepped(p, z) /\ zone' = z /\ LookAround(p, z, view[p], timers)
    /\ UNCHANGED <<alive, npcHp, attacking, playerVars, historyVars>>

\* Fault: OnDeath leaves the dead in the view lists.
HitKeepsView(p, hits) ==
    LET hurt == hits \cap Agro
        dead == {n \in hurt : npcHp[n] <= HitDamage}
        angry == {n \in hurt \ dead : ~attacking[n]}
    IN  /\ npcHp' = [n \in NPCs |-> IF n \in hurt THEN npcHp[n] - HitDamage ELSE npcHp[n]]
        /\ alive' = [n \in NPCs |-> alive[n] /\ n \notin dead]
        /\ active' = [n \in NPCs |-> active[n] /\ n \notin dead]
        /\ attacking' = [n \in NPCs |-> (attacking[n] \/ n \in angry) /\ n \notin dead]
        /\ timers' = timers (+) SetToBag({NPCRespawn(n) : n \in dead})
                            (+) SetToBag({Attack(n, p) : n \in angry})
        /\ UNCHANGED view

\* Player::Attack by p on the NPCs it hits, with NPC::OnDamaged and
\* NPC::OnDeath of each: the dead leave the views around them and are due to
\* respawn, the others strike back.
Hit(p, hits) ==
    LET hurt == hits \cap Agro
        dead == {n \in hurt : npcHp[n] <= HitDamage}
        angry == {n \in hurt \ dead : ~attacking[n]}
    IN  /\ npcHp' = [n \in NPCs |-> IF n \in hurt THEN npcHp[n] - HitDamage ELSE npcHp[n]]
        /\ alive' = [n \in NPCs |-> alive[n] /\ n \notin dead]
        /\ active' = [n \in NPCs |-> active[n] /\ n \notin dead]
        /\ attacking' = [n \in NPCs |-> (attacking[n] \/ n \in angry) /\ n \notin dead]
        /\ view' = [q \in Players |-> {n \in view[q] : n \in dead => zone[n][q] < Near}]
        /\ timers' = timers (+) SetToBag({NPCRespawn(n) : n \in dead})
                            (+) SetToBag({Attack(n, p) : n \in angry})

\* HandleAttackPacket's event, for a dead player too.  Of the NPCs beside p
\* those in the cells around it are hit.
HandleAttack(p) ==
    /\ Linked(p)
    /\ \E hits \in SUBSET {n \in NPCs : alive[n] /\ zone[n][p] = Beside} : Hit(p, hits)
    /\ UNCHANGED <<zone, playerVars, historyVars>>

-----------------------------------------------------------------------------
(* Timer events *)

\* The timer thread's clock; events are at most MaxLag ticks late.
Tick ==
    /\ \A e \in BagToSet(timers) : e.wait > -MaxLag
    /\ timers' = [e \in {[f EXCEPT !.wait = @ - 1] : f \in BagToSet(timers)} |->
                    timers[[e EXCEPT !.wait = @ + 1]]]
    /\ UNCHANGED <<npcVars, zone, playerVars, view, historyVars>>

\* e is due, and nothing has been due longer.
Due(e) ==
    /\ e \in BagToSet(timers)
    /\ e.wait <= 0
    /\ \A f \in BagToSet(timers) : e.wait <= f.wait

Without(e) == timers (-) SetToBag({e})

\* Fault: the respawn of a dead NPC is dropped like its other events.
DropRespawn(e) ==
    /\ Due(e)
    /\ e.kind \in {"move", "attack", "npcRespawn"} /\ ~alive[e.obj]
    /\ timers' = Without(e)
    /\ UNCHANGED <<npcVars, zone, playerVars, view, historyVars>>

\* The object is gone or dead: nothing happens.
Drop(e) ==
    /\ Due(e)
    /\ CASE e.kind \in {"move", "attack"} -> ~alive[e.obj]
         [] e.kind = "heal" -> life[e.obj] # "inGame"
         [] e.kind = "respawn" -> ~InWorld(e.obj)
         [] OTHER -> FALSE
    /\ timers' = Without(e)
    /\ lost' = IF e.kind = "heal" /\ life[e.obj] = "dead" THEN lost \cup {e.obj} ELSE lost
    /\ UNCHANGED <<npcVars, zone, playerVars, view, login, early>>

\* NPC::UpdateMove at its new place z: BroadcastMoveToPlayers brings the views
\* around up to date; with nobody around the NPC stops.
Broadcast(n, z, pending) ==
    /\ view' = [p \in Players |->
                  IF p \notin Nearby(z, n) THEN view[p]
                  ELSE IF Visible(z, n, p) THEN view[p] \cup {n}
                  ELSE view[p] \ {n}]
    /\ IF Nearby(z, n) # {}
       THEN timers' = pending (+) SetToBag({Move(n)}) /\ UNCHANGED active
       ELSE timers' = pending /\ active' = [active EXCEPT ![n] = FALSE]

\* Fault: an attack is registered although one is under way.
UpdateMoveUnguarded(e) ==
    /\ Due(e) /\ e.kind = "move" /\ alive[e.obj]
    /\ \E p \in Players :
         /\ e.obj \in Agro /\ InWorld(p) /\ zone[e.obj][p] = Beside
         /\ attacking' = [attacking EXCEPT ![e.obj] = TRUE]
         /\ Broadcast(e.obj, zone, Without(e) (+) SetToBag({Attack(e.obj, p)}))
    /\ UNCHANGED <<zone, alive, npcHp, playerVars, historyVars>>

\* An aggressive NPC that finds a player within one cell stays and registers
\* an attack (RegisterAttack); any other roams, pursues or stays.
UpdateMove(e) ==
    /\ Due(e) /\ e.kind = "move" /\ alive[e.obj]
    /\ LET n == e.obj
       IN  \/ \E p \in Players :
                /\ n \in Agro /\ InWorld(p) /\ zone[n][p] = Beside
                /\ attacking' = [attacking EXCEPT ![n] = TRUE]
                /\ Broadcast(n, zone,
                     IF attacking[n] THEN Without(e) ELSE Without(e) (+) SetToBag({Attack(n, p)}))
                /\ UNCHANGED zone
           \/ \E z \in Grids :
                NPCStepped(n, z) /\ zone' = z /\ Broadcast(n, z, Without(e)) /\ UNCHANGED attacking
    /\ UNCHANGED <<alive, npcHp, playerVars, historyVars>>

\* Fault: OnDamaged and OnDeath do not look whether the player is dead.
BiteDead(p, pending) ==
    LET left == IF hp[p] > BiteDamage THEN hp[p] - BiteDamage ELSE 0
    IN  /\ hp' = [hp EXCEPT ![p] = left]
        /\ life' = [life EXCEPT ![p] = IF left = 0 THEN "dead" ELSE @]
        /\ timers' = IF left = 0 THEN pending (+) SetToBag({Respawn(p)}) ELSE pending
        /\ UNCHANGED healed

\* Player::OnDamaged: death and its respawn event, or RegisterHeal.
Bite(p, pending) ==
    LET left == IF hp[p] > BiteDamage THEN hp[p] - BiteDamage ELSE 0
    IN  IF life[p] = "dead" \/ ~linked[p]
        THEN timers' = pending /\ UNCHANGED <<life, hp, healed>>
        ELSE /\ hp' = [hp EXCEPT ![p] = left]
             /\ IF left = 0
                THEN /\ life' = [life EXCEPT ![p] = "dead"]
                     /\ timers' = pending (+) SetToBag({Respawn(p)})
                     /\ UNCHANGED healed
                ELSE /\ healed' = [healed EXCEPT ![p] = TRUE]
                     /\ timers' = IF healed[p] THEN pending ELSE pending (+) SetToBag({Heal(p)})
                     /\ UNCHANGED life

\* NPC::Attack: whoever has the target's id now is bitten, and the next attack
\* is registered; out of range, or nobody there, the NPC stops.
NPCAttack(e) ==
    /\ Due(e) /\ e.kind = "attack" /\ alive[e.obj]
    /\ LET n == e.obj
           p == e.target
       IN  IF InWorld(p) /\ zone[n][p] = Beside
           THEN /\ Bite(p, Without(e) (+) SetToBag({Attack(n, p)}))
                /\ attacking' = [attacking EXCEPT ![n] = TRUE]
           ELSE /\ attacking' = [attacking EXCEPT ![n] = FALSE]
                /\ timers' = Without(e)
                /\ UNCHANGED <<life, hp, healed>>
    /\ UNCHANGED <<alive, npcHp, active, zone, linked, view, historyVars>>

\* Fault: the flag stays set when healing ends.
PlayerHealKeepsFlag(e) ==
    /\ Due(e) /\ e.kind = "heal" /\ life[e.obj] = "inGame"
    /\ hp' = [hp EXCEPT ![e.obj] = MaxHp]
    /\ timers' = Without(e)
    /\ UNCHANGED <<npcVars, zone, life, healed, linked, view, historyVars>>

\* Fault: hit points are not capped.
PlayerHealUncapped(e) ==
    /\ Due(e) /\ e.kind = "heal" /\ life[e.obj] = "inGame"
    /\ LET p == e.obj
           full == hp[p] + HealAmount > MaxHp
       IN  /\ hp' = [hp EXCEPT ![p] = @ + HealAmount]
           /\ healed' = [healed EXCEPT ![p] = ~full]
           /\ timers' = IF full THEN Without(e) ELSE Without(e) (+) SetToBag({Heal(p)})
    /\ UNCHANGED <<npcVars, zone, life, linked, view, historyVars>>

\* Player::Heal, which goes on until _hp would pass _maxHp.
PlayerHeal(e) ==
    /\ Due(e) /\ e.kind = "heal" /\ life[e.obj] = "inGame"
    /\ LET p == e.obj
           full == hp[p] + HealAmount > MaxHp
       IN  /\ hp' = [hp EXCEPT ![p] = IF full THEN MaxHp ELSE @ + HealAmount]
           /\ healed' = [healed EXCEPT ![p] = ~full]
           /\ timers' = IF full THEN Without(e) ELSE Without(e) (+) SetToBag({Heal(p)})
    /\ UNCHANGED <<npcVars, zone, life, linked, view, historyVars>>

\* Player::Respawn, at the place of the login, with the view list cleared.
PlayerRespawn(e) ==
    /\ Due(e) /\ e.kind = "respawn" /\ InWorld(e.obj)
    /\ LET p == e.obj
       IN  /\ hp' = [hp EXCEPT ![p] = MaxHp]
           /\ life' = [life EXCEPT ![p] = "inGame"]
           /\ \E z \in Grids :
                /\ PlayerPut(p, z)
                /\ zone' = z
                /\ IF linked[p]
                   THEN LookAround(p, z, {}, Without(e))
                   ELSE /\ view' = [view EXCEPT ![p] = Sight(p, z)]
                        /\ timers' = Without(e)
                        /\ UNCHANGED active
    /\ early' = IF e.login = login[e.obj] THEN early ELSE early \cup {e.obj}
    /\ UNCHANGED <<alive, npcHp, attacking, healed, linked, login, lost>>

\* NPC::Respawn: hasViewer stays false, so no move is registered, and nobody's
\* view list is touched.
NPCRespawns(e) ==
    /\ Due(e) /\ e.kind = "npcRespawn"
    /\ LET n == e.obj
       IN  /\ npcHp' = [npcHp EXCEPT ![n] = MaxHp]
           /\ alive' = [alive EXCEPT ![n] = TRUE]
           /\ active' = [active EXCEPT ![n] = FALSE]
           /\ attacking' = [attacking EXCEPT ![n] = FALSE]
           /\ \E z \in Grids :
                /\ \A m \in NPCs \ {n} : z[m] = zone[m]
                /\ \A p \in Players : InWorld(p) \/ z[n][p] = Away
                /\ zone' = z
    /\ timers' = Without(e)
    /\ UNCHANGED <<playerVars, view, historyVars>>

-----------------------------------------------------------------------------
Fire(e) ==
    \/ Drop(e)
    \/ UpdateMove(e)
    \/ NPCAttack(e)
    \/ PlayerHeal(e)
    \/ PlayerRespawn(e)
    \/ NPCRespawns(e)

Next ==
    \/ \E p \in Players :
         \/ Login(p) \/ SessionExpires(p) \/ Logout(p)
         \/ HandleMove(p) \/ HandleAttack(p)
    \/ Tick
    \/ \E e \in BagToSet(timers) : Fire(e)

Spec == Init /\ [][Next]_vars

-----------------------------------------------------------------------------
(* Properties *)

OneOutstanding(kind, n) ==
    \E e \in Outstanding(kind, n) : timers[e] = 1 /\ Outstanding(kind, n) = {e}

\* A live NPC has one move event under way when _active_npc is set, and none
\* otherwise; the same of attack events and _attack_player.  OnDeath and
\* Respawn reset the flags while an event may be under way, and UpdateMove
\* registers the next move without a look at the flag: only the lengths of
\* the intervals keep a second chain from starting (NPC.cpp:148-174, 228-229,
\* 273-274, 405-416).
OneChainEach ==
    \A n \in NPCs : alive[n] =>
      /\ IF active[n] THEN OneOutstanding("move", n) ELSE Outstanding("move", n) = {}
      /\ IF attacking[n] THEN OneOutstanding("attack", n) ELSE Outstanding("attack", n) = {}

\* An NPC in the view list of a player with a session is alive, in view, and
\* moves: it is never frozen on a screen (Player.cpp:108-112, NPC.cpp:236-247,
\* 440-464).
SeenAreAwake ==
    \A p \in Players, n \in NPCs :
      Linked(p) /\ n \in view[p] =>
        alive[n] /\ Visible(zone, n, p) /\ Outstanding("move", n) # {}

\* A dead NPC has one respawn event under way and a live one none; a dead
\* player with a session has one of its own login, whatever came between
\* (Player.cpp:222-253, NPC.cpp:222-260).
DeadComeBack ==
    /\ \A n \in NPCs :
         IF alive[n] THEN Outstanding("npcRespawn", n) = {} ELSE OneOutstanding("npcRespawn", n)
    /\ \A p \in Players : life[p] = "dead" =>
         \E e \in Outstanding("respawn", p) : e.login = login[p]

\* _isHealed means that a heal is under way, but for the heals that came while
\* the player was dead: those leave the flag set for good, and the player does
\* not heal again (TimerThread.cpp:115, Player.cpp:294-325).
HealUnderWay ==
    \A p \in Players :
      InWorld(p) /\ healed[p] => Outstanding("heal", p) # {} \/ p \in lost

\* Respawn takes a live player home, and half of its experience, only where an
\* event came in that was registered for the id's last holder, now or since
\* the player's own event was registered (TimerThread.cpp:151,
\* Player.cpp:255-263).
RespawnIsForTheDead ==
    [][\A e \in BagToSet(timers) :
         PlayerRespawn(e) => life[e.obj] = "dead" \/ e.obj \in early']_vars
=============================================================================
