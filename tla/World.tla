--------------------------------- MODULE World ---------------------------------
(***************************************************************************)
(* What the players see: view lists (Player::UpdateViewList,               *)
(* NPC::BroadcastMoveToPlayers), sectors (SectorManager) and the packets   *)
(* that tell the clients.  The logic thread runs one event at a time, so   *)
(* one step is one event; connections come and go meanwhile.               *)
(*                                                                         *)
(* `screen' is what a client shows of the others once it has handled every *)
(* packet it was sent; module Client has the packets, their order and a    *)
(* client that lags behind.  Fights are reduced to what shows: a death, a  *)
(* respawn, an attack that kills; module Battle has the rest.              *)
(* An id has one Player at a time (SessionLifecycle says when that fails), *)
(* but its connection may be that of the id's next user already while the  *)
(* Player of the last one waits for its logout event.                      *)
(***************************************************************************)
EXTENDS Integers

CONSTANTS
    Players,        \* ids of players
    Zero,           \* the id 0, which a client takes for its own until AVATAR_INFO
    NPCs,           \* ids of NPCs
    WIDTH, HEIGHT,  \* WORLD_WIDTH, WORLD_HEIGHT
    VIEW_RANGE, SECTOR_SIZE,
    Free,           \* the cells that isCollision does not block
    Saved,          \* the cells that the database has players at
    Home,           \* Home[n]: where the spawner puts NPC n
    MaxDue,         \* bound: respawn events of one id that are under way
    None

\* In the code WORLD_WIDTH and WORLD_HEIGHT are multiples of SECTOR_SIZE, so that
\* IsValidSector holds for the sector of every cell.  A small world may be the
\* part of such a world that can be entered.
Cells == [x : 0..(WIDTH - 1), y : 0..(HEIGHT - 1)]
Objects == Players \cup NPCs

\* Where an id without a player is.
Nowhere == CHOOSE c \in Cells : TRUE

ASSUME Apart == Players \cap NPCs = {} /\ None \notin Cells

\* SessionManager gives out the ids from 0 on.
ASSUME FirstId == Zero \in Players
ASSUME Sizes ==
    /\ WIDTH \in Nat /\ HEIGHT \in Nat /\ VIEW_RANGE \in Nat /\ SECTOR_SIZE \in Nat
    /\ VIEW_RANGE < SECTOR_SIZE
    /\ Cells # {}
    /\ MaxDue \in Nat
ASSUME Map == Free \subseteq Cells /\ Home \in [NPCs -> Free] /\ Saved \subseteq Free

VARIABLES
    \* SessionManager and SessionLifecycle
    open,       \* ids that SessionManager::Find has a connection for
    leaving,    \* players whose own session is closed: their logout is queued
    \* GameObject, Player
    life,       \* "out" of the object table, or _state
    pos,        \* _x, _y
    origin,     \* _originX, _originY
    view,       \* _viewList
    due,        \* respawn events of an id that are with the timer thread
    \* what each client shows
    screen      \* screen[p][o]: how o looks on the screen of p

objectVars == <<life, pos, origin>>
vars == <<open, leaving, objectVars, view, due, screen>>

\* An OBJECT of the client is absent from `players'; hidden, made by a packet
\* about an id that was absent; shown; or it was told to die: then it goes when
\* its animation ends, unless a packet that comes before keeps it.
Absent == [look |-> "absent", at |-> None]
Hidden == [look |-> "hidden", at |-> None]
Dying == [look |-> "dying", at |-> None]
Shown(c) == [look |-> "shown", at |-> c]
Looks == {Absent, Hidden, Dying} \cup {Shown(c) : c \in Cells}

Blank == [o \in Objects |-> Absent]

TypeOK ==
    /\ open \subseteq Players
    /\ leaving \subseteq Players
    /\ life \in [Objects -> {"out", "inGame", "dead"}]
    /\ pos \in [Objects -> Cells]
    /\ origin \in [Objects -> Cells]
    /\ view \in [Players -> SUBSET Objects]
    /\ due \in [Objects -> 0..MaxDue]
    /\ screen \in [Players -> [Objects -> Looks]]

\* The spawner has placed the NPCs and nobody is connected.
Init ==
    /\ open = {}
    /\ leaving = {}
    /\ life = [o \in Objects |-> IF o \in NPCs THEN "inGame" ELSE "out"]
    /\ pos = [o \in Objects |-> IF o \in NPCs THEN Home[o] ELSE Nowhere]
    /\ origin = pos
    /\ view = [p \in Players |-> {}]
    /\ due = [o \in Objects |-> 0]
    /\ screen = [p \in Players |-> Blank]

-----------------------------------------------------------------------------
(* SectorManager *)

InWorld(o) == life[o] # "out"

\* Players whose own session is open: what they are sent arrives.
Linked == open \ leaving

\* The Player of this very connection has been made, and sent AVATAR_INFO.
Playing(p) == InWorld(p) /\ p \in Linked

Within(a, b, d) == a.x - b.x \in (-d)..d /\ a.y - b.y \in (-d)..d

CanSee(a, b) == Within(a, b, VIEW_RANGE)

\* AddObject and UpdateObjectSector put an object into the sector of its cell
\* in the event that moves it.
Sector(c) == [x |-> c.x \div SECTOR_SIZE, y |-> c.y \div SECTOR_SIZE]

\* Fault: only the object's own sector is searched.
OwnSector(a, b) == Sector(a) = Sector(b)

\* The nine sectors that ForEachNearbyObject, ...Player and ...NPC go through.
NearbyCells(a, b) == Within(Sector(a), Sector(b), 1)

\* ForEachNearbyPlayer around an NPC at cell c.
NearbyPlayers(c) == {p \in Players : InWorld(p) /\ NearbyCells(c, pos[p])}

\* SendNearbyObjectsToPlayer for p at cell c: what is in sight and not dead.
Sight(p, c) ==
    {o \in Objects \ {p} :
       life[o] = "inGame" /\ NearbyCells(c, pos[o]) /\ CanSee(c, pos[o])}

-----------------------------------------------------------------------------
(* What a packet does to the OBJECT it is about (ProcessPacket in client.cpp) *)

AfterMove(l, c) ==
    IF l = Dying THEN Dying ELSE IF l \in {Absent, Hidden} THEN Hidden ELSE Shown(c)

AfterDie(l) == IF l \in {Absent, Hidden} THEN l ELSE Dying

AfterChat(l) == IF l = Absent THEN Hidden ELSE l

-----------------------------------------------------------------------------
(* Player::UpdateViewList *)

\* The screens after UpdateViewList of p, at cell c, from the list `old' to the
\* list `new'.  Whoever comes in is added to the screen of p, and p to that
\* player's; whoever drops out is removed, and p from the screen of whoever is
\* connected under that id now.
ViewUpdated(p, c, old, new) ==
    [q \in Players |-> [o \in Objects |->
       IF q = p /\ p \in Linked /\ o \in new \ old THEN Shown(pos[o])
       ELSE IF q = p /\ p \in Linked /\ o \in old \ new THEN Absent
       ELSE IF o = p /\ q \in (new \ old) \cap Linked THEN Shown(c)
       ELSE IF o = p /\ q \in (old \ new) \cap open THEN Absent
       ELSE screen[q][o]]]

\* SendMovePacketToViewers after that: p is at c, and tells those in `new'.  A
\* client without AVATAR_INFO takes a packet about Zero for one about itself.
MoveShown(p, c, new, scr) ==
    [q \in Players |-> [o \in Objects |->
       IF o = p /\ q \in new \cap open /\ (Playing(q) \/ p # Zero)
       THEN AfterMove(scr[q][o], c) ELSE scr[q][o]]]

-----------------------------------------------------------------------------
(* Connections *)

\* SessionManager::Add gives the id to a new connection.
Accept(p) ==
    /\ p \notin open
    /\ open' = open \cup {p}
    /\ UNCHANGED <<leaving, objectVars, view, due, screen>>

\* The connection ends.  Its Player, if it has one, is logged out later.
Disconnect(p) ==
    /\ p \in open
    /\ open' = open \ {p}
    /\ leaving' = IF InWorld(p) THEN leaving \cup {p} ELSE leaving
    /\ screen' = [screen EXCEPT ![p] = Blank]
    /\ UNCHANGED <<objectVars, view, due>>

\* OnLoginResult, at the cell that the database has.
Login(p, c) ==
    /\ p \in open
    /\ ~InWorld(p)
    /\ life' = [life EXCEPT ![p] = "inGame"]
    /\ pos' = [pos EXCEPT ![p] = c]
    /\ origin' = [origin EXCEPT ![p] = c]
    /\ view' = [view EXCEPT ![p] = Sight(p, c)]
    /\ screen' = ViewUpdated(p, c, {}, Sight(p, c))
    /\ UNCHANGED <<open, leaving, due>>

\* Fault: the others are not told.
LogoutSilent(p) ==
    /\ p \in leaving
    /\ leaving' = leaving \ {p}
    /\ life' = [life EXCEPT ![p] = "out"]
    /\ view' = [view EXCEPT ![p] = {}]
    /\ UNCHANGED <<open, pos, origin, due, screen>>

\* Logout's event: UpdateViewList({}), and out of the sectors and the table.
Logout(p) ==
    /\ p \in leaving
    /\ leaving' = leaving \ {p}
    /\ life' = [life EXCEPT ![p] = "out"]
    /\ view' = [view EXCEPT ![p] = {}]
    /\ screen' = ViewUpdated(p, pos[p], view[p], {})
    /\ UNCHANGED <<open, pos, origin, due>>

-----------------------------------------------------------------------------
(* Requests.  What a player asked before it died or its session ended may    *)
(* still be in the logic thread's queue.                                     *)

\* Fault: only the mover's own list is brought up to date.
MoveOneWay(p, c) ==
    /\ InWorld(p)
    /\ c \in Free /\ Within(pos[p], c, 1)
    /\ pos' = [pos EXCEPT ![p] = c]
    /\ view' = [view EXCEPT ![p] = Sight(p, c)]
    /\ screen' = MoveShown(p, c, Sight(p, c), screen)
    /\ UNCHANGED <<open, leaving, life, origin, due>>

\* HandleMovePacket's event for a step that is taken.  A step that comes too
\* soon, is blocked or too long changes nothing here.
Move(p, c) ==
    /\ InWorld(p)
    /\ c \in Free /\ Within(pos[p], c, 1)
    /\ pos' = [pos EXCEPT ![p] = c]
    /\ view' = [view EXCEPT ![p] = Sight(p, c)]
    /\ screen' = MoveShown(p, c, Sight(p, c), ViewUpdated(p, c, view[p], Sight(p, c)))
    /\ UNCHANGED <<open, leaving, life, origin, due>>

\* HandleChattingPacket's event.
Chat(p) ==
    /\ life[p] = "inGame"
    /\ screen' =
         [q \in Players |-> [o \in Objects |->
            IF o = p /\ q \in view[p] \cap Linked /\ InWorld(q)
            THEN AfterChat(screen[q][o]) ELSE screen[q][o]]]
    /\ UNCHANGED <<open, leaving, objectVars, view, due>>

\* HandleAttackPacket's event, with the NPCs it kills: NPC::OnDeath takes them
\* from the views around, GetExp sends p its status.
Attack(p, killed) ==
    /\ InWorld(p)
    /\ \A n \in killed : life[n] = "inGame" /\ Within(pos[p], pos[n], 1) /\ due[n] < MaxDue
    /\ life' = [o \in Objects |-> IF o \in killed THEN "dead" ELSE life[o]]
    /\ due' = [o \in Objects |-> IF o \in killed THEN due[o] + 1 ELSE due[o]]
    /\ view' = [q \in Players |->
                  {o \in view[q] : o \in killed => q \notin NearbyPlayers(pos[o])}]
    /\ screen' =
         [q \in Players |-> [o \in Objects |->
            IF o \in killed /\ q \in NearbyPlayers(pos[o]) \cap Linked
            THEN AfterDie(screen[q][o]) ELSE screen[q][o]]]
    /\ UNCHANGED <<open, leaving, pos, origin>>

-----------------------------------------------------------------------------
(* Timer events *)

\* NPC::Attack on a player with few hit points left: Player::OnDeath.
Die(p) ==
    /\ life[p] = "inGame"
    /\ due[p] < MaxDue
    /\ life' = [life EXCEPT ![p] = "dead"]
    /\ due' = [due EXCEPT ![p] = @ + 1]
    /\ screen' =
         [q \in Players |-> [o \in Objects |->
            IF o = p /\ q \in view[p] \cap open THEN AfterDie(screen[q][o]) ELSE screen[q][o]]]
    /\ UNCHANGED <<open, leaving, pos, origin, view>>

\* Player::Respawn, of a player that is dead, or lives when the event was due
\* to the id's last player.  The view list is cleared and nobody is told.
Respawn(p) ==
    /\ due[p] > 0
    /\ InWorld(p)
    /\ due' = [due EXCEPT ![p] = @ - 1]
    /\ life' = [life EXCEPT ![p] = "inGame"]
    /\ pos' = [pos EXCEPT ![p] = origin[p]]
    /\ view' = [view EXCEPT ![p] = Sight(p, origin[p])]
    /\ screen' = ViewUpdated(p, origin[p], {}, Sight(p, origin[p]))
    /\ UNCHANGED <<open, leaving, origin>>

\* A respawn event for a player who has left.
DropRespawn(p) ==
    /\ due[p] > 0
    /\ ~InWorld(p)
    /\ due' = [due EXCEPT ![p] = @ - 1]
    /\ UNCHANGED <<open, leaving, objectVars, view, screen>>

\* NPC::UpdateMove to c, and BroadcastMoveToPlayers: of the players around,
\* those who see n at c have it added or moved, the others removed.
NPCMove(n, c) ==
    /\ life[n] = "inGame"
    /\ \/ c = pos[n]
       \/ c \in Free /\ Within(pos[n], c, 1) /\ (c.x = pos[n].x \/ c.y = pos[n].y)
    /\ pos' = [pos EXCEPT ![n] = c]
    /\ view' = [q \in Players |->
                  IF q \notin NearbyPlayers(c) THEN view[q]
                  ELSE IF CanSee(c, pos[q]) THEN view[q] \cup {n} ELSE view[q] \ {n}]
    /\ screen' =
         [q \in Players |-> [o \in Objects |->
            IF o # n \/ q \notin NearbyPlayers(c) \cap Linked THEN screen[q][o]
            ELSE IF CanSee(c, pos[q])
            THEN IF n \in view[q] THEN AfterMove(screen[q][o], c) ELSE Shown(c)
            ELSE IF n \in view[q] THEN Absent ELSE screen[q][o]]]
    /\ UNCHANGED <<open, leaving, life, origin, due>>

\* NPC::Respawn shows n to those who can see its home, and lists it nowhere.
NPCRespawn(n) ==
    /\ due[n] > 0
    /\ due' = [due EXCEPT ![n] = @ - 1]
    /\ life' = [life EXCEPT ![n] = "inGame"]
    /\ pos' = [pos EXCEPT ![n] = origin[n]]
    /\ screen' =
         [q \in Players |-> [o \in Objects |->
            IF /\ o = n
               /\ q \in NearbyPlayers(origin[n]) \cap Linked
               /\ CanSee(origin[n], pos[q])
            THEN Shown(origin[n]) ELSE screen[q][o]]]
    /\ UNCHANGED <<open, leaving, origin, view>>

-----------------------------------------------------------------------------
Next ==
    \/ \E p \in Players :
         \/ Accept(p) \/ Disconnect(p) \/ Logout(p)
         \/ \E c \in Saved : Login(p, c)
         \/ \E c \in Free : Move(p, c)
         \/ Chat(p)
         \/ \E killed \in SUBSET NPCs : Attack(p, killed)
         \/ Die(p) \/ Respawn(p) \/ DropRespawn(p)
    \/ \E n \in NPCs :
         \/ \E c \in Cells : NPCMove(n, c)
         \/ NPCRespawn(n)

Spec == Init /\ [][Next]_vars

-----------------------------------------------------------------------------
(* Properties *)

\* One of the two has the other in its view list; an NPC has none.
Listed(p, o) == o \in view[p] \/ (o \in Players /\ p \in view[o])

\* Whoever is in sight of a player is listed by one of the two, whoever moved,
\* came, died or left last, and whichever sectors the two are in; or it is an
\* NPC that has not moved since it respawned, and shows where it stands
\* (SectorManager.cpp:86-136, Player.cpp:90-140, NPC.cpp:425-468).
InSightListed ==
    \A p \in Players : \A o \in Objects \ {p} :
      /\ Playing(p) /\ life[p] = "inGame" /\ life[o] = "inGame" /\ CanSee(pos[p], pos[o])
      => Listed(p, o) \/ (o \in NPCs /\ screen[p][o] = Shown(pos[o]))

\* Whoever is in sight of a player shows on its screen where it is, if each of
\* the two lists the other.  View lists are not kept symmetric: where only one
\* lists the other, they may not see each other at all until the one that does
\* not list moves (Player.cpp:97, 124-139).
MutualShown ==
    \A p \in Players : \A o \in Objects \ {p} :
      /\ Playing(p) /\ life[o] = "inGame" /\ CanSee(pos[p], pos[o])
      /\ o \in view[p] /\ (o \in Players => p \in view[o])
      => screen[p][o] = Shown(pos[o])

\* Shown on p's screen, and in nobody's list that would take it off again.
Stray(p, o) == Playing(p) /\ screen[p][o].look = "shown" /\ ~Listed(p, o)

\* What shows on a screen is listed by one of the two, whose next move will
\* take it off when it is out of sight.  Only a respawn leaves objects on
\* screens that nobody will take off (Player.cpp:264, NPC.cpp:286-298).
StraysComeFromRespawns ==
    [][\A p \in Players, o \in Objects :
         ~Stray(p, o) /\ Stray(p, o)' =>
           (\E q \in Players : Respawn(q)) \/ (\E n \in NPCs : NPCRespawn(n))]_vars
=============================================================================
