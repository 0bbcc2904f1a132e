------------------------------ MODULE WorldProofs ------------------------------
(***************************************************************************)
(* Proofs about World for any world, players and NPCs: who is in sight is  *)
(* listed, who is listed by both sides shows where it is, and only a       *)
(* respawn leaves an object on a screen that nobody will take off.         *)
(***************************************************************************)
EXTENDS World, TLAPS

(***************************************************************************)
(* What makes the properties inductive.                                    *)
(***************************************************************************)

\* A Player in the object table has its session, or waits for its logout.
Owned == \A p \in Players : InWorld(p) => p \in open \/ p \in leaving

\* Without a Player there is no view list.
OutEmpty == \A p \in Players : ~InWorld(p) => view[p] = {}

\* A listed NPC lives and is in sight: it leaves the lists when it dies, and
\* when it or the player goes away.
ListedNPCs ==
    \A p \in Players, n \in NPCs :
      n \in view[p] => life[n] = "inGame" /\ CanSee(pos[p], pos[n])

\* An NPC is dead as long as its respawn is due.
DeadIsDue ==
    \A n \in NPCs : life[n] # "out" /\ due[n] = IF life[n] = "dead" THEN 1 ELSE 0

\* A client that is not in the game is shown nobody, and does not even make an
\* OBJECT of Zero, which it takes for itself.
Unshown == {Absent, Hidden}
Blanks(o) == IF o = Zero THEN {Absent} ELSE Unshown
NobodyShown == \A p \in Players : ~Playing(p) => \A o \in Objects : screen[p][o] \in Blanks(o)

\* MutualShown, in sight or not: who left the sight is not in both lists.
BothShown ==
    \A p \in Players : \A o \in Objects \ {p} :
      /\ Playing(p) /\ life[o] = "inGame"
      /\ o \in view[p] /\ (o \in Players => p \in view[o])
      => screen[p][o] = Shown(pos[o])

ListInv == TypeOK /\ Owned /\ OutEmpty /\ ListedNPCs /\ DeadIsDue /\ NobodyShown

-----------------------------------------------------------------------------
(* The nine sectors *)

\* Two coordinates at most a sector's size apart are in the same sector or in
\* sectors next to each other (SectorManager.cpp:28-29).
LEMMA SectorsClose ==
    ASSUME NEW a \in Nat, NEW b \in Nat, NEW S \in Nat, S > 0, a - b <= S
    PROVE  (a \div S) - (b \div S) <= 1
  <1> DEFINE q == a \div S
             r == b \div S
  <1>1. q \in Nat /\ r \in Nat /\ S * q <= a /\ b < S * r + S
    OBVIOUS
  <1> HIDE DEF q, r
  <1>2. S * q < S * r + S + S
    BY <1>1
  <1>3. SUFFICES ASSUME q - r >= 2
                 PROVE  FALSE
    BY <1>1 DEF q, r
  <1>4. S * q >= S * (r + 2) /\ S * (r + 2) = S * r + S + S
    BY <1>1, <1>3
  <1> QED BY <1>1, <1>2, <1>4

\* Whatever is at most a sector's size away is in the nine sectors around
\* (SectorManager.cpp:108-184).
LEMMA NineSectors ==
    ASSUME NEW a \in Cells, NEW b \in Cells, NEW d \in Nat, d <= SECTOR_SIZE,
           Within(a, b, d)
    PROVE  NearbyCells(a, b)
  <1>1. /\ a.x \in Nat /\ a.y \in Nat /\ b.x \in Nat /\ b.y \in Nat
        /\ SECTOR_SIZE \in Nat /\ SECTOR_SIZE > 0
    BY Sizes DEF Cells
  <1>2. /\ a.x - b.x <= SECTOR_SIZE /\ b.x - a.x <= SECTOR_SIZE
        /\ a.y - b.y <= SECTOR_SIZE /\ b.y - a.y <= SECTOR_SIZE
    BY <1>1 DEF Within
  <1> DEFINE S(k) == k \div SECTOR_SIZE
  <1>3. S(a.x) \in Nat /\ S(a.y) \in Nat /\ S(b.x) \in Nat /\ S(b.y) \in Nat
    BY <1>1
  <1>4. /\ S(a.x) - S(b.x) <= 1 /\ S(b.x) - S(a.x) <= 1
        /\ S(a.y) - S(b.y) <= 1 /\ S(b.y) - S(a.y) <= 1
    BY <1>1, <1>2, SectorsClose
  <1> HIDE DEF S
  <1>5. /\ S(a.x) - S(b.x) \in -1..1
        /\ S(a.y) - S(b.y) \in -1..1
    BY <1>3, <1>4
  <1> QED BY <1>5 DEF NearbyCells, Within, Sector, S

\* Sight goes both ways (SectorManager.cpp:186-194).
LEMMA SightIsMutual ==
    ASSUME NEW a \in Cells, NEW b \in Cells
    PROVE  CanSee(a, b) <=> CanSee(b, a)
  <1>1. a.x \in Int /\ a.y \in Int /\ b.x \in Int /\ b.y \in Int /\ VIEW_RANGE \in Nat
    BY Sizes DEF Cells
  <1> QED BY <1>1 DEF CanSee, Within

\* SendNearbyObjectsToPlayer finds everything in sight that is not dead, since
\* VIEW_RANGE is less than SECTOR_SIZE; and so does ForEachNearbyPlayer, even
\* for what was in sight one step ago (SectorManager.cpp:86-106, 134-158).
LEMMA NothingMissed ==
    /\ \A a, b \in Cells : CanSee(a, b) => NearbyCells(a, b)
    /\ \A a, b, c \in Cells : CanSee(b, a) /\ Within(a, c, 1) => NearbyCells(c, b)
    /\ \A a, b, c \in Cells : a = c /\ CanSee(b, a) => NearbyCells(c, b)
  <1>1. VIEW_RANGE \in Nat /\ SECTOR_SIZE \in Nat /\ VIEW_RANGE + 1 <= SECTOR_SIZE
    BY Sizes
  <1>2. ASSUME NEW a \in Cells, NEW b \in Cells, CanSee(a, b)
        PROVE  NearbyCells(a, b)
    BY <1>1, <1>2, NineSectors DEF CanSee
  <1>3. ASSUME NEW a \in Cells, NEW b \in Cells, NEW c \in Cells,
               CanSee(b, a), Within(a, c, 1)
        PROVE  NearbyCells(c, b)
    <2>1. /\ a.x \in Int /\ a.y \in Int /\ b.x \in Int /\ b.y \in Int
          /\ c.x \in Int /\ c.y \in Int
      BY DEF Cells
    <2>2. Within(c, b, VIEW_RANGE + 1)
      BY <1>1, <1>3, <2>1 DEF CanSee, Within
    <2> QED BY <1>1, <2>2, NineSectors
  <1>4. ASSUME NEW a \in Cells, NEW b \in Cells, CanSee(b, a)
        PROVE  NearbyCells(a, b)
    BY <1>2, <1>4, SightIsMutual
  <1> QED BY <1>2, <1>3, <1>4

\* Sight, without the sectors (SectorManager.cpp:86-106).
LEMMA SightIsComplete ==
    ASSUME TypeOK, NEW p \in Players, NEW c \in Cells
    PROVE  Sight(p, c) = {o \in Objects \ {p} : life[o] = "inGame" /\ CanSee(c, pos[o])}
  BY NothingMissed DEF Sight, TypeOK

-----------------------------------------------------------------------------
(* What a client shows *)

\* What an OBJECT may look like (client.cpp:92-131).
LEMMA LooksApart ==
    /\ \A c \in Cells : Shown(c) \in Looks /\ Shown(c).look = "shown"
    /\ Absent \in Looks /\ Absent \in Unshown /\ {Absent, Hidden, Dying} \subseteq Looks
    /\ Absent.look = "absent" /\ Hidden.look = "hidden" /\ Dying.look = "dying"
    /\ \A l \in Unshown : l \in Looks /\ l.look # "shown"
    /\ \A l \in Looks : l \in {Absent, Hidden, Dying} \/ l.look = "shown"
  <1>1. /\ \A c \in Cells : Shown(c).look = "shown" /\ Shown(c) \in Looks
        /\ Absent.look = "absent" /\ Hidden.look = "hidden" /\ Dying.look = "dying"
        /\ {Absent, Hidden, Dying} \subseteq Looks
    BY DEF Looks, Absent, Hidden, Dying, Shown
  <1>2. ASSUME NEW l \in Looks
        PROVE  l \in {Absent, Hidden, Dying} \/ l.look = "shown"
    BY <1>1, <1>2 DEF Looks
  <1> QED BY <1>1, <1>2 DEF Unshown

\* No packet but ADD_OBJECT shows an OBJECT that did not show
\* (client.cpp:789-867).
LEMMA OnlyAddShows ==
    ASSUME NEW l \in Looks, NEW c \in Cells
    PROVE  /\ AfterMove(l, c) \in Looks /\ AfterDie(l) \in Looks /\ AfterChat(l) \in Looks
           /\ AfterMove(l, c).look = "shown" => l.look = "shown"
           /\ AfterChat(l).look = "shown" => l.look = "shown"
           /\ AfterDie(l).look # "shown"
  BY LooksApart DEF AfterMove, AfterDie, AfterChat

\* What no ADD_OBJECT was sent for stays off the screen.
LEMMA StaysUnshown ==
    ASSUME NEW o, NEW l \in Blanks(o), NEW c
    PROVE  /\ l \in Unshown /\ AfterDie(l) \in Blanks(o)
           /\ o # Zero => AfterMove(l, c) \in Blanks(o)
  BY LooksApart DEF AfterMove, AfterDie, Blanks, Unshown

\* An OBJECT that is removed is blank.
LEMMA NoneIsBlank == \A o : Absent \in Blanks(o)
  BY LooksApart DEF Blanks

\* MOVE_OBJECT moves an OBJECT that shows, CHAT_MESSAGE leaves it where it is.
LEMMA ShownStays ==
    ASSUME NEW c \in Cells, NEW d \in Cells
    PROVE  AfterMove(Shown(d), c) = Shown(c) /\ AfterChat(Shown(c)) = Shown(c)
  BY LooksApart DEF AfterMove, AfterChat

\* Every entry of the screens after UpdateViewList of p.
LEMMA ScreensUpdated ==
    ASSUME TypeOK, NEW p \in Players, NEW c \in Cells,
           NEW old, NEW new
    PROVE  /\ ViewUpdated(p, c, old, new) \in [Players -> [Objects -> Looks]]
           /\ \A q \in Players, o \in Objects : ViewUpdated(p, c, old, new)[q][o] =
                IF q = p /\ p \in Linked /\ o \in new \ old THEN Shown(pos[o])
                ELSE IF q = p /\ p \in Linked /\ o \in old \ new THEN Absent
                ELSE IF o = p /\ q \in (new \ old) \cap Linked THEN Shown(c)
                ELSE IF o = p /\ q \in (old \ new) \cap open THEN Absent
                ELSE screen[q][o]
  <1>1. /\ pos \in [Objects -> Cells] /\ screen \in [Players -> [Objects -> Looks]]
        /\ Shown(c) \in Looks /\ Absent \in Looks
        /\ \A o \in Objects : Shown(pos[o]) \in Looks
    BY LooksApart DEF TypeOK
  <1> QED BY <1>1 DEF ViewUpdated

\* Every entry of the screens after SendMovePacketToViewers of p.
LEMMA ScreensMoved ==
    ASSUME NEW p \in Players, NEW c \in Cells, NEW new,
           NEW scr \in [Players -> [Objects -> Looks]]
    PROVE  /\ MoveShown(p, c, new, scr) \in [Players -> [Objects -> Looks]]
           /\ \A q \in Players, o \in Objects : MoveShown(p, c, new, scr)[q][o] =
                IF o = p /\ q \in new \cap open /\ (Playing(q) \/ p # Zero)
                THEN AfterMove(scr[q][o], c) ELSE scr[q][o]
  <1>1. ASSUME NEW q \in Players, NEW o \in Objects
        PROVE  AfterMove(scr[q][o], c) \in Looks
    <2>1. scr[q][o] \in Looks
      OBVIOUS
    <2> QED BY <2>1, OnlyAddShows
  <1> QED BY <1>1 DEF MoveShown

-----------------------------------------------------------------------------
(* Types *)

\* Every event keeps the types.
LEMMA TypeStep == TypeOK /\ [Next]_vars => TypeOK'
  <1> SUFFICES ASSUME TypeOK, [Next]_vars
               PROVE  TypeOK'
    OBVIOUS
  <1>0. /\ Free \subseteq Cells /\ Saved \subseteq Cells /\ MaxDue \in Nat
        /\ Players \subseteq Objects /\ NPCs \subseteq Objects
    BY Map, Sizes DEF Objects
  <1>s. \A p \in Players, c \in Cells : Sight(p, c) \in SUBSET Objects
    BY DEF Sight
  <1>k. \A q \in Players, o \in Objects :
          AfterDie(screen[q][o]) \in Looks /\ AfterChat(screen[q][o]) \in Looks
    BY Sizes, OnlyAddShows DEF TypeOK
  <1>b. Blank \in [Objects -> Looks]
    BY LooksApart DEF Blank
  <1>1. ASSUME NEW p \in Players, Accept(p)
        PROVE  TypeOK'
    BY <1>1 DEF Accept, TypeOK, objectVars
  <1>2. ASSUME NEW p \in Players, Disconnect(p)
        PROVE  TypeOK'
    BY <1>2, <1>b DEF Disconnect, TypeOK, objectVars
  <1>3. ASSUME NEW p \in Players, NEW c \in Saved, Login(p, c)
        PROVE  TypeOK'
    <2>1. c \in Cells
      BY <1>0
    <2>2. ViewUpdated(p, c, {}, Sight(p, c)) \in [Players -> [Objects -> Looks]]
      BY <2>1, ScreensUpdated
    <2> QED BY <1>0, <1>s, <1>3, <2>1, <2>2 DEF Login, TypeOK
  <1>4. ASSUME NEW p \in Players, Logout(p)
        PROVE  TypeOK'
    <2>1. pos[p] \in Cells
      BY <1>0 DEF TypeOK
    <2>2. ViewUpdated(p, pos[p], view[p], {}) \in [Players -> [Objects -> Looks]]
      BY <2>1, ScreensUpdated
    <2> QED BY <1>0, <1>4, <2>1, <2>2 DEF Logout, TypeOK
  <1>5. ASSUME NEW p \in Players, NEW c \in Free, Move(p, c)
        PROVE  TypeOK'
    <2>0. c \in Cells
      BY <1>0
    <2>1. ViewUpdated(p, c, view[p], Sight(p, c)) \in [Players -> [Objects -> Looks]]
      BY <2>0, ScreensUpdated
    <2>2. MoveShown(p, c, Sight(p, c), ViewUpdated(p, c, view[p], Sight(p, c)))
            \in [Players -> [Objects -> Looks]]
      BY <2>0, <2>1, ScreensMoved
    <2> QED BY <1>0, <1>s, <1>5, <2>2 DEF Move, TypeOK
  <1>6. ASSUME NEW p \in Players, Chat(p)
        PROVE  TypeOK'
    BY <1>6, <1>k DEF Chat, TypeOK, objectVars
  <1>7. ASSUME NEW p \in Players, NEW killed \in SUBSET NPCs, Attack(p, killed)
        PROVE  TypeOK'
    <2>1. screen' \in [Players -> [Objects -> Looks]]
      BY <1>7, <1>k DEF Attack, TypeOK
    <2>2. due' \in [Objects -> 0..MaxDue]
      BY <1>0, <1>7 DEF Attack, TypeOK
    <2> QED BY <1>0, <1>7, <2>1, <2>2 DEF Attack, TypeOK
  <1>8. ASSUME NEW p \in Players, Die(p)
        PROVE  TypeOK'
    <2>1. screen' \in [Players -> [Objects -> Looks]]
      BY <1>8, <1>k DEF Die, TypeOK
    <2>2. due' \in [Objects -> 0..MaxDue]
      BY <1>0, <1>8 DEF Die, TypeOK
    <2> QED BY <1>0, <1>8, <2>1, <2>2 DEF Die, TypeOK
  <1>9. ASSUME NEW p \in Players, Respawn(p)
        PROVE  TypeOK'
    <2>1. origin[p] \in Cells
      BY <1>0 DEF TypeOK
    <2>2. screen' \in [Players -> [Objects -> Looks]]
      BY <1>s, <1>9, <2>1, ScreensUpdated DEF Respawn
    <2>3. due' \in [Objects -> 0..MaxDue]
      BY <1>0, <1>9 DEF Respawn, TypeOK
    <2> QED BY <1>0, <1>s, <1>9, <2>1, <2>2, <2>3 DEF Respawn, TypeOK
  <1>10. ASSUME NEW p \in Players, DropRespawn(p)
         PROVE  TypeOK'
    BY <1>0, <1>10 DEF DropRespawn, TypeOK, objectVars
  <1>11. ASSUME NEW n \in NPCs, NEW c \in Cells, NPCMove(n, c)
         PROVE  TypeOK'
    <2>0. ASSUME NEW q \in Players, NEW o \in Objects
          PROVE  /\ screen[q][o] \in Looks /\ AfterMove(screen[q][o], c) \in Looks
                 /\ Shown(c) \in Looks /\ Absent \in Looks
      <3>1. screen[q][o] \in Looks
        BY DEF TypeOK
      <3> QED BY <3>1, LooksApart, OnlyAddShows
    <2>1. screen' \in [Players -> [Objects -> Looks]]
      BY <1>11, <2>0 DEF NPCMove
    <2>2. view' \in [Players -> SUBSET Objects]
      BY <1>0, <1>11 DEF NPCMove, TypeOK
    <2> QED BY <1>0, <1>11, <2>1, <2>2 DEF NPCMove, TypeOK
  <1>12. ASSUME NEW n \in NPCs, NPCRespawn(n)
         PROVE  TypeOK'
    <2>1. origin[n] \in Cells
      BY <1>0 DEF TypeOK
    <2>2. screen' \in [Players -> [Objects -> Looks]]
      BY <1>12, <2>1, LooksApart DEF NPCRespawn, TypeOK
    <2>3. due' \in [Objects -> 0..MaxDue]
      BY <1>0, <1>12 DEF NPCRespawn, TypeOK
    <2> QED BY <1>0, <1>12, <2>1, <2>2, <2>3 DEF NPCRespawn, TypeOK
  <1>13. CASE UNCHANGED vars
    BY <1>13 DEF vars, objectVars, TypeOK
  <1> QED BY <1>1, <1>2, <1>3, <1>4, <1>5, <1>6, <1>7, <1>8, <1>9, <1>10, <1>11, <1>12, <1>13 DEF Next

-----------------------------------------------------------------------------
(* Lists *)

\* An NPC in a list is near the player: the players around it are told when it
\* moves on or dies (NPC.cpp:237-246, 432-465).
LEMMA ListedNear ==
    ASSUME ListInv, NEW q \in Players, NEW n \in NPCs, n \in view[q]
    PROVE  /\ q \in NearbyPlayers(pos[n])
           /\ \A c \in Cells : Within(pos[n], c, 1) => q \in NearbyPlayers(c)
  <1>1. pos[q] \in Cells /\ pos[n] \in Cells
    BY DEF ListInv, TypeOK, Objects
  <1>2. InWorld(q) /\ CanSee(pos[q], pos[n])
    BY DEF ListInv, OutEmpty, ListedNPCs
  <1>3. NearbyCells(pos[n], pos[q])
    BY <1>1, <1>2, NothingMissed
  <1>4. \A c \in Cells : Within(pos[n], c, 1) => NearbyCells(c, pos[q])
    BY <1>1, <1>2, NothingMissed
  <1> QED BY <1>2, <1>3, <1>4 DEF NearbyPlayers

\* A player that logs in, moves or respawns lists what is in sight.
LEMMA Refreshed ==
    ASSUME ListInv, NEW p \in Players, NEW c \in Cells,
           view' = [view EXCEPT ![p] = Sight(p, c)], pos' = [pos EXCEPT ![p] = c],
           \A o \in Objects : o # p => life'[o] = life[o]
    PROVE  ListedNPCs'
  <1> SUFFICES ASSUME NEW q \in Players, NEW n \in NPCs, n \in view'[q]
               PROVE  life'[n] = "inGame" /\ CanSee(pos'[q], pos'[n])
    BY DEF ListedNPCs, CanSee, Within
  <1>1. n # p /\ n \in Objects /\ p \in Objects /\ q \in Objects
    BY Apart DEF Objects
  <1>2. pos'[n] = pos[n] /\ life'[n] = life[n]
    BY <1>1 DEF ListInv, TypeOK
  <1>3. CASE q = p
    <2>1. n \in Sight(p, c) /\ pos'[q] = c
      BY <1>1, <1>3 DEF ListInv, TypeOK
    <2> QED BY <1>2, <2>1 DEF Sight
  <1>4. CASE q # p
    <2>1. n \in view[q] /\ pos'[q] = pos[q]
      BY <1>1, <1>4 DEF ListInv, TypeOK
    <2> QED BY <1>2, <2>1 DEF ListInv, ListedNPCs
  <1> QED BY <1>3, <1>4

\* Every event keeps dead NPCs and NPCs out of sight off the lists.
LEMMA ListedNPCsStep == ListInv /\ [Next]_vars => ListedNPCs'
  <1> SUFFICES ASSUME ListInv, [Next]_vars
               PROVE  ListedNPCs'
    OBVIOUS
  <1>0. /\ Free \subseteq Cells /\ Saved \subseteq Cells /\ Players \cap NPCs = {}
        /\ Players \subseteq Objects /\ NPCs \subseteq Objects
    BY Map, Apart DEF Objects
  <1>t. TypeOK /\ ListedNPCs
    BY DEF ListInv
  <1>1. ASSUME UNCHANGED <<view, life, pos>>
        PROVE  ListedNPCs'
    BY <1>1, <1>t DEF ListedNPCs, CanSee, Within
  <1>2. ASSUME NEW p \in Players,
               Accept(p) \/ Disconnect(p) \/ Chat(p) \/ DropRespawn(p)
        PROVE  ListedNPCs'
    BY <1>1, <1>2 DEF Accept, Disconnect, Chat, DropRespawn, objectVars
  <1>3. ASSUME NEW p \in Players, NEW c \in Saved, Login(p, c)
        PROVE  ListedNPCs'
    <2>1. /\ c \in Cells
          /\ view' = [view EXCEPT ![p] = Sight(p, c)] /\ pos' = [pos EXCEPT ![p] = c]
          /\ \A o \in Objects : o # p => life'[o] = life[o]
      BY <1>0, <1>t, <1>3 DEF Login, TypeOK
    <2> QED BY <2>1, Refreshed
  <1>4. ASSUME NEW p \in Players, Logout(p)
        PROVE  ListedNPCs'
    BY <1>0, <1>t, <1>4 DEF Logout, ListedNPCs, TypeOK, CanSee, Within
  <1>5. ASSUME NEW p \in Players, NEW c \in Free, Move(p, c)
        PROVE  ListedNPCs'
    <2>1. /\ c \in Cells
          /\ view' = [view EXCEPT ![p] = Sight(p, c)] /\ pos' = [pos EXCEPT ![p] = c]
          /\ \A o \in Objects : o # p => life'[o] = life[o]
      BY <1>0, <1>5 DEF Move
    <2> QED BY <2>1, Refreshed
  <1>6. ASSUME NEW p \in Players, NEW killed \in SUBSET NPCs, Attack(p, killed)
        PROVE  ListedNPCs'
    <2> SUFFICES ASSUME NEW q \in Players, NEW n \in NPCs, n \in view'[q]
                 PROVE  life'[n] = "inGame" /\ CanSee(pos'[q], pos'[n])
      BY DEF ListedNPCs, CanSee, Within
    <2>1. n \in view[q] /\ (n \in killed => q \notin NearbyPlayers(pos[n]))
      BY <1>6 DEF Attack
    <2>2. n \notin killed
      BY <2>1, ListedNear
    <2> QED BY <1>0, <1>t, <1>6, <2>1, <2>2 DEF Attack, ListedNPCs, TypeOK
  <1>7. ASSUME NEW p \in Players, Die(p)
        PROVE  ListedNPCs'
    BY <1>0, <1>t, <1>7 DEF Die, ListedNPCs, TypeOK, CanSee, Within
  <1>8. ASSUME NEW p \in Players, Respawn(p)
        PROVE  ListedNPCs'
    <2>1. /\ origin[p] \in Cells
          /\ view' = [view EXCEPT ![p] = Sight(p, origin[p])]
          /\ pos' = [pos EXCEPT ![p] = origin[p]]
          /\ \A o \in Objects : o # p => life'[o] = life[o]
      BY <1>0, <1>t, <1>8 DEF Respawn, TypeOK
    <2> QED BY <2>1, Refreshed
  <1>9. ASSUME NEW n \in NPCs, NEW c \in Cells, NPCMove(n, c)
        PROVE  ListedNPCs'
    <2> SUFFICES ASSUME NEW q \in Players, NEW m \in NPCs, m \in view'[q]
                 PROVE  life'[m] = "inGame" /\ CanSee(pos'[q], pos'[m])
      BY DEF ListedNPCs, CanSee, Within
    <2>1. pos'[q] = pos[q] /\ life' = life /\ pos[q] \in Cells /\ pos[n] \in Cells
      BY <1>0, <1>t, <1>9 DEF NPCMove, TypeOK
    <2>2. CASE m # n
      <3>1. m \in view[q] /\ pos'[m] = pos[m]
        BY <1>0, <1>t, <1>9, <2>2 DEF NPCMove, TypeOK
      <3> QED BY <1>t, <2>1, <3>1 DEF ListedNPCs
    <2>3. CASE m = n
      <3>1. pos'[m] = c /\ life[n] = "inGame"
        BY <1>0, <1>t, <1>9, <2>3 DEF NPCMove, TypeOK
      <3>2. q \in NearbyPlayers(c)
        <4> SUFFICES ASSUME q \notin NearbyPlayers(c)
                     PROVE  FALSE
          OBVIOUS
        <4>1. n \in view[q]
          BY <1>9, <2>3 DEF NPCMove
        <4>2. c = pos[n] \/ Within(pos[n], c, 1)
          BY <1>9 DEF NPCMove
        <4> QED BY <4>1, <4>2, ListedNear
      <3>3. CanSee(c, pos[q])
        BY <1>9, <2>3, <3>2 DEF NPCMove
      <3> QED BY <2>1, <2>3, <3>1, <3>3, SightIsMutual
    <2> QED BY <2>2, <2>3
  <1>10. ASSUME NEW n \in NPCs, NPCRespawn(n)
         PROVE  ListedNPCs'
    <2>1. \A q \in Players : n \notin view[q]
      BY <1>0, <1>t, <1>10 DEF NPCRespawn, ListInv, DeadIsDue, ListedNPCs, TypeOK
    <2> QED BY <1>0, <1>t, <1>10, <2>1 DEF NPCRespawn, ListedNPCs, TypeOK, CanSee, Within
  <1>11. CASE UNCHANGED vars
    BY <1>1, <1>11 DEF vars, objectVars
  <1> QED BY <1>2, <1>3, <1>4, <1>5, <1>6, <1>7, <1>8, <1>9, <1>10, <1>11 DEF Next

-----------------------------------------------------------------------------
(* Owners, and who is shown nobody *)

\* Every event keeps list, Player and session of an id together, and one
\* respawn due for each dead NPC.
LEMMA OwnersStep == ListInv /\ [Next]_vars => Owned' /\ OutEmpty' /\ DeadIsDue'
  <1> SUFFICES ASSUME ListInv, [Next]_vars
               PROVE  Owned' /\ OutEmpty' /\ DeadIsDue'
    OBVIOUS
  <1>0. /\ TypeOK /\ Owned /\ OutEmpty /\ DeadIsDue
        /\ Players \cap NPCs = {} /\ Players \subseteq Objects /\ NPCs \subseteq Objects
    BY Apart DEF ListInv, Objects
  <1> USE <1>0 DEF TypeOK, InWorld, Owned, OutEmpty, DeadIsDue
  <1>1. ASSUME NEW p \in Players,
               \/ Accept(p) \/ Disconnect(p) \/ Chat(p) \/ DropRespawn(p) \/ Logout(p)
        PROVE  Owned' /\ OutEmpty' /\ DeadIsDue'
    BY <1>1 DEF Accept, Disconnect, Chat, DropRespawn, Logout, objectVars
  <1>2. ASSUME NEW p \in Players, NEW c \in Saved, Login(p, c)
        PROVE  Owned' /\ OutEmpty' /\ DeadIsDue'
    BY <1>2 DEF Login
  <1>3. ASSUME NEW p \in Players, NEW c \in Free, Move(p, c)
        PROVE  Owned' /\ OutEmpty' /\ DeadIsDue'
    BY <1>3 DEF Move
  <1>4. ASSUME NEW p \in Players, NEW killed \in SUBSET NPCs, Attack(p, killed)
        PROVE  Owned' /\ OutEmpty' /\ DeadIsDue'
    BY <1>4 DEF Attack
  <1>5. ASSUME NEW p \in Players, Die(p) \/ Respawn(p)
        PROVE  Owned' /\ OutEmpty' /\ DeadIsDue'
    BY <1>5 DEF Die, Respawn
  <1>6. ASSUME NEW n \in NPCs, NEW c \in Cells, NPCMove(n, c)
        PROVE  Owned' /\ OutEmpty' /\ DeadIsDue'
    BY <1>6 DEF NPCMove, NearbyPlayers
  <1>7. ASSUME NEW n \in NPCs, NPCRespawn(n)
        PROVE  Owned' /\ OutEmpty' /\ DeadIsDue'
    BY <1>7 DEF NPCRespawn
  <1>8. CASE UNCHANGED vars
    BY <1>8 DEF vars, objectVars
  <1> QED BY <1>1, <1>2, <1>3, <1>4, <1>5, <1>6, <1>7, <1>8 DEF Next

\* UpdateViewList adds nobody to the screen of a client that is not in the game.
LEMMA NobodyAdded ==
    ASSUME ListInv, NEW p \in Players, NEW c \in Cells, NEW d \in Cells, NEW old,
           NEW q \in Players, NEW o \in Objects,
           screen[q][o] \in Blanks(o), ~Playing(q), q # p \/ p \notin Linked
    PROVE  ViewUpdated(p, c, old, Sight(p, d))[q][o] \in Blanks(o)
  <1>1. q \notin Sight(p, d) \cap Linked
    BY DEF Sight, Playing, InWorld
  <1> QED BY <1>1, ScreensUpdated, NoneIsBlank DEF ListInv

\* No event shows anything to a client that is not in the game.
LEMMA NobodyShownStep == ListInv /\ [Next]_vars => NobodyShown'
  <1> SUFFICES ASSUME ListInv, [Next]_vars, NEW q \in Players, ~Playing(q)',
                      NEW o \in Objects
               PROVE  screen'[q][o] \in Blanks(o)
    BY DEF NobodyShown
  <1>0. /\ TypeOK /\ Free \subseteq Cells /\ Saved \subseteq Cells
        /\ Players \cap NPCs = {} /\ Players \subseteq Objects /\ NPCs \subseteq Objects
        /\ ~Playing(q) => screen[q][o] \in Blanks(o)
        /\ screen[q][o] \in Looks
    BY Map, Apart DEF ListInv, TypeOK, Objects, NobodyShown
  <1>1. ASSUME UNCHANGED <<screen, life, open, leaving>>
        PROVE  screen'[q][o] \in Blanks(o)
    BY <1>0, <1>1 DEF Playing, InWorld, Linked
  <1>2. ASSUME NEW p \in Players, Accept(p) \/ DropRespawn(p)
        PROVE  screen'[q][o] \in Blanks(o)
    BY <1>0, <1>2 DEF Accept, DropRespawn, Playing, InWorld, Linked, objectVars
  <1>3. ASSUME NEW p \in Players, Disconnect(p)
        PROVE  screen'[q][o] \in Blanks(o)
    <2>1. CASE q = p
      BY <1>0, <1>3, <2>1, NoneIsBlank DEF Disconnect, TypeOK, Blank
    <2>2. CASE q # p
      BY <1>0, <1>3, <2>2 DEF Disconnect, TypeOK, Playing, InWorld, Linked, objectVars
    <2> QED BY <2>1, <2>2
  <1>4. ASSUME NEW p \in Players, NEW c \in Saved, Login(p, c)
        PROVE  screen'[q][o] \in Blanks(o)
    <2>1. ~Playing(q) /\ (q # p \/ p \notin Linked) /\ c \in Cells
      BY <1>0, <1>4 DEF Login, TypeOK, Playing, InWorld, Linked
    <2>2. ViewUpdated(p, c, {}, Sight(p, c))[q][o] \in Blanks(o)
      BY <1>0, <2>1, NobodyAdded
    <2> QED BY <1>4, <2>2 DEF Login
  <1>5. ASSUME NEW p \in Players, Logout(p)
        PROVE  screen'[q][o] \in Blanks(o)
    <2>1. ~Playing(q) /\ pos[p] \in Cells
      BY <1>0, <1>5 DEF Logout, TypeOK, Playing, InWorld, Linked
    <2>2. ViewUpdated(p, pos[p], view[p], {})[q][o] \in Blanks(o)
      BY <1>0, <2>1, ScreensUpdated, NoneIsBlank
    <2> QED BY <1>5, <2>2 DEF Logout
  <1>6. ASSUME NEW p \in Players, NEW c \in Free, Move(p, c)
        PROVE  screen'[q][o] \in Blanks(o)
    <2>1. ~Playing(q) /\ (q # p \/ p \notin Linked) /\ c \in Cells
      BY <1>0, <1>6 DEF Move, Playing, InWorld, Linked
    <2> DEFINE scr == ViewUpdated(p, c, view[p], Sight(p, c))
    <2>2. scr[q][o] \in Blanks(o) /\ scr \in [Players -> [Objects -> Looks]]
      BY <1>0, <2>1, NobodyAdded, ScreensUpdated
    <2>3. \/ screen'[q][o] = scr[q][o]
          \/ o # Zero /\ screen'[q][o] = AfterMove(scr[q][o], c)
      BY <1>6, <2>1, <2>2, ScreensMoved DEF Move
    <2> HIDE DEF scr
    <2> QED BY <2>2, <2>3, StaysUnshown
  <1>7. ASSUME NEW p \in Players, Chat(p) \/ Die(p)
        PROVE  screen'[q][o] \in Blanks(o)
    <2>1. ~Playing(q)
      BY <1>0, <1>7 DEF Chat, Die, Playing, InWorld, Linked, objectVars, TypeOK
    <2>2. \/ screen'[q][o] = screen[q][o]
          \/ screen'[q][o] = AfterDie(screen[q][o])
      BY <1>7, <2>1 DEF Chat, Die, Playing
    <2> QED BY <1>0, <2>1, <2>2, StaysUnshown
  <1>8. ASSUME NEW p \in Players, NEW killed \in SUBSET NPCs, Attack(p, killed)
        PROVE  screen'[q][o] \in Blanks(o)
    <2>1. ~Playing(q)
      BY <1>0, <1>8 DEF Attack, Playing, InWorld, Linked, TypeOK
    <2>2. screen'[q][o] = screen[q][o] \/ screen'[q][o] = AfterDie(screen[q][o])
      BY <1>8 DEF Attack
    <2> QED BY <1>0, <2>1, <2>2, StaysUnshown
  <1>9. ASSUME NEW p \in Players, Respawn(p)
        PROVE  screen'[q][o] \in Blanks(o)
    <2>1. ~Playing(q) /\ (q # p \/ p \notin Linked) /\ origin[p] \in Cells
      BY <1>0, <1>9 DEF Respawn, TypeOK, Playing, InWorld, Linked
    <2>2. ViewUpdated(p, origin[p], {}, Sight(p, origin[p]))[q][o] \in Blanks(o)
      BY <1>0, <2>1, NobodyAdded
    <2> QED BY <1>9, <2>2 DEF Respawn
  <1>10. ASSUME NEW n \in NPCs, NEW c \in Cells, NPCMove(n, c)
         PROVE  screen'[q][o] \in Blanks(o)
    <2>1. ~Playing(q)
      BY <1>0, <1>10 DEF NPCMove, Playing, InWorld, Linked
    <2>2. q \notin NearbyPlayers(c) \cap Linked
      BY <2>1 DEF NearbyPlayers, Playing
    <2> QED BY <1>0, <1>10, <2>1, <2>2 DEF NPCMove
  <1>11. ASSUME NEW n \in NPCs, NPCRespawn(n)
         PROVE  screen'[q][o] \in Blanks(o)
    <2>1. ~Playing(q)
      BY <1>0, <1>11 DEF NPCRespawn, Playing, InWorld, Linked, TypeOK
    <2>2. q \notin NearbyPlayers(origin[n]) \cap Linked
      BY <2>1 DEF NearbyPlayers, Playing
    <2> QED BY <1>0, <1>11, <2>1, <2>2 DEF NPCRespawn
  <1>12. CASE UNCHANGED vars
    BY <1>1, <1>12 DEF vars, objectVars
  <1> QED BY <1>2, <1>3, <1>4, <1>5, <1>6, <1>7, <1>8, <1>9, <1>10, <1>11, <1>12 DEF Next

-----------------------------------------------------------------------------
(* In sight, and listed *)

\* A player that logs in, moves or respawns is listed with everything in sight.
LEMMA InSightRefreshed ==
    ASSUME ListInv, InSightListed, NEW p \in Players, NEW c \in Cells,
           view' = [view EXCEPT ![p] = Sight(p, c)], pos' = [pos EXCEPT ![p] = c],
           \A o \in Objects : o # p => life'[o] = life[o],
           \A q \in Players : q # p => (Playing(q)' => Playing(q)),
           \A q \in Players, o \in NPCs : q # p => screen'[q][o] = screen[q][o]
    PROVE  InSightListed'
  <1> SUFFICES ASSUME NEW q \in Players, NEW o \in Objects \ {q},
                      Playing(q)', life'[q] = "inGame", life'[o] = "inGame",
                      CanSee(pos'[q], pos'[o])
               PROVE  Listed(q, o)' \/ (o \in NPCs /\ screen'[q][o] = Shown(pos'[o]))
    BY DEF InSightListed, CanSee, Within, Shown
  <1>0. /\ TypeOK /\ Players \cap NPCs = {}
        /\ Players \subseteq Objects /\ NPCs \subseteq Objects /\ Objects = Players \cup NPCs
        /\ pos[q] \in Cells /\ pos[o] \in Cells
        /\ pos'[p] = c /\ \A x \in Objects : x # p => pos'[x] = pos[x]
        /\ view'[p] = Sight(p, c) /\ \A x \in Players : x # p => view'[x] = view[x]
    BY Apart DEF ListInv, TypeOK, Objects
  <1>1. CASE q = p
    <2>1. o \in Sight(p, c)
      BY <1>0, <1>1, SightIsComplete
    <2> QED BY <1>0, <1>1, <2>1 DEF Listed
  <1>2. CASE o = p
    <2>1. q \in Sight(p, c)
      BY <1>0, <1>2, SightIsComplete, SightIsMutual
    <2> QED BY <1>0, <1>2, <2>1 DEF Listed
  <1>3. CASE q # p /\ o # p
    <2>1. Playing(q) /\ life[q] = "inGame" /\ life[o] = "inGame" /\ CanSee(pos[q], pos[o])
      BY <1>0, <1>3
    <2>2. Listed(q, o) \/ (o \in NPCs /\ screen[q][o] = Shown(pos[o]))
      BY <2>1 DEF InSightListed
    <2>3. CASE Listed(q, o)
      BY <1>0, <1>3, <2>3 DEF Listed
    <2>4. CASE o \in NPCs /\ screen[q][o] = Shown(pos[o])
      BY <1>0, <1>3, <2>4
    <2> QED BY <2>2, <2>3, <2>4
  <1> QED BY <1>1, <1>2, <1>3

\* What is as it was for all pairs in sight keeps InSightListed.
LEMMA InSightKept ==
    ASSUME InSightListed, NEW q \in Players, NEW o \in Objects \ {q},
           Playing(q)', life'[q] = "inGame", life'[o] = "inGame",
           CanSee(pos'[q], pos'[o]),
           Playing(q), life[q] = "inGame", life[o] = "inGame",
           pos'[q] = pos[q], pos'[o] = pos[o],
           Listed(q, o) => Listed(q, o)',
           o \in NPCs => screen'[q][o] = screen[q][o]
    PROVE  Listed(q, o)' \/ (o \in NPCs /\ screen'[q][o] = Shown(pos'[o]))
  BY DEF InSightListed

\* Whatever an event does, who is in sight is listed by one of the two.
LEMMA InSightListedStep == ListInv /\ InSightListed /\ [Next]_vars => InSightListed'
  <1> SUFFICES ASSUME ListInv, InSightListed, [Next]_vars
               PROVE  InSightListed'
    OBVIOUS
  <1>0. /\ TypeOK /\ Owned /\ DeadIsDue /\ OutEmpty /\ Free \subseteq Cells /\ Saved \subseteq Cells
        /\ Players \cap NPCs = {} /\ Players \subseteq Objects /\ NPCs \subseteq Objects
    BY Map, Apart DEF ListInv, Objects
  <1>1. ASSUME NEW p \in Players, NEW c \in Saved, Login(p, c)
        PROVE  InSightListed'
    <2>1. c \in Cells /\ \A o \in Objects : o # p => life'[o] = life[o]
      BY <1>0, <1>1 DEF Login, TypeOK
    <2>2. \A q \in Players : q # p => (Playing(q)' => Playing(q))
      BY <1>0, <1>1 DEF Login, TypeOK, Playing, InWorld, Linked
    <2>3. \A q \in Players, o \in NPCs : q # p => screen'[q][o] = screen[q][o]
      BY <1>0, <1>1, <2>1, ScreensUpdated DEF Login
    <2> QED BY <1>1, <2>1, <2>2, <2>3, InSightRefreshed DEF Login
  <1>2. ASSUME NEW p \in Players, NEW c \in Free, Move(p, c)
        PROVE  InSightListed'
    <2>1. c \in Cells /\ \A o \in Objects : o # p => life'[o] = life[o]
      BY <1>0, <1>2 DEF Move
    <2>2. \A q \in Players : q # p => (Playing(q)' => Playing(q))
      BY <1>0, <1>2 DEF Move, Playing, InWorld, Linked
    <2> DEFINE scr == ViewUpdated(p, c, view[p], Sight(p, c))
    <2>3. /\ scr \in [Players -> [Objects -> Looks]]
          /\ \A q \in Players, o \in NPCs : q # p => scr[q][o] = screen[q][o]
      BY <1>0, <2>1, ScreensUpdated
    <2>4. screen' = MoveShown(p, c, Sight(p, c), scr)
      BY <1>2 DEF Move
    <2>5. \A q \in Players, o \in NPCs : q # p => screen'[q][o] = screen[q][o]
      <3> HIDE DEF scr
      <3> QED BY <1>0, <2>1, <2>3, <2>4, ScreensMoved
    <2> QED BY <1>2, <2>1, <2>2, <2>5, InSightRefreshed DEF Move
  <1>3. ASSUME NEW p \in Players, Respawn(p)
        PROVE  InSightListed'
    <2>1. origin[p] \in Cells /\ \A o \in Objects : o # p => life'[o] = life[o]
      BY <1>0, <1>3 DEF Respawn, TypeOK
    <2>2. \A q \in Players : q # p => (Playing(q)' => Playing(q))
      BY <1>0, <1>3 DEF Respawn, TypeOK, Playing, InWorld, Linked
    <2>3. \A q \in Players, o \in NPCs : q # p => screen'[q][o] = screen[q][o]
      BY <1>0, <1>3, <2>1, ScreensUpdated DEF Respawn
    <2> QED BY <1>3, <2>1, <2>2, <2>3, InSightRefreshed DEF Respawn
  <1> SUFFICES ASSUME NEW q \in Players, NEW o \in Objects \ {q},
                      Playing(q)', life'[q] = "inGame", life'[o] = "inGame",
                      CanSee(pos'[q], pos'[o])
               PROVE  Listed(q, o)' \/ (o \in NPCs /\ screen'[q][o] = Shown(pos'[o]))
    BY DEF InSightListed, CanSee, Within, Shown
  <1> USE <1>0
  <1> DEFINE Fine == Listed(q, o)' \/ (o \in NPCs /\ screen'[q][o] = Shown(pos'[o]))
  <1>4. ASSUME NEW p \in Players, Accept(p) \/ DropRespawn(p)
        PROVE  Fine
    <2>1. /\ UNCHANGED <<life, pos, view, screen, leaving>>
          /\ Accept(p) => p \notin open /\ open' = open \cup {p}
          /\ DropRespawn(p) => open' = open
      BY <1>4 DEF Accept, DropRespawn, objectVars
    <2>2. Playing(q) /\ (Listed(q, o) => Listed(q, o)')
      BY <1>4, <2>1 DEF Playing, InWorld, Linked, Owned, Listed
    <2> QED BY <2>1, <2>2, InSightKept
  <1>5. ASSUME NEW p \in Players, Disconnect(p)
        PROVE  Fine
    <2>1. UNCHANGED <<life, pos, view>> /\ q # p
      BY <1>5 DEF Disconnect, objectVars, Playing, Linked
    <2>2. Playing(q) /\ (Listed(q, o) => Listed(q, o)') /\ screen'[q][o] = screen[q][o]
      BY <1>5, <2>1 DEF Disconnect, Playing, InWorld, Linked, Listed, TypeOK
    <2> QED BY <2>1, <2>2, InSightKept
  <1>6. ASSUME NEW p \in Players, Logout(p)
        PROVE  Fine
    <2>1. /\ q # p /\ o # p /\ life'[q] = life[q] /\ life'[o] = life[o] /\ pos' = pos
          /\ \A x \in Players : x # p => view'[x] = view[x]
      BY <1>6 DEF Logout, TypeOK
    <2>2. Playing(q) /\ (Listed(q, o) => Listed(q, o)')
      BY <1>6, <2>1 DEF Logout, Playing, InWorld, Linked, Listed
    <2>3. screen'[q][o] = screen[q][o]
      <3>1. pos[p] \in Cells
        BY DEF TypeOK
      <3> QED BY <1>6, <2>1, <3>1, ScreensUpdated DEF Logout
    <2> QED BY <2>1, <2>2, <2>3, InSightKept
  <1>7. ASSUME NEW p \in Players, Chat(p) \/ Die(p)
        PROVE  Fine
    <2>1. /\ UNCHANGED <<pos, view, open, leaving>>
          /\ life'[q] = life[q] /\ life'[o] = life[o]
      BY <1>7 DEF Chat, Die, objectVars, TypeOK
    <2>2. Playing(q) /\ (Listed(q, o) => Listed(q, o)')
      BY <2>1 DEF Playing, InWorld, Linked, Listed
    <2>3. o \in NPCs => screen'[q][o] = screen[q][o]
      BY <1>7 DEF Chat, Die
    <2> QED BY <2>1, <2>2, <2>3, InSightKept
  <1>8. ASSUME NEW p \in Players, NEW killed \in SUBSET NPCs, Attack(p, killed)
        PROVE  Fine
    <2>1. /\ UNCHANGED <<pos, open, leaving>> /\ o \notin killed /\ q \notin killed
          /\ life'[q] = life[q] /\ life'[o] = life[o]
      BY <1>8 DEF Attack, TypeOK
    <2>2. Playing(q) /\ (Listed(q, o) => Listed(q, o)')
      BY <1>8, <2>1 DEF Attack, Playing, InWorld, Linked, Listed
    <2>3. screen'[q][o] = screen[q][o]
      BY <1>8, <2>1 DEF Attack, TypeOK
    <2> QED BY <2>1, <2>2, <2>3, InSightKept
  <1>9. ASSUME NEW n \in NPCs, NEW c \in Cells, NPCMove(n, c)
        PROVE  Fine
    <2>1. /\ UNCHANGED <<life, open, leaving>> /\ pos' = [pos EXCEPT ![n] = c]
          /\ q # n /\ pos'[q] = pos[q] /\ pos[q] \in Cells
      BY <1>9 DEF NPCMove, TypeOK
    <2>2. CASE o = n
      <3>1. CanSee(c, pos[q])
        BY <2>1, <2>2, SightIsMutual DEF TypeOK
      <3>2. q \in NearbyPlayers(c)
        BY <2>1, <3>1, NothingMissed DEF NearbyPlayers, Playing, InWorld
      <3> QED BY <1>9, <2>2, <3>1, <3>2 DEF NPCMove, Listed
    <2>3. CASE o # n
      <3>1. Playing(q) /\ pos'[o] = pos[o]
        BY <2>1, <2>3 DEF Playing, InWorld, Linked, TypeOK
      <3>2. Listed(q, o) => Listed(q, o)'
        <4>1. \A x \in Players, y \in Objects : y # n => (y \in view[x] <=> y \in view'[x])
          BY <1>9 DEF NPCMove
        <4> QED BY <2>1, <2>3, <4>1 DEF Listed
      <3>3. screen'[q][o] = screen[q][o]
        BY <1>9, <2>3 DEF NPCMove, TypeOK
      <3> QED BY <2>1, <3>1, <3>2, <3>3, InSightKept
    <2> QED BY <2>2, <2>3
  <1>10. ASSUME NEW n \in NPCs, NPCRespawn(n)
         PROVE  Fine
    <2>1. /\ UNCHANGED <<view, open, leaving>> /\ pos' = [pos EXCEPT ![n] = origin[n]]
          /\ q # n /\ pos'[q] = pos[q] /\ life'[q] = life[q]
          /\ pos[q] \in Cells /\ origin[n] \in Cells
      BY <1>10 DEF NPCRespawn, TypeOK
    <2>2. Playing(q)
      BY <2>1 DEF Playing, InWorld, Linked
    <2>3. CASE o = n
      <3>1. pos'[o] = origin[n] /\ CanSee(origin[n], pos[q])
        BY <2>1, <2>3, SightIsMutual DEF TypeOK
      <3>2. q \in NearbyPlayers(origin[n]) \cap Linked
        BY <2>1, <2>2, <3>1, NothingMissed DEF NearbyPlayers, Playing
      <3>3. screen'[q][o] = Shown(origin[n])
        BY <1>10, <2>3, <3>1, <3>2 DEF NPCRespawn
      <3> QED BY <2>3, <3>1, <3>3
    <2>4. CASE o # n
      <3>1. pos'[o] = pos[o] /\ life'[o] = life[o] /\ screen'[q][o] = screen[q][o]
        BY <1>10, <2>1, <2>4 DEF NPCRespawn, TypeOK
      <3>2. Listed(q, o) => Listed(q, o)'
        BY <2>1 DEF Listed
      <3> QED BY <2>1, <2>2, <3>1, <3>2, InSightKept
    <2> QED BY <2>3, <2>4
  <1>11. CASE UNCHANGED vars
    <2>1. UNCHANGED <<life, pos, view, screen, open, leaving>>
      BY <1>11 DEF vars, objectVars
    <2>2. Playing(q) /\ (Listed(q, o) => Listed(q, o)')
      BY <2>1 DEF Playing, InWorld, Linked, Listed
    <2> QED BY <2>1, <2>2, InSightKept
  <1>12. InSightListed' => Fine
    BY DEF InSightListed, CanSee, Within, Shown
  <1> QED BY <1>1, <1>2, <1>3, <1>4, <1>5, <1>6, <1>7, <1>8, <1>9, <1>10, <1>11, <1>12, Zenon DEF Next

-----------------------------------------------------------------------------
(* Listed by both, and shown *)

\* A player that logs in or respawns, after its list was emptied.
LEMMA BothShownEntering ==
    ASSUME ListInv, BothShown, NEW p \in Players, NEW c \in Cells,
           view' = [view EXCEPT ![p] = Sight(p, c)], pos' = [pos EXCEPT ![p] = c],
           screen' = ViewUpdated(p, c, {}, Sight(p, c)),
           UNCHANGED <<open, leaving>>,
           \A o \in Objects : o # p => life'[o] = life[o]
    PROVE  BothShown'
  <1> SUFFICES ASSUME NEW q \in Players, NEW o \in Objects \ {q},
                      Playing(q)', life'[o] = "inGame", o \in view'[q],
                      o \in Players => q \in view'[o]
               PROVE  screen'[q][o] = Shown(pos'[o])
    BY DEF BothShown, Shown
  <1>0. /\ TypeOK /\ Players \subseteq Objects /\ q \in Linked
        /\ pos'[p] = c /\ \A x \in Objects : x # p => pos'[x] = pos[x]
        /\ view'[p] = Sight(p, c) /\ \A x \in Players : x # p => view'[x] = view[x]
    BY DEF ListInv, TypeOK, Objects, Playing, Linked
  <1>1. CASE q = p
    BY <1>0, <1>1, ScreensUpdated
  <1>2. CASE o = p
    BY <1>0, <1>2, ScreensUpdated
  <1>3. CASE q # p /\ o # p
    <2>1. Playing(q)
      BY <1>0, <1>3 DEF Playing, InWorld, Linked
    <2>2. screen[q][o] = Shown(pos[o])
      BY <1>0, <1>3, <2>1 DEF BothShown
    <2> QED BY <1>0, <1>3, <2>2, ScreensUpdated
  <1> QED BY <1>1, <1>2, <1>3

\* A player that moves: who stays in both lists is told by MOVE_OBJECT.
LEMMA BothShownMoving ==
    ASSUME ListInv, BothShown, NEW p \in Players, NEW c \in Free, Move(p, c)
    PROVE  BothShown'
  <1> SUFFICES ASSUME NEW q \in Players, NEW o \in Objects \ {q},
                      Playing(q)', life'[o] = "inGame", o \in view'[q],
                      o \in Players => q \in view'[o]
               PROVE  screen'[q][o] = Shown(pos'[o])
    BY DEF BothShown, Shown
  <1> DEFINE new == Sight(p, c)
             scr == ViewUpdated(p, c, view[p], new)
  <1>0. /\ TypeOK /\ Players \subseteq Objects /\ c \in Cells
        /\ pos'[p] = c /\ \A x \in Objects : x # p => pos'[x] = pos[x]
        /\ view'[p] = new /\ \A x \in Players : x # p => view'[x] = view[x]
        /\ life' = life /\ Playing(q) /\ q \in Linked /\ q \in open
    BY Map DEF ListInv, TypeOK, Objects, Move, Playing, InWorld, Linked
  <1>1. /\ scr \in [Players -> [Objects -> Looks]]
        /\ scr[q][o] = IF q = p /\ p \in Linked /\ o \in new \ view[p] THEN Shown(pos[o])
                       ELSE IF q = p /\ p \in Linked /\ o \in view[p] \ new THEN Absent
                       ELSE IF o = p /\ q \in (new \ view[p]) \cap Linked THEN Shown(c)
                       ELSE IF o = p /\ q \in (view[p] \ new) \cap open THEN Absent
                       ELSE screen[q][o]
    BY <1>0, ScreensUpdated
  <1>2. screen' = MoveShown(p, c, new, scr)
    BY DEF Move
  <1> HIDE DEF new, scr
  <1>3. screen'[q][o] = IF o = p /\ q \in new \cap open THEN AfterMove(scr[q][o], c) ELSE scr[q][o]
    BY <1>0, <1>1, <1>2, ScreensMoved
  <1>4. CASE q = p
    <2>1. screen'[q][o] = scr[q][o] /\ pos'[o] = pos[o] /\ o \in new
      BY <1>0, <1>3, <1>4
    <2>2. CASE o \in view[p]
      BY <1>0, <1>1, <1>4, <2>1, <2>2 DEF BothShown
    <2>3. CASE o \notin view[p]
      BY <1>0, <1>1, <1>4, <2>1, <2>3
    <2> QED BY <2>2, <2>3
  <1>5. CASE o = p
    <2>1. screen'[q][o] = AfterMove(scr[q][o], c) /\ q \in new /\ p \in view[q]
      BY <1>0, <1>3, <1>5
    <2>2. scr[q][o] = Shown(c) \/ scr[q][o] = Shown(pos[p])
      <3>1. CASE q \in view[p]
        BY <1>0, <1>1, <1>5, <2>1, <3>1 DEF BothShown
      <3>2. CASE q \notin view[p]
        BY <1>0, <1>1, <1>5, <2>1, <3>2
      <3> QED BY <3>1, <3>2
    <2>3. pos[p] \in Cells
      BY <1>0 DEF TypeOK
    <2> QED BY <1>0, <1>5, <2>1, <2>2, <2>3, ShownStays
  <1>6. CASE q # p /\ o # p
    <2>1. screen'[q][o] = screen[q][o] /\ pos'[o] = pos[o]
      BY <1>0, <1>1, <1>3, <1>6
    <2> QED BY <1>0, <1>6, <2>1 DEF BothShown
  <1> QED BY <1>4, <1>5, <1>6

\* Whatever an event does, who is listed by both sides shows where it is.
LEMMA BothShownStep == ListInv /\ BothShown /\ [Next]_vars => BothShown'
  <1> SUFFICES ASSUME ListInv, BothShown, [Next]_vars
               PROVE  BothShown'
    OBVIOUS
  <1>0. /\ TypeOK /\ Owned /\ DeadIsDue /\ ListedNPCs /\ OutEmpty
        /\ Free \subseteq Cells /\ Saved \subseteq Cells
        /\ Players \cap NPCs = {} /\ Players \subseteq Objects /\ NPCs \subseteq Objects
    BY Map, Apart DEF ListInv, Objects
  <1>1. ASSUME NEW p \in Players, NEW c \in Saved, Login(p, c)
        PROVE  BothShown'
    <2>1. c \in Cells /\ \A o \in Objects : o # p => life'[o] = life[o]
      BY <1>0, <1>1 DEF Login, TypeOK
    <2> QED BY <1>1, <2>1, BothShownEntering DEF Login
  <1>2. ASSUME NEW p \in Players, Respawn(p)
        PROVE  BothShown'
    <2>1. origin[p] \in Cells /\ \A o \in Objects : o # p => life'[o] = life[o]
      BY <1>0, <1>2 DEF Respawn, TypeOK
    <2> QED BY <1>2, <2>1, BothShownEntering DEF Respawn
  <1>3. ASSUME NEW p \in Players, NEW c \in Free, Move(p, c)
        PROVE  BothShown'
    BY <1>3, BothShownMoving
  <1>4. SUFFICES ASSUME NEW q \in Players, NEW o \in Objects \ {q},
                        Playing(q)', life'[o] = "inGame", o \in view'[q],
                        o \in Players => q \in view'[o]
                 PROVE  screen'[q][o] = Shown(pos'[o])
    BY DEF BothShown, Shown
  <1>5. ASSUME Playing(q), life[o] = "inGame", o \in view[q], o \in Players => q \in view[o]
        PROVE  screen[q][o] = Shown(pos[o])
    BY <1>5 DEF BothShown
  <1> USE <1>0, <1>4
  <1>6. ASSUME NEW p \in Players, Accept(p) \/ DropRespawn(p)
        PROVE  screen'[q][o] = Shown(pos'[o])
    <2>1. /\ UNCHANGED <<life, pos, view, screen, leaving>>
          /\ Accept(p) => p \notin open /\ open' = open \cup {p}
          /\ DropRespawn(p) => open' = open
      BY <1>6 DEF Accept, DropRespawn, objectVars
    <2>2. Playing(q)
      BY <1>6, <2>1 DEF Playing, InWorld, Linked, Owned
    <2> QED BY <1>5, <2>1, <2>2
  <1>7. ASSUME NEW p \in Players, Disconnect(p)
        PROVE  screen'[q][o] = Shown(pos'[o])
    <2>1. UNCHANGED <<life, pos, view>> /\ q # p
      BY <1>7 DEF Disconnect, objectVars, Playing, Linked
    <2>2. Playing(q) /\ screen'[q][o] = screen[q][o]
      BY <1>7, <2>1 DEF Disconnect, Playing, InWorld, Linked, TypeOK
    <2> QED BY <1>5, <2>1, <2>2
  <1>8. ASSUME NEW p \in Players, Logout(p)
        PROVE  screen'[q][o] = Shown(pos'[o])
    <2>1. /\ q # p /\ o # p /\ life'[q] = life[q] /\ life'[o] = life[o] /\ pos' = pos
          /\ \A x \in Players : x # p => view'[x] = view[x]
          /\ pos[p] \in Cells
      BY <1>8 DEF Logout, TypeOK
    <2>2. Playing(q)
      BY <1>8, <2>1 DEF Logout, Playing, InWorld, Linked
    <2>3. screen'[q][o] = screen[q][o]
      BY <1>8, <2>1, ScreensUpdated DEF Logout
    <2> QED BY <1>5, <2>1, <2>2, <2>3
  <1>9. ASSUME NEW p \in Players, Chat(p)
        PROVE  screen'[q][o] = Shown(pos'[o])
    <2>1. UNCHANGED <<life, pos, view, open, leaving>>
      BY <1>9 DEF Chat, objectVars
    <2>2. screen[q][o] = Shown(pos[o]) /\ pos[o] \in Cells
      BY <1>5, <2>1 DEF Playing, InWorld, Linked, TypeOK
    <2>3. screen'[q][o] = screen[q][o] \/ screen'[q][o] = AfterChat(screen[q][o])
      BY <1>9 DEF Chat
    <2> QED BY <2>1, <2>2, <2>3, ShownStays
  <1>10. ASSUME NEW p \in Players, Die(p)
         PROVE  screen'[q][o] = Shown(pos'[o])
    <2>1. /\ UNCHANGED <<pos, view, open, leaving>> /\ o # p /\ life'[o] = life[o]
          /\ screen'[q][o] = screen[q][o]
      BY <1>10 DEF Die, TypeOK
    <2>2. Playing(q)
      BY <1>10, <2>1 DEF Die, Playing, InWorld, Linked, TypeOK
    <2> QED BY <1>5, <2>1, <2>2
  <1>11. ASSUME NEW p \in Players, NEW killed \in SUBSET NPCs, Attack(p, killed)
         PROVE  screen'[q][o] = Shown(pos'[o])
    <2>1. /\ UNCHANGED <<pos, open, leaving>> /\ o \notin killed /\ q \notin killed
          /\ life'[q] = life[q] /\ life'[o] = life[o] /\ screen'[q][o] = screen[q][o]
          /\ \A x \in Players : view'[x] \subseteq view[x]
      BY <1>11 DEF Attack, TypeOK
    <2>2. Playing(q)
      BY <2>1 DEF Playing, InWorld, Linked
    <2> QED BY <1>5, <2>1, <2>2
  <1>12. ASSUME NEW n \in NPCs, NEW c \in Cells, NPCMove(n, c)
         PROVE  screen'[q][o] = Shown(pos'[o])
    <2>1. /\ UNCHANGED <<life, open, leaving>> /\ pos' = [pos EXCEPT ![n] = c]
          /\ Playing(q) /\ q \in Linked
      BY <1>12 DEF NPCMove, Playing, InWorld, Linked
    <2>2. CASE o = n
      <3>1. pos'[o] = c /\ pos[n] \in Cells /\ o \notin Players
        BY <2>1, <2>2 DEF TypeOK
      <3>2. q \in NearbyPlayers(c) \cap Linked /\ CanSee(c, pos[q])
        <4>1. c = pos[n] \/ Within(pos[n], c, 1)
          BY <1>12 DEF NPCMove
        <4>2. n \in view[q] => q \in NearbyPlayers(c)
          BY <4>1, ListedNear
        <4> QED BY <1>12, <2>1, <2>2, <4>2 DEF NPCMove
      <3>3. CASE n \in view[q]
        <4>1. screen[q][n] = Shown(pos[n])
          BY <1>5, <2>1, <2>2, <3>1, <3>3
        <4>2. screen'[q][n] = AfterMove(screen[q][n], c)
          BY <1>12, <3>2, <3>3 DEF NPCMove
        <4> QED BY <2>2, <3>1, <4>1, <4>2, ShownStays
      <3>4. CASE n \notin view[q]
        BY <1>12, <2>2, <3>1, <3>2, <3>4 DEF NPCMove
      <3> QED BY <3>3, <3>4
    <2>3. CASE o # n
      <3>1. pos'[o] = pos[o] /\ screen'[q][o] = screen[q][o]
        BY <1>12, <2>1, <2>3 DEF NPCMove, TypeOK
      <3>2. \A x \in Players, y \in Objects : y # n => (y \in view[x] <=> y \in view'[x])
        BY <1>12 DEF NPCMove
      <3>3. o \in view[q] /\ (o \in Players => q \in view[o])
        BY <2>3, <3>2
      <3> QED BY <1>5, <2>1, <3>1, <3>3
    <2> QED BY <2>2, <2>3
  <1>13. ASSUME NEW n \in NPCs, NPCRespawn(n)
         PROVE  screen'[q][o] = Shown(pos'[o])
    <2>1. /\ UNCHANGED <<view, open, leaving>> /\ life[n] # "inGame"
          /\ life'[q] = life[q]
      BY <1>13 DEF NPCRespawn, DeadIsDue, TypeOK
    <2>2. o # n
      BY <2>1 DEF ListedNPCs
    <2>3. pos'[o] = pos[o] /\ life'[o] = life[o] /\ screen'[q][o] = screen[q][o]
      BY <1>13, <2>2 DEF NPCRespawn, TypeOK
    <2>4. Playing(q)
      BY <2>1 DEF Playing, InWorld, Linked
    <2> QED BY <1>5, <2>1, <2>3, <2>4
  <1>14. CASE UNCHANGED vars
    <2>1. UNCHANGED <<life, pos, view, screen, open, leaving>>
      BY <1>14 DEF vars, objectVars
    <2> QED BY <1>5, <2>1 DEF Playing, InWorld, Linked
  <1>15. BothShown' => screen'[q][o] = Shown(pos'[o])
    BY DEF BothShown, Shown
  <1> QED BY <1>1, <1>2, <1>3, <1>6, <1>7, <1>8, <1>9, <1>10, <1>11, <1>12, <1>13, <1>14,
             <1>15, Zenon DEF Next

-----------------------------------------------------------------------------
(* Strays *)

\* A player that logs in: it is shown what it lists, and to those it lists.
LEMMA StrayEntering ==
    ASSUME ListInv, NEW p \in Players, NEW c \in Cells, Login(p, c),
           NEW q \in Players, NEW o \in Objects, Stray(q, o)'
    PROVE  Stray(q, o)
  <1>0. /\ TypeOK /\ Players \subseteq Objects /\ p \notin Sight(p, c)
        /\ view[p] = {} /\ ~Playing(p) /\ open' = open /\ leaving' = leaving
        /\ view'[p] = Sight(p, c) /\ \A x \in Players : x # p => view'[x] = view[x]
    BY DEF Login, ListInv, TypeOK, OutEmpty, Playing, Objects, Sight
  <1>1. /\ screen'[q][o].look = "shown" /\ o \notin view'[q]
        /\ o \in Players => q \notin view'[o]
    BY DEF Stray, Listed
  <1>2. screen'[q][o] =
          IF q = p /\ p \in Linked /\ o \in Sight(p, c) \ {} THEN Shown(pos[o])
          ELSE IF q = p /\ p \in Linked /\ o \in {} \ Sight(p, c) THEN Absent
          ELSE IF o = p /\ q \in (Sight(p, c) \ {}) \cap Linked THEN Shown(c)
          ELSE IF o = p /\ q \in ({} \ Sight(p, c)) \cap open THEN Absent
          ELSE screen[q][o]
    BY <1>0, ScreensUpdated DEF Login
  <1>3. CASE q = p
    <2>1. screen[p][o].look = "shown"
      BY <1>0, <1>1, <1>2, <1>3
    <2>2. screen[p][o] \in Unshown
      BY <1>0, StaysUnshown DEF ListInv, NobodyShown
    <2> QED BY <2>1, <2>2, LooksApart
  <1>4. CASE q # p
    <2>1. Playing(q)
      BY <1>0, <1>4 DEF Login, Stray, Playing, InWorld, Linked, TypeOK
    <2>2. screen'[q][o] = screen[q][o]
      BY <1>0, <1>1, <1>2, <1>4
    <2>3. o \notin view[q] /\ (o \in Players => q \notin view[o])
      BY <1>0, <1>1, <1>4
    <2> QED BY <1>1, <2>1, <2>2, <2>3 DEF Stray, Listed
  <1> QED BY <1>3, <1>4

\* A player that moves: who drops out of its list is removed on both sides.
LEMMA StrayMoving ==
    ASSUME ListInv, NEW p \in Players, NEW c \in Free, Move(p, c),
           NEW q \in Players, NEW o \in Objects, Stray(q, o)'
    PROVE  Stray(q, o)
  <1> DEFINE new == Sight(p, c)
             scr == ViewUpdated(p, c, view[p], new)
  <1>0. /\ TypeOK /\ Players \subseteq Objects /\ c \in Cells /\ p \notin new
        /\ Playing(q) /\ q \in Linked /\ q \in open
        /\ view'[p] = new /\ \A x \in Players : x # p => view'[x] = view[x]
    BY Map DEF ListInv, TypeOK, Objects, Move, Stray, Playing, InWorld, Linked, Sight
  <1>1. /\ screen'[q][o].look = "shown" /\ o \notin view'[q]
        /\ o \in Players => q \notin view'[o]
    BY DEF Stray, Listed
  <1>2. /\ scr \in [Players -> [Objects -> Looks]]
        /\ scr[q][o] = IF q = p /\ p \in Linked /\ o \in new \ view[p] THEN Shown(pos[o])
                       ELSE IF q = p /\ p \in Linked /\ o \in view[p] \ new THEN Absent
                       ELSE IF o = p /\ q \in (new \ view[p]) \cap Linked THEN Shown(c)
                       ELSE IF o = p /\ q \in (view[p] \ new) \cap open THEN Absent
                       ELSE screen[q][o]
    BY <1>0, ScreensUpdated
  <1>3. screen' = MoveShown(p, c, new, scr)
    BY DEF Move
  <1> HIDE DEF new, scr
  <1>4. screen'[q][o] = IF o = p /\ q \in new \cap open THEN AfterMove(scr[q][o], c) ELSE scr[q][o]
    BY <1>0, <1>2, <1>3, ScreensMoved
  <1>5. screen'[q][o] = scr[q][o]
    BY <1>0, <1>1, <1>4
  <1>6. scr[q][o] # Absent
    BY <1>1, <1>5, LooksApart
  <1>7. CASE q = p
    <2>1. o \notin new /\ o \notin view[p] /\ scr[q][o] = screen[q][o]
      BY <1>0, <1>1, <1>2, <1>6, <1>7
    <2>2. o \in Players => q \notin view[o]
      BY <1>0, <1>1, <1>7, <2>1
    <2> QED BY <1>0, <1>1, <1>5, <1>7, <2>1, <2>2 DEF Stray, Listed
  <1>8. CASE q # p /\ o = p
    <2>1. q \notin new /\ q \notin view[p] /\ scr[q][o] = screen[q][o]
      BY <1>0, <1>1, <1>2, <1>6, <1>8
    <2> QED BY <1>0, <1>1, <1>5, <1>8, <2>1 DEF Stray, Listed
  <1>9. CASE q # p /\ o # p
    <2>1. scr[q][o] = screen[q][o]
      BY <1>2, <1>9
    <2> QED BY <1>0, <1>1, <1>5, <1>9, <2>1 DEF Stray, Listed
  <1> QED BY <1>7, <1>8, <1>9

\* No step but a respawn leaves a stray.
LEMMA StraysStep ==
    ASSUME ListInv, [Next]_vars, NEW q \in Players, NEW o \in Objects, Stray(q, o)'
    PROVE  \/ Stray(q, o)
           \/ \E p \in Players : Respawn(p)
           \/ \E n \in NPCs : NPCRespawn(n)
  <1> DEFINE Allowed == \/ Stray(q, o)
                        \/ \E p \in Players : Respawn(p)
                        \/ \E n \in NPCs : NPCRespawn(n)
  <1> SUFFICES Allowed
    OBVIOUS
  <1>0. /\ TypeOK /\ Owned /\ Free \subseteq Cells /\ Saved \subseteq Cells
        /\ Players \cap NPCs = {} /\ Players \subseteq Objects /\ NPCs \subseteq Objects
    BY Map, Apart DEF ListInv, Objects
  <1>1. /\ Playing(q)' /\ screen'[q][o].look = "shown" /\ o \notin view'[q]
        /\ o \in Players => q \notin view'[o]
    BY DEF Stray, Listed
  <1>2. ASSUME Playing(q), screen'[q][o] = screen[q][o], Listed(q, o) => Listed(q, o)'
        PROVE  Stray(q, o)
    BY <1>1, <1>2 DEF Stray, Listed
  <1> USE <1>0, <1>1
  <1>3. ASSUME NEW p \in Players, Accept(p) \/ DropRespawn(p)
        PROVE  Allowed
    <2>1. /\ UNCHANGED <<life, view, screen, leaving>>
          /\ Accept(p) => p \notin open /\ open' = open \cup {p}
          /\ DropRespawn(p) => open' = open
      BY <1>3 DEF Accept, DropRespawn, objectVars
    <2>2. Playing(q)
      BY <1>3, <2>1 DEF Playing, InWorld, Linked, Owned
    <2> QED BY <1>2, <2>1, <2>2 DEF Listed
  <1>4. ASSUME NEW p \in Players, Disconnect(p)
        PROVE  Allowed
    <2>1. UNCHANGED <<life, view>> /\ q # p
      BY <1>4 DEF Disconnect, objectVars, Playing, Linked
    <2>2. Playing(q) /\ screen'[q][o] = screen[q][o]
      BY <1>4, <2>1 DEF Disconnect, Playing, InWorld, Linked, TypeOK
    <2> QED BY <1>2, <2>1, <2>2 DEF Listed
  <1>5. ASSUME NEW p \in Players, NEW c \in Saved, Login(p, c)
        PROVE  Allowed
    BY <1>5, StrayEntering
  <1>6. ASSUME NEW p \in Players, Logout(p)
        PROVE  Allowed
    <2>1. /\ q # p /\ life'[q] = life[q] /\ UNCHANGED open /\ leaving' = leaving \ {p}
          /\ \A x \in Players : x # p => view'[x] = view[x]
          /\ pos[p] \in Cells
      BY <1>6 DEF Logout, Playing, InWorld, TypeOK
    <2>2. Playing(q) /\ q \in open
      BY <2>1 DEF Playing, InWorld, Linked
    <2>3. screen'[q][o] = IF o = p /\ q \in view[p] THEN Absent ELSE screen[q][o]
      BY <1>6, <2>1, <2>2, ScreensUpdated DEF Logout
    <2>4. screen'[q][o] = screen[q][o] /\ (o = p => q \notin view[p])
      BY <2>3, LooksApart
    <2> QED BY <1>2, <2>1, <2>2, <2>4 DEF Listed
  <1>7. ASSUME NEW p \in Players, NEW c \in Free, Move(p, c)
        PROVE  Allowed
    BY <1>7, StrayMoving
  <1>8. ASSUME NEW p \in Players, Chat(p) \/ Die(p)
        PROVE  Allowed
    <2>1. /\ UNCHANGED <<view, open, leaving>> /\ (InWorld(q)' => InWorld(q))
      BY <1>8 DEF Chat, Die, objectVars, InWorld, TypeOK
    <2>2. screen[q][o] \in Looks
      BY DEF TypeOK
    <2>3. /\ Chat(p) => screen'[q][o] \in {screen[q][o], AfterChat(screen[q][o])}
          /\ Die(p) => screen'[q][o] \in {screen[q][o], AfterDie(screen[q][o])}
      BY DEF Chat, Die
    <2>4. PICK c \in Cells : TRUE
      BY Sizes
    <2>5. screen[q][o].look = "shown"
      BY <1>8, <2>2, <2>3, <2>4, OnlyAddShows
    <2> QED BY <2>1, <2>5 DEF Stray, Listed, Playing, Linked
  <1>9. ASSUME NEW p \in Players, NEW killed \in SUBSET NPCs, Attack(p, killed)
        PROVE  Allowed
    <2>1. /\ UNCHANGED <<open, leaving>> /\ q \notin killed /\ life'[q] = life[q]
      BY <1>9 DEF Attack, TypeOK
    <2>2. Playing(q) /\ q \in Linked
      BY <2>1 DEF Playing, InWorld, Linked
    <2>3. ~(o \in killed /\ q \in NearbyPlayers(pos[o]))
      <3>1. SUFFICES ASSUME o \in killed, q \in NearbyPlayers(pos[o])
                     PROVE  FALSE
        OBVIOUS
      <3>2. screen'[q][o] = AfterDie(screen[q][o])
        BY <1>9, <2>2, <3>1 DEF Attack
      <3>3. screen[q][o] \in Looks
        BY DEF TypeOK
      <3>4. PICK c \in Cells : TRUE
        BY Sizes
      <3> QED BY <3>2, <3>3, <3>4, OnlyAddShows
    <2>4. screen'[q][o] = screen[q][o] /\ (o \in view[q] => o \in view'[q])
      BY <1>9, <2>3 DEF Attack, TypeOK
    <2>5. o \in Players /\ q \in view[o] => q \in view'[o]
      BY <1>9, <2>1 DEF Attack
    <2> QED BY <1>2, <2>2, <2>4, <2>5 DEF Listed
  <1>10. ASSUME NEW n \in NPCs, NEW c \in Cells, NPCMove(n, c)
         PROVE  Allowed
    <2>1. Playing(q) /\ q \in Linked
      BY <1>10 DEF NPCMove, Playing, InWorld, Linked
    <2>2. \A x \in Players, y \in Objects : y # n => (y \in view[x] <=> y \in view'[x])
      BY <1>10 DEF NPCMove
    <2>3. CASE o = n
      <3>1. o \notin Players
        BY <2>3
      <3>2. q \in NearbyPlayers(c) => ~CanSee(c, pos[q])
        BY <1>10, <2>3 DEF NPCMove
      <3>3. CASE q \in NearbyPlayers(c)
        <4>1. screen'[q][o] = IF n \in view[q] THEN Absent ELSE screen[q][o]
          BY <1>10, <2>1, <2>3, <3>2, <3>3 DEF NPCMove
        <4>2. n \notin view[q] /\ screen'[q][o] = screen[q][o]
          BY <4>1, LooksApart
        <4> QED BY <1>2, <2>1, <2>3, <3>1, <4>2 DEF Listed
      <3>4. CASE q \notin NearbyPlayers(c)
        <4>1. screen'[q][o] = screen[q][o] /\ view'[q] = view[q]
          BY <1>10, <3>4 DEF NPCMove
        <4> QED BY <1>2, <2>1, <3>1, <4>1 DEF Listed
      <3> QED BY <3>3, <3>4
    <2>4. CASE o # n
      <3>1. screen'[q][o] = screen[q][o]
        BY <1>10, <2>4 DEF NPCMove
      <3>2. q # n
        OBVIOUS
      <3> QED BY <1>2, <2>1, <2>2, <2>4, <3>1, <3>2 DEF Listed
    <2> QED BY <2>3, <2>4
  <1>11. CASE UNCHANGED vars
    <2>1. UNCHANGED <<life, view, screen, open, leaving>>
      BY <1>11 DEF vars, objectVars
    <2> QED BY <1>2, <2>1 DEF Playing, InWorld, Linked, Listed
  <1>12. ASSUME NEW p \in Players, Respawn(p)
         PROVE  Allowed
    BY <1>12
  <1>13. ASSUME NEW n \in NPCs, NPCRespawn(n)
         PROVE  Allowed
    BY <1>13
  <1> HIDE DEF Allowed
  <1> QED BY <1>3, <1>4, <1>5, <1>6, <1>7, <1>8, <1>9, <1>10, <1>11, <1>12, <1>13, Zenon DEF Next

-----------------------------------------------------------------------------
(* The theorems *)

\* At the start nobody is in the game, so nobody is listed or shown.
LEMMA WorldStart == Init => ListInv /\ InSightListed /\ BothShown
  <1> SUFFICES ASSUME Init
               PROVE  ListInv /\ InSightListed /\ BothShown
    OBVIOUS
  <1>0. Nowhere \in Cells /\ MaxDue \in Nat /\ Players \cap NPCs = {} /\ Home \in [NPCs -> Cells]
    BY Sizes, Map, Apart DEF Nowhere
  <1>1. \A p \in Players : ~InWorld(p) /\ view[p] = {}
    BY <1>0 DEF Init, InWorld, Objects
  <1>2. Blank \in [Objects -> Looks] /\ \A o \in Objects : Blank[o] \in Unshown
    BY LooksApart DEF Blank
  <1>3. TypeOK
    BY <1>0, <1>2 DEF Init, TypeOK, Objects
  <1>4. DeadIsDue
    BY <1>0 DEF Init, DeadIsDue, Objects
  <1>5. NobodyShown
    BY <1>2, NoneIsBlank DEF Init, NobodyShown, Blank
  <1>6. Owned /\ OutEmpty /\ ListedNPCs
    BY <1>1 DEF Owned, OutEmpty, ListedNPCs
  <1>7. InSightListed /\ BothShown
    BY <1>1 DEF InSightListed, BothShown, Playing
  <1> QED BY <1>3, <1>4, <1>5, <1>6, <1>7 DEF ListInv

\* The part of the invariant about the lists and types.
LEMMA ListInvStep == ListInv /\ [Next]_vars => ListInv'
  BY TypeStep, OwnersStep, ListedNPCsStep, NobodyShownStep DEF ListInv

\* The lists, the table of objects and the screens are consistent
\* (Player.cpp:90-139, NPC.cpp:421-468, Session.cpp:349-361).
THEOREM ListsConsistent == Spec => []ListInv
  <1>1. Init => ListInv
    BY WorldStart
  <1> QED BY <1>1, ListInvStep, PTL DEF Spec

\* A player lists whatever is in sight, or is listed by it, in any world and
\* however the sectors cut it (SectorManager.cpp:86-136, Player.cpp:90-139).
THEOREM InSightIsListed == Spec => []InSightListed
  <1> DEFINE Inv == ListInv /\ InSightListed
  <1>1. Init => Inv
    BY WorldStart
  <1>2. Inv /\ [Next]_vars => Inv'
    BY ListInvStep, InSightListedStep
  <1>3. Inv => InSightListed
    OBVIOUS
  <1> QED BY <1>1, <1>2, <1>3, PTL DEF Spec

\* Whoever each of two players, or a player of an NPC, lists and sees is on its
\* screen, where it stands (Player.cpp:94-139, NPC.cpp:432-465).
THEOREM MutualIsShown == Spec => []MutualShown
  <1> DEFINE Inv == ListInv /\ BothShown
  <1>1. Init => Inv
    BY WorldStart
  <1>2. Inv /\ [Next]_vars => Inv'
    BY ListInvStep, BothShownStep
  <1>3. Inv => MutualShown
    BY DEF BothShown, MutualShown
  <1> QED BY <1>1, <1>2, <1>3, PTL DEF Spec

\* No login, logout, step, death or message leaves an object on a screen that
\* nobody will take off; a respawn may (Player.cpp:264, NPC.cpp:286-298).
THEOREM StraysOnlyFromRespawns == Spec => StraysComeFromRespawns
  <1> DEFINE A == \A p \in Players, o \in Objects :
                    ~Stray(p, o) /\ Stray(p, o)' =>
                      (\E q \in Players : Respawn(q)) \/ (\E n \in NPCs : NPCRespawn(n))
  <1>1. ListInv /\ [Next]_vars => A
    BY StraysStep
  <1>2. Spec => []ListInv
    BY ListsConsistent
  <1>3. Spec => [][A]_vars
    BY <1>1, <1>2, PTL DEF Spec
  <1> QED BY <1>3 DEF StraysComeFromRespawns
=============================================================================
