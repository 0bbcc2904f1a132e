--------------------------------- MODULE Client ---------------------------------
(***************************************************************************)
(* World together with the packets that its events send and with the       *)
(* client program (client.cpp) at the other end of each connection.  The   *)
(* packets of a connection arrive in the order of DoSend (Outbox), some    *)
(* time later: a client acts on what it shows, which may lag behind.       *)
(*                                                                         *)
(* World says what a client shows when it has handled everything that was  *)
(* sent to it.  Here the packets are sent one by one, in the order of the  *)
(* code, and the clients handle them one by one, in between whatever the   *)
(* server does: ClientCatchesUp says that the two agree.                   *)
(*                                                                         *)
(* Hit points, experience and the packets that only change them or a       *)
(* sprite for a moment are left out, as are drawing and text input.        *)
(***************************************************************************)
EXTENDS World, SequencesExt

CONSTANTS
    Start,      \* where client_initialize puts the avatar
    MaxEvents,  \* bound: events of the server in a run
    MaxBehind   \* bound: packets a client may have before it when more are sent

ASSUME Beginning == Start \in Cells
ASSUME Bounds == MaxEvents \in Nat /\ MaxBehind \in Nat
ASSUME Finitely == IsFiniteSet(Objects)

VARIABLES
    channel,    \* packets under way to the client of an id
    asked,      \* the request of a player that the server has not handled yet
    players,    \* what each client shows of the others
    avatar,     \* each client's own OBJECT, and the id that it takes for its own
    events      \* events so far

programVars == <<players, avatar>>
allVars == <<vars, channel, asked, programVars, events>>

Packets ==
    [type : {"add", "move"}, id : Objects, at : Cells]
    \cup [type : {"avatar"}, id : Players, at : Cells]
    \cup [type : {"remove", "chat", "attack", "die", "status"}, id : Objects, at : {None}]

Add(o, c) == [type |-> "add", id |-> o, at |-> c]
MoveTo(o, c) == [type |-> "move", id |-> o, at |-> c]
About(type, o) == [type |-> type, id |-> o, at |-> None]

Requests == [kind : {"move"}, to : Free]
            \cup [kind : {"chat", "attack"}, to : {None}]
NoRequest == [kind |-> "none", to |-> None]

\* The client shows an object that is dying at a place.
DyingAt(c) == [look |-> "dying", at |-> c]
ClientLooks == {Absent, Hidden} \cup {Shown(c) : c \in Cells} \cup {DyingAt(c) : c \in Cells}

\* `id' is g_myid, `at' is m_x and m_y, and `dead' is m_isDead.  `mistaken' is a
\* history that only a property reads: the client took the death of Zero for its
\* own, before it knew its id, and has had no STATUS_CHANGE since.
Avatars == [id : Players, at : Cells, dead : BOOLEAN, mistaken : BOOLEAN]

\* As the program starts it.
Unnamed == [id |-> Zero, at |-> Start, dead |-> FALSE, mistaken |-> FALSE]

ClientTypeOK ==
    /\ TypeOK
    /\ channel \in [Players -> Seq(Packets)]
    /\ asked \in [Players -> Requests \cup {NoRequest}]
    /\ players \in [Players -> [Objects -> ClientLooks]]
    /\ avatar \in [Players -> Avatars]
    /\ events \in 0..MaxEvents

ClientInit ==
    /\ Init
    /\ channel = [p \in Players |-> << >>]
    /\ asked = [p \in Players |-> NoRequest]
    /\ players = [p \in Players |-> Blank]
    /\ avatar = [p \in Players |-> Unnamed]
    /\ events = 0

-----------------------------------------------------------------------------
(* Packets *)

One(cond, packet) == IF cond THEN <<packet>> ELSE << >>

\* An unordered_set is gone through in any order; the packets are about
\* different objects.
ForEach(set, Packet(_)) == LET s == SetToSeq(set) IN [k \in DOMAIN s |-> Packet(s[k])]

\* What UpdateViewList of p, at c, sends q.
ViewPackets(p, c, old, new, q) ==
    IF q = p
    THEN IF p \in Linked
         THEN ForEach(new \ old, LAMBDA o : Add(o, pos[o]))
              \o ForEach(old \ new, LAMBDA o : About("remove", o))
         ELSE << >>
    ELSE One(q \in (new \ old) \cap Linked, Add(p, c))
         \o One(q \in (old \ new) \cap open, About("remove", p))

\* The logic thread goes on when no client is too far behind.
Goes == \A q \in Players : Len(channel[q]) <= MaxBehind

\* An event that is counted, and one that only an end of a session or a death
\* that was counted, or the first login, lets happen.
Event == Goes /\ events < MaxEvents /\ events' = events + 1
Sequel == Goes /\ UNCHANGED events

\* An event that sends q the packets sent[q].
Send(sent) == channel' = [q \in Players |-> channel[q] \o sent[q]]
SendsNothing == UNCHANGED channel

-----------------------------------------------------------------------------
(* The server's events *)

AcceptClient(p) ==
    /\ Sequel
    /\ Accept(p)
    /\ UNCHANGED <<channel, asked, programVars>>

\* The window is closed, or the server ends the session.  What is under way is
\* lost, but a request that the server has read stays in its queue.
EndClient(p) ==
    /\ Event
    /\ Disconnect(p)
    /\ channel' = [channel EXCEPT ![p] = << >>]
    /\ players' = [players EXCEPT ![p] = Blank]
    /\ avatar' = [avatar EXCEPT ![p] = Unnamed]
    /\ UNCHANGED asked

LoginEvent(p, c) ==
    /\ Sequel
    /\ Login(p, c)
    /\ Send([q \in Players |->
              One(q = p, [About("avatar", p) EXCEPT !.at = c])
              \o ViewPackets(p, c, {}, Sight(p, c), q)])
    /\ UNCHANGED <<asked, programVars>>

LogoutEvent(p) ==
    /\ Sequel
    /\ Logout(p)
    /\ Send([q \in Players |-> ViewPackets(p, pos[p], view[p], {}, q)])
    /\ asked' = [asked EXCEPT ![p] = NoRequest]
    /\ UNCHANGED programVars

\* The session has its Player, and the request is of this kind.
Handles(p, kind) ==
    /\ Event
    /\ InWorld(p)
    /\ asked[p].kind = kind
    /\ asked' = [asked EXCEPT ![p] = NoRequest]
    /\ UNCHANGED programVars

MoveEvent(p) ==
    /\ Handles(p, "move")
    /\ LET c == asked[p].to
       IN  Move(p, c) /\ Send([q \in Players |->
                                ViewPackets(p, c, view[p], Sight(p, c), q)
                                \o One(q \in Linked /\ q = p, MoveTo(p, c))
                                \o One(q \in Sight(p, c) \cap open, MoveTo(p, c))])

\* The cell is blocked or too far: the client is told where it is.
SyncEvent(p) ==
    /\ Handles(p, "move")
    /\ asked[p].to \notin Free \/ ~Within(pos[p], asked[p].to, 1)
    /\ Send([q \in Players |-> One(q \in Linked /\ q = p, MoveTo(p, pos[p]))])
    /\ UNCHANGED vars

\* The step comes within 500 ms of the last one.
TooSoon(p) ==
    /\ Handles(p, "move")
    /\ UNCHANGED <<vars, channel>>

ChatEvent(p) ==
    /\ Handles(p, "chat")
    /\ IF life[p] = "inGame"
       THEN /\ Chat(p)
            /\ Send([q \in Players |->
                      One(q \in Linked /\ (q = p \/ (q \in view[p] /\ InWorld(q))),
                          About("chat", p))])
       ELSE UNCHANGED <<vars, channel>>

\* DIE_OBJECT of the NPCs it kills, and STATUS_CHANGE with each.
AttackEvent(p, killed) ==
    /\ Handles(p, "attack")
    /\ Attack(p, killed)
    /\ Send([q \in Players |->
              One(q = p /\ p \in Linked, About("attack", p))
              \o One(q \in view[p] \cap open, About("attack", p))
              \o ForEach({n \in killed : q \in NearbyPlayers(pos[n]) \cap Linked},
                         LAMBDA n : About("die", n))
              \o One(q = p /\ p \in Linked /\ killed # {}, About("status", p))])

DieEvent(p) ==
    /\ Event
    /\ Die(p)
    /\ Send([q \in Players |->
              IF q = p
              THEN One(p \in Linked, About("status", p)) \o One(p \in Linked, About("die", p))
              ELSE One(q \in view[p] \cap open, About("die", p))])
    /\ UNCHANGED <<asked, programVars>>

\* OnDamaged with hit points left, or Heal.
StatusEvent(p) ==
    /\ Event
    /\ life[p] = "inGame"
    /\ Send([q \in Players |-> One(q = p /\ p \in Linked, About("status", p))])
    /\ UNCHANGED <<vars, asked, programVars>>

\* Fault: the player is not sent its status.
RespawnEventSilent(p) ==
    /\ Sequel
    /\ Respawn(p)
    /\ Send([q \in Players |->
              ViewPackets(p, origin[p], {}, Sight(p, origin[p]), q)
              \o One(q = p /\ p \in Linked, Add(p, origin[p]))])
    /\ UNCHANGED <<asked, programVars>>

RespawnEvent(p) ==
    /\ Sequel
    /\ Respawn(p)
    /\ Send([q \in Players |->
              ViewPackets(p, origin[p], {}, Sight(p, origin[p]), q)
              \o One(q = p /\ p \in Linked, About("status", p))
              \o One(q = p /\ p \in Linked, Add(p, origin[p]))])
    /\ UNCHANGED <<asked, programVars>>

DropRespawnEvent(p) ==
    /\ Sequel
    /\ DropRespawn(p)
    /\ UNCHANGED <<channel, asked, programVars>>

NPCMoveEvent(n, c) ==
    /\ Event
    /\ NPCMove(n, c)
    /\ Send([q \in Players |->
              IF q \notin NearbyPlayers(c) \cap Linked THEN << >>
              ELSE IF CanSee(c, pos[q])
              THEN <<IF n \in view[q] THEN MoveTo(n, c) ELSE Add(n, c)>>
              ELSE One(n \in view[q], About("remove", n))])
    /\ UNCHANGED <<asked, programVars>>

NPCRespawnEvent(n) ==
    /\ Sequel
    /\ NPCRespawn(n)
    /\ Send([q \in Players |->
              One(q \in NearbyPlayers(origin[n]) \cap Linked /\ CanSee(origin[n], pos[q]),
                  Add(n, origin[n]))])
    /\ UNCHANGED <<asked, programVars>>

-----------------------------------------------------------------------------
(* The client program.  A state of it is what it shows of the others, and    *)
(* its avatar.                                                               *)

State(p) == [others |-> players[p], avatar |-> avatar[p]]

\* AVATAR_INFO, or a packet about the id that the client takes for its own.
\* `own' is the id that the server has for it, which only the history depends
\* on.  The rest changes no more than how the avatar is drawn.
ToAvatar(own, a, k) ==
    CASE k.type = "avatar" -> [a EXCEPT !.id = k.id, !.at = k.at]
      [] k.type \in {"add", "move"} -> [a EXCEPT !.at = k.at]
      [] k.type = "die" -> [a EXCEPT !.dead = TRUE, !.mistaken = @ \/ k.id # own]
      [] k.type = "status" -> [a EXCEPT !.dead = FALSE, !.mistaken = FALSE]
      [] OTHER -> a

\* A packet about another id, whose OBJECT looks like l.
ToOther(l, k) ==
    CASE k.type = "add" -> Shown(k.at)
      [] k.type = "move" -> IF l \in {Absent, Hidden} THEN Hidden ELSE Shown(k.at)
      [] k.type = "remove" -> Absent
      [] k.type = "chat" -> IF l = Absent THEN Hidden ELSE l
      [] k.type = "attack" -> IF l.look = "dying" THEN Shown(l.at) ELSE l
      [] k.type = "die" -> IF l.look = "shown" THEN DyingAt(l.at) ELSE l
      [] k.type = "status" -> l

\* ProcessPacket.
Processed(own, s, k) ==
    IF k.type = "avatar" \/ k.id = s.avatar.id
    THEN [s EXCEPT !.avatar = ToAvatar(own, @, k)]
    ELSE [s EXCEPT !.others[k.id] = ToOther(@, k)]

Becomes(p, s) ==
    /\ players' = [players EXCEPT ![p] = s.others]
    /\ avatar' = [avatar EXCEPT ![p] = s.avatar]

\* process_data hands on the next packet.
Receive(p) ==
    /\ channel[p] # << >>
    /\ Becomes(p, Processed(p, State(p), Head(channel[p])))
    /\ channel' = [channel EXCEPT ![p] = Tail(@)]
    /\ UNCHANGED <<vars, asked, events>>

\* client_main erases an object whose death animation has ended.
Erase(p, o) ==
    /\ players[p][o].look = "dying"
    /\ players' = [players EXCEPT ![p][o] = Absent]
    /\ UNCHANGED <<vars, channel, asked, avatar, events>>

\* Fault: any step is sent.
PressUnblocked(p) ==
    /\ Playing(p)
    /\ asked[p] = NoRequest
    /\ events < MaxEvents
    /\ \E d \in {-1, 1} :
         asked' = [asked EXCEPT ![p] =
                     [kind |-> "move", to |-> [x |-> avatar[p].at.x + d, y |-> avatar[p].at.y]]]
    /\ UNCHANGED <<vars, channel, programVars, events>>

\* Keys: a step to a cell that IsBlocked lets pass, an attack, unless the
\* client takes itself for dead; chat at any time.  The server takes them only
\* from a session with a Player.
Press(p) ==
    /\ Playing(p)
    /\ asked[p] = NoRequest
    /\ events < MaxEvents
    /\ \/ /\ ~avatar[p].dead
          /\ \E c \in Free :
               /\ LET at == avatar[p].at
                  IN  Within(at, c, 1) /\ (c.x = at.x) # (c.y = at.y)
               /\ asked' = [asked EXCEPT ![p] = [kind |-> "move", to |-> c]]
       \/ /\ ~avatar[p].dead
          /\ asked' = [asked EXCEPT ![p] = [kind |-> "attack", to |-> None]]
       \/ asked' = [asked EXCEPT ![p] = [kind |-> "chat", to |-> None]]
    /\ UNCHANGED <<vars, channel, programVars, events>>

-----------------------------------------------------------------------------
ClientNext ==
    \/ \E p \in Players :
         \/ AcceptClient(p) \/ EndClient(p) \/ LogoutEvent(p)
         \/ \E c \in Saved : LoginEvent(p, c)
         \/ MoveEvent(p) \/ SyncEvent(p) \/ TooSoon(p) \/ ChatEvent(p)
         \/ \E killed \in SUBSET NPCs : AttackEvent(p, killed)
         \/ DieEvent(p) \/ StatusEvent(p) \/ RespawnEvent(p) \/ DropRespawnEvent(p)
         \/ Receive(p) \/ Press(p)
         \/ \E o \in Objects : Erase(p, o)
    \/ \E n \in NPCs :
         \/ \E c \in Cells : NPCMoveEvent(n, c)
         \/ NPCRespawnEvent(n)

ClientSpec == ClientInit /\ [][ClientNext]_allVars

-----------------------------------------------------------------------------
(* Properties *)

\* Where the client with the id `own', now at s, is when it has handled q.
Handled(own, s, q) ==
    LET After[k \in 0..Len(q)] ==
          IF k = 0 THEN s ELSE Processed(own, After[k - 1], q[k])
    IN  After[Len(q)]

\* Where a client will be when it has handled all that is under way.
CaughtUp(p) == Handled(p, State(p), channel[p])

\* However far a client lags, the packets under way will make it show what
\* World says, know its id, show itself where the server has its own player,
\* and not take itself for dead, which would keep its user from doing anything,
\* while the server has it in the game: no packet is missing, and none comes
\* out of order.  An object told to die may be gone or, after a late packet, be
\* back.  What is left out is a client that was told of the death of Zero before
\* its own AVATAR_INFO: g_myid is 0 then, and AVATAR_INFO revives nobody
\* (client.cpp:77, 691-887, Player.cpp:38-139, 194-278).
ClientCatchesUp ==
    \A p \in Players :
      LET s == CaughtUp(p)
          a == s.avatar
      IN  /\ Playing(p) => /\ a.id = p /\ a.at = pos[p]
                           /\ a.dead => life[p] = "dead" \/ a.mistaken
          /\ \A o \in Objects : screen[p][o] \in {s.others[o], Dying}
=============================================================================
