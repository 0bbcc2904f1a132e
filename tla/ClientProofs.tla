----------------------------- MODULE ClientProofs -----------------------------
(***************************************************************************)
(* Proofs about Client for any world, any players and NPCs, and clients    *)
(* that lag however far behind.                                            *)
(***************************************************************************)
EXTENDS Client, WorldProofs, FiniteSetTheorems, TLAPS

-----------------------------------------------------------------------------
(* Induction *)

\* A set of numbers that is not empty has a least one.
LEMMA LeastNumber ==
    ASSUME NEW T, T \subseteq Nat, T # {}
    PROVE  \E x \in T : \A y \in T : x <= y
  <1>1. PICK x \in T : \A y \in T : ~ (<<y, x>> \in OpToRel(<, Nat))
    BY NatLessThanWellFounded, WFMin
  <1>2. ASSUME NEW y \in T
        PROVE  x <= y
    <2>1. ~(<<y, x>>[1] < <<y, x>>[2])
      BY <1>1 DEF OpToRel
    <2> QED
      BY <2>1
  <1> QED
    BY <1>2

\* Induction up to n, with the claim as a set.
LEMMA UpTo ==
    ASSUME NEW n \in Nat, NEW S, 0 \in S, \A k \in 1..n : k - 1 \in S => k \in S
    PROVE  0..n \subseteq S
  <1> DEFINE T == (0..n) \ S
  <1> SUFFICES ASSUME T # {}
               PROVE  FALSE
    OBVIOUS
  <1>0. T \subseteq Nat
    OBVIOUS
  <1> HIDE DEF T
  <1>1. PICK x \in T : \A y \in T : x <= y
    BY <1>0, LeastNumber
  <1> USE DEF T
  <1>2. x \in 1..n /\ x - 1 \in 0..n /\ x - 1 \notin T
    BY <1>1
  <1> QED
    BY <1>1, <1>2

-----------------------------------------------------------------------------
(* The client program *)

ClientStates == [others : [Objects -> ClientLooks], avatar : Avatars]

\* What an object may look like on a client.
LEMMA ClientLooksApart ==
    /\ \A c \in Cells : /\ Shown(c) \in ClientLooks /\ Shown(c).look = "shown" /\ Shown(c).at = c
                        /\ DyingAt(c) \in ClientLooks /\ DyingAt(c).look = "dying" /\ DyingAt(c).at = c
    /\ Absent \in ClientLooks /\ Absent.look = "absent"
    /\ Hidden \in ClientLooks /\ Hidden.look = "hidden"
    /\ \A l \in ClientLooks :
         \/ l = Absent \/ l = Hidden
         \/ l.look \in {"shown", "dying"} /\ l.at \in Cells
    /\ Dying \notin ClientLooks
  <1>1. /\ \A c \in Cells : /\ Shown(c) \in ClientLooks /\ Shown(c).look = "shown" /\ Shown(c).at = c
                            /\ DyingAt(c) \in ClientLooks /\ DyingAt(c).look = "dying"
                            /\ DyingAt(c).at = c
        /\ Absent \in ClientLooks /\ Absent.look = "absent"
        /\ Hidden \in ClientLooks /\ Hidden.look = "hidden"
    BY DEF ClientLooks, Shown, DyingAt, Absent, Hidden
  <1>2. ASSUME NEW l \in ClientLooks
        PROVE  \/ l = Absent \/ l = Hidden
               \/ l.look \in {"shown", "dying"} /\ l.at \in Cells
    BY <1>1, <1>2 DEF ClientLooks
  <1>3. Dying.look = "dying" /\ Dying.at = None /\ None \notin Cells
    BY Apart DEF Dying
  <1> QED
    BY <1>1, <1>2, <1>3

\* A packet about the avatar makes an avatar of it, with the same id unless it
\* is AVATAR_INFO ...
LEMMA AvatarTypes ==
    ASSUME NEW own, NEW a \in Avatars, NEW k \in Packets
    PROVE  /\ ToAvatar(own, a, k) \in Avatars
           /\ k.type # "avatar" => ToAvatar(own, a, k).id = a.id
  <1>1. /\ k.type \in {"add", "move"} => k.at \in Cells
        /\ k.type = "avatar" => k.id \in Players /\ k.at \in Cells
    BY DEF Packets
  <1>2. CASE k.type = "avatar"
    BY <1>1, <1>2 DEF ToAvatar, Avatars
  <1>3. CASE k.type \in {"add", "move"}
    BY <1>1, <1>3 DEF ToAvatar, Avatars
  <1>4. CASE k.type \in {"die", "status"}
    BY <1>4 DEF ToAvatar, Avatars
  <1>5. CASE k.type \notin {"avatar", "add", "move", "die", "status"}
    <2>1. ToAvatar(own, a, k) = a
      BY <1>5 DEF ToAvatar
    <2> QED
      BY <2>1
  <1> QED
    BY <1>2, <1>3, <1>4, <1>5

\* ... and a packet about another object a look of its look.
LEMMA LookTypes ==
    ASSUME NEW l \in ClientLooks, NEW k \in Packets, k.type # "avatar"
    PROVE  ToOther(l, k) \in ClientLooks
  <1>1. /\ k.type \in {"add", "move", "remove", "chat", "attack", "die", "status"}
        /\ k.type \in {"add", "move"} => k.at \in Cells
    BY DEF Packets
  <1>2. /\ \A c \in Cells : Shown(c) \in ClientLooks /\ DyingAt(c) \in ClientLooks
        /\ Absent \in ClientLooks /\ Hidden \in ClientLooks
        /\ l.look \in {"shown", "dying"} => l.at \in Cells
    BY ClientLooksApart
  <1> QED
    BY <1>1, <1>2 DEF ToOther

\* What a packet does (client.cpp:691-887): to the avatar ...
LEMMA AboutItself ==
    ASSUME NEW own, NEW s \in ClientStates, NEW k \in Packets,
           k.type = "avatar" \/ k.id = s.avatar.id
    PROVE  LET t == Processed(own, s, k)
           IN  t.others = s.others /\ t.avatar = ToAvatar(own, s.avatar, k)
  BY DEF Processed, ClientStates

\* ... or to another object.
LEMMA AboutAnother ==
    ASSUME NEW own, NEW s \in ClientStates, NEW k \in Packets,
           k.type # "avatar", k.id # s.avatar.id
    PROVE  LET t == Processed(own, s, k)
           IN  /\ t.others = [s.others EXCEPT ![k.id] = ToOther(s.others[k.id], k)]
               /\ t.avatar = s.avatar
  BY DEF Processed, ClientStates

\* A packet makes a state of the client a state, and changes nothing of an
\* object that it is not about (client.cpp:691-887).
LEMMA ProcessedTypes ==
    ASSUME NEW own, NEW s \in ClientStates, NEW k \in Packets
    PROVE  /\ Processed(own, s, k) \in ClientStates
           /\ \A o \in Objects \ {k.id} : Processed(own, s, k).others[o] = s.others[o]
  <1>1. k.id \in Objects /\ s.avatar \in Avatars /\ s.others \in [Objects -> ClientLooks]
    BY DEF Packets, ClientStates, Objects
  <1>2. CASE k.type = "avatar" \/ k.id = s.avatar.id
    <2>1. ToAvatar(own, s.avatar, k) \in Avatars
      BY <1>1, AvatarTypes
    <2>2. Processed(own, s, k) = [s EXCEPT !.avatar = ToAvatar(own, s.avatar, k)]
      BY <1>2 DEF Processed
    <2> QED
      BY <2>1, <2>2 DEF ClientStates
  <1>3. CASE k.type # "avatar" /\ k.id # s.avatar.id
    <2>1. ToOther(s.others[k.id], k) \in ClientLooks
      BY <1>1, <1>3, LookTypes
    <2>2. Processed(own, s, k) = [s EXCEPT !.others[k.id] = ToOther(s.others[k.id], k)]
      BY <1>3 DEF Processed
    <2> QED
      BY <1>1, <2>1, <2>2 DEF ClientStates
  <1> QED
    BY <1>2, <1>3

\* A client shows what World says, or the object was told to die there.
Shows(l, look) == look = Dying \/ l = look
Agrees(s, scr) == \A o \in Objects : Shows(s.others[o], scr[o])

\* What a packet about another object does on a client that agrees with World
\* (client.cpp:731-867).
LEMMA AboutOthers ==
    ASSUME NEW own, NEW s \in ClientStates, NEW k \in Packets,
           k.id # s.avatar.id, k.type # "avatar",
           NEW look \in Looks, Shows(s.others[k.id], look)
    PROVE  LET t == Processed(own, s, k)
           IN  /\ t.avatar = s.avatar
               /\ k.type = "add" => Shows(t.others[k.id], Shown(k.at))
               /\ k.type = "move" => Shows(t.others[k.id], AfterMove(look, k.at))
               /\ k.type = "remove" => Shows(t.others[k.id], Absent)
               /\ k.type = "chat" => Shows(t.others[k.id], AfterChat(look))
               /\ k.type = "attack" => Shows(t.others[k.id], look)
               /\ k.type = "die" => Shows(t.others[k.id], AfterDie(look))
  <1> DEFINE l == s.others[k.id]
             t == Processed(own, s, k)
             m == t.others[k.id]
  <1>1. l \in ClientLooks /\ k.id \in Objects
    BY DEF Packets, ClientStates, Objects
  <1>2. t.avatar = s.avatar /\ m = ToOther(l, k)
    <2>1. /\ t.others = [s.others EXCEPT ![k.id] = ToOther(l, k)]
          /\ t.avatar = s.avatar
      BY AboutAnother
    <2>2. s.others \in [Objects -> ClientLooks]
      BY DEF ClientStates
    <2> HIDE DEF t, l
    <2> QED
      BY <1>1, <2>1, <2>2
  <1>3. look = Dying \/ (l = look /\ l.look # "dying" /\ (l = Absent \/ l = Hidden \/ l.look = "shown"))
    BY LooksApart, ClientLooksApart, <1>1 DEF Shows
  <1>4. /\ k.type = "add" => m = Shown(k.at)
        /\ k.type = "move" => m = IF l \in {Absent, Hidden} THEN Hidden ELSE Shown(k.at)
        /\ k.type = "remove" => m = Absent
        /\ k.type = "chat" => m = IF l = Absent THEN Hidden ELSE l
        /\ k.type = "attack" => m = IF l.look = "dying" THEN Shown(l.at) ELSE l
        /\ k.type = "die" => m = IF l.look = "shown" THEN DyingAt(l.at) ELSE l
    BY <1>2 DEF ToOther
  <1>5. /\ AfterMove(Dying, k.at) = Dying /\ AfterChat(Dying) = Dying /\ AfterDie(Dying) = Dying
        /\ Absent.look # "shown" /\ Hidden.look # "shown" /\ Dying # Absent /\ Dying # Hidden
    BY LooksApart DEF AfterMove, AfterChat, AfterDie
  <1> HIDE DEF l, m, t
  <1>6. /\ k.type = "add" => Shows(m, Shown(k.at))
        /\ k.type = "remove" => Shows(m, Absent)
    BY <1>4 DEF Shows
  <1>7. k.type = "move" => Shows(m, AfterMove(look, k.at))
    BY <1>3, <1>4, <1>5 DEF Shows, AfterMove
  <1>8. k.type = "chat" => Shows(m, AfterChat(look))
    BY <1>3, <1>4, <1>5 DEF Shows, AfterChat
  <1>9. k.type = "attack" => Shows(m, look)
    BY <1>3, <1>4 DEF Shows
  <1>10. k.type = "die" => Shows(m, AfterDie(look))
    BY <1>3, <1>4, <1>5 DEF Shows, AfterDie
  <1> QED
    BY <1>2, <1>6, <1>7, <1>8, <1>9, <1>10 DEF t, m

\* A packet that finds nothing to change: about the id that the client takes for
\* its own, but not about a place, a death or a status.
LEMMA AboutNothing ==
    ASSUME NEW own, NEW s \in ClientStates, NEW k \in Packets,
           k.id = s.avatar.id, k.type \in {"remove", "chat", "attack"}
    PROVE  LET t == Processed(own, s, k)
           IN  t.others = s.others /\ t.avatar = s.avatar
  BY AboutItself DEF ToAvatar

-----------------------------------------------------------------------------
(* A client handles packets *)

\* In between, objects that are dying may go (client_main).
MayBecome(l, m) == m = l \/ (l.look = "dying" /\ m = Absent)
MayTurn(s, t) ==
    /\ t.avatar = s.avatar
    /\ \A o \in Objects : MayBecome(s.others[o], t.others[o])

\* The client may come from s to t by the packets of q, whatever goes when: h
\* are its states after each packet.
Story(own, q, s, h) ==
    /\ h \in [0..Len(q) -> ClientStates]
    /\ MayTurn(s, h[0])
    /\ \A k \in 1..Len(q) : MayTurn(Processed(own, h[k - 1], q[k]), h[k])

Leads(own, q, s, t) == \E h : Story(own, q, s, h) /\ h[Len(q)] = t

\* What goes stays away, until a packet.
LEMMA MayTurnOn ==
    ASSUME NEW s, NEW t, NEW u, MayTurn(s, t), MayTurn(t, u)
    PROVE  MayTurn(s, u)
  BY ClientLooksApart DEF MayTurn, MayBecome

\* Nothing that goes is an object that World has.
LEMMA StillAgrees ==
    ASSUME NEW s, NEW t, MayTurn(s, t),
           NEW scr \in [Objects -> Looks], Agrees(s, scr)
    PROVE  Agrees(t, scr)
  <1> SUFFICES ASSUME NEW o \in Objects
               PROVE  Shows(t.others[o], scr[o])
    BY DEF Agrees
  <1>1. Shows(s.others[o], scr[o]) /\ MayBecome(s.others[o], t.others[o])
    BY DEF Agrees, MayTurn
  <1>2. scr[o] = Dying \/ scr[o].look # "dying"
    BY LooksApart
  <1> QED
    BY <1>1, <1>2 DEF Shows, MayBecome

\* No packet: what is dying may go.
LEMMA LeadsByNone ==
    ASSUME NEW own, NEW s, NEW t, Leads(own, << >>, s, t)
    PROVE  t \in ClientStates /\ MayTurn(s, t)
  <1>1. PICK h : Story(own, << >>, s, h) /\ h[Len(<< >>)] = t
    BY DEF Leads
  <1>2. Len(<< >>) = 0
    OBVIOUS
  <1> QED
    BY <1>1, <1>2 DEF Story

\* One packet.
LEMMA LeadsByOne ==
    ASSUME NEW own, NEW k, NEW s, NEW t, Leads(own, <<k>>, s, t)
    PROVE  /\ t \in ClientStates
           /\ \E u \in ClientStates : MayTurn(s, u) /\ MayTurn(Processed(own, u, k), t)
  <1>1. PICK h : Story(own, <<k>>, s, h) /\ h[Len(<<k>>)] = t
    BY DEF Leads
  <1>2. Len(<<k>>) = 1 /\ <<k>>[1] = k /\ 1 - 1 = 0
    OBVIOUS
  <1> QED
    BY <1>1, <1>2 DEF Story

\* Packets one after another: those of a, then those of b.
LEMMA LeadsByBoth ==
    ASSUME NEW own, NEW a \in Seq(Packets), NEW b \in Seq(Packets), NEW s, NEW t,
           Leads(own, a \o b, s, t)
    PROVE  \E u \in ClientStates : Leads(own, a, s, u) /\ Leads(own, b, u, t)
  <1> DEFINE m == Len(a)
             n == Len(b)
  <1>1. /\ m \in Nat /\ n \in Nat /\ Len(a \o b) = m + n
        /\ \A k \in 1..m : (a \o b)[k] = a[k]
        /\ \A k \in 1..n : (a \o b)[m + k] = b[k]
    OBVIOUS
  <1>2. PICK h : Story(own, a \o b, s, h) /\ h[Len(a \o b)] = t
    BY DEF Leads
  <1> HIDE DEF m, n
  <1>3. /\ h \in [0..(m + n) -> ClientStates]
        /\ MayTurn(s, h[0])
        /\ \A k \in 1..(m + n) : MayTurn(Processed(own, h[k - 1], (a \o b)[k]), h[k])
        /\ h[m + n] = t
    BY <1>1, <1>2 DEF Story
  <1> DEFINE f == [k \in 0..m |-> h[k]]
             g == [k \in 0..n |-> h[m + k]]
  <1>4. Leads(own, a, s, h[m])
    <2>1. f \in [0..m -> ClientStates] /\ MayTurn(s, f[0]) /\ f[m] = h[m]
      BY <1>1, <1>3
    <2>2. ASSUME NEW k \in 1..m
          PROVE  MayTurn(Processed(own, f[k - 1], a[k]), f[k])
      <3>1. k \in 1..(m + n) /\ f[k - 1] = h[k - 1] /\ f[k] = h[k] /\ (a \o b)[k] = a[k]
        BY <1>1
      <3> HIDE DEF f
      <3>2. MayTurn(Processed(own, h[k - 1], (a \o b)[k]), h[k])
        BY <1>3, <3>1
      <3> QED
        BY <3>1, <3>2
    <2> HIDE DEF f
    <2> QED
      BY <2>1, <2>2 DEF Leads, Story, m
  <1>5. Leads(own, b, h[m], t)
    <2>1. g \in [0..n -> ClientStates] /\ g[0] = h[m] /\ g[n] = t
      BY <1>1, <1>3
    <2>2. ASSUME NEW k \in 1..n
          PROVE  MayTurn(Processed(own, g[k - 1], b[k]), g[k])
      <3>1. /\ m + k \in 1..(m + n) /\ (m + k) - 1 = m + (k - 1)
            /\ g[k - 1] = h[m + (k - 1)] /\ g[k] = h[m + k] /\ (a \o b)[m + k] = b[k]
        <4>1. /\ m + k \in 1..(m + n) /\ (m + k) - 1 = m + (k - 1)
              /\ k - 1 \in 0..n /\ k \in 0..n
          BY <1>1
        <4>2. g[k - 1] = h[m + (k - 1)] /\ g[k] = h[m + k]
          BY <4>1
        <4> QED
          BY <1>1, <4>1, <4>2
      <3> HIDE DEF g
      <3>2. MayTurn(Processed(own, h[(m + k) - 1], (a \o b)[m + k]), h[m + k])
        BY <1>3, <3>1
      <3> QED
        BY <3>1, <3>2
    <2>3. MayTurn(h[m], g[0])
      BY <2>1 DEF MayTurn, MayBecome
    <2> HIDE DEF g
    <2> QED
      BY <2>1, <2>2, <2>3 DEF Leads, Story, n
  <1> QED
    BY <1>1, <1>3, <1>4, <1>5

\* A client that has handled the first packet is on its way.
LEMMA LeadsOn ==
    ASSUME NEW own, NEW q \in Seq(Packets), q # << >>, NEW s \in ClientStates, NEW t,
           Leads(own, Tail(q), Processed(own, s, Head(q)), t)
    PROVE  Leads(own, q, s, t)
  <1> DEFINE n == Len(Tail(q))
             r == Tail(q)
  <1>1. /\ n \in Nat /\ Len(q) = n + 1 /\ Head(q) = q[1]
        /\ \A k \in 1..n : r[k] = q[k + 1]
    OBVIOUS
  <1>2. PICK h : Story(own, Tail(q), Processed(own, s, Head(q)), h) /\ h[Len(Tail(q))] = t
    BY DEF Leads
  <1>3. /\ h \in [0..n -> ClientStates] /\ h[n] = t
        /\ MayTurn(Processed(own, s, q[1]), h[0])
        /\ \A k \in 1..n : MayTurn(Processed(own, h[k - 1], r[k]), h[k])
    BY <1>1, <1>2 DEF Story
  <1> HIDE DEF n, r
  <1> DEFINE g == [k \in 0..(n + 1) |-> IF k = 0 THEN s ELSE h[k - 1]]
  <1>4. g \in [0..(n + 1) -> ClientStates] /\ g[0] = s /\ g[n + 1] = t
    BY <1>1, <1>3
  <1>5. ASSUME NEW k \in 1..(n + 1)
        PROVE  MayTurn(Processed(own, g[k - 1], q[k]), g[k])
    <2>1. CASE k = 1
      <3>1. g[k - 1] = s /\ g[k] = h[0]
        BY <1>1, <2>1
      <3> QED
        BY <1>3, <2>1, <3>1
    <2>2. CASE k # 1
      <3>1. /\ k - 1 \in 1..n /\ q[k] = r[k - 1]
            /\ g[k - 1] = h[(k - 1) - 1] /\ g[k] = h[k - 1]
        <4>1. k - 1 \in 1..n /\ (k - 1) + 1 = k
          BY <1>1, <2>2
        <4>2. r[k - 1] = q[(k - 1) + 1]
          BY <1>1, <4>1
        <4> QED
          BY <1>1, <2>2, <4>1, <4>2
      <3> HIDE DEF g
      <3>2. MayTurn(Processed(own, h[(k - 1) - 1], r[k - 1]), h[k - 1])
        BY <1>3, <3>1
      <3> QED
        BY <3>1, <3>2
    <2> QED
      BY <2>1, <2>2
  <1>6. MayTurn(s, g[0])
    BY <1>4 DEF MayTurn, MayBecome
  <1> HIDE DEF g
  <1>7. Story(own, q, s, g) /\ g[Len(q)] = t
    BY <1>1, <1>4, <1>5, <1>6 DEF Story
  <1> QED
    BY <1>7 DEF Leads

\* What may go now may go in a moment.
LEMMA LeadsFrom ==
    ASSUME NEW own, NEW q, NEW s, NEW r, NEW t, MayTurn(s, r), Leads(own, q, r, t)
    PROVE  Leads(own, q, s, t)
  <1>1. PICK h : Story(own, q, r, h) /\ h[Len(q)] = t
    BY DEF Leads
  <1>2. Story(own, q, s, h)
    BY <1>1, MayTurnOn DEF Story
  <1> QED
    BY <1>1, <1>2 DEF Leads

\* Where packets lead is a state.
LEMMA LeadsToState ==
    ASSUME NEW own, NEW q \in Seq(Packets), NEW s, NEW t, Leads(own, q, s, t)
    PROVE  t \in ClientStates
  BY DEF Leads, Story

\* What holds before the packets, and is kept by each of them and by what
\* goes, holds after them.  G[k] are the states that it allows after k packets.
LEMMA Along ==
    ASSUME NEW own, NEW q \in Seq(Packets), NEW s \in ClientStates, NEW t, Leads(own, q, s, t),
           NEW G,
           s \in G[0],
           \A k \in 0..Len(q) : \A u \in G[k] : \A v \in ClientStates : MayTurn(u, v) => v \in G[k],
           \A k \in 1..Len(q) : \A u \in G[k - 1] \cap ClientStates :
             Processed(own, u, q[k]) \in G[k]
    PROVE  t \in G[Len(q)]
  <1>1. PICK h : Story(own, q, s, h) /\ h[Len(q)] = t
    BY DEF Leads
  <1> DEFINE n == Len(q)
             S == {k \in 0..n : h[k] \in G[k]}
  <1>2. n \in Nat
    OBVIOUS
  <1>3. /\ h \in [0..n -> ClientStates] /\ MayTurn(s, h[0])
        /\ \A k \in 1..n : MayTurn(Processed(own, h[k - 1], q[k]), h[k])
    BY <1>1 DEF Story
  <1> HIDE DEF n
  <1>4. 0 \in S
    BY <1>2, <1>3 DEF n
  <1>5. ASSUME NEW k \in 1..n, k - 1 \in S
        PROVE  k \in S
    <2>1. k \in 0..n /\ k - 1 \in 0..n /\ h[k - 1] \in G[k - 1] /\ h[k - 1] \in ClientStates
      BY <1>2, <1>3, <1>5
    <2>2. Processed(own, h[k - 1], q[k]) \in G[k]
      BY <2>1 DEF n
    <2>3. h[k] \in G[k]
      BY <1>3, <2>1, <2>2 DEF n
    <2> QED
      BY <2>1, <2>3
  <1> HIDE DEF S
  <1>6. 0..n \subseteq S
    BY <1>2, <1>4, <1>5, UpTo
  <1> QED
    BY <1>1, <1>2, <1>6 DEF n, S

\* A packet that takes `look' to `next' on a client that agrees with World and
\* takes the id for its own, and changes nothing of its avatar.
Tells(own, id, k, look, next) ==
    \A u \in ClientStates :
      u.avatar.id = id /\ Shows(u.others[k.id], look) =>
        LET v == Processed(own, u, k)
        IN  v.avatar = u.avatar /\ Shows(v.others[k.id], next)

\* Packets about different objects, which take the screen from old to new.
TellEach(own, id, q, old, new) ==
    /\ q \in Seq(Packets)
    /\ old \in [Objects -> Looks] /\ new \in [Objects -> Looks]
    /\ \A i, j \in DOMAIN q : q[i].id = q[j].id => i = j
    /\ \A o \in Objects : (\A i \in DOMAIN q : q[i].id # o) => new[o] = old[o]
    /\ \A i \in DOMAIN q : Tells(own, id, q[i], old[q[i].id], new[q[i].id])

\* They do so on a client that agrees with the old one.
LEMMA LeadsByEach ==
    ASSUME NEW own, NEW id, NEW q, NEW old, NEW new, TellEach(own, id, q, old, new),
           NEW s \in ClientStates, NEW t, Leads(own, q, s, t), Agrees(s, old), s.avatar.id = id
    PROVE  t \in ClientStates /\ t.avatar = s.avatar /\ Agrees(t, new)
  <1> DEFINE n == Len(q)
             Told(k) == {q[i].id : i \in 1..k}
             Scr(k) == [o \in Objects |-> IF o \in Told(k) THEN new[o] ELSE old[o]]
             Right(k) == {u \in ClientStates : /\ u.avatar = s.avatar
                                               /\ Agrees(u, Scr(k))}
             G == [k \in 0..n |-> Right(k)]
  <1>0. /\ q \in Seq(Packets)
        /\ old \in [Objects -> Looks] /\ new \in [Objects -> Looks]
        /\ \A i, j \in DOMAIN q : q[i].id = q[j].id => i = j
        /\ \A o \in Objects : (\A i \in DOMAIN q : q[i].id # o) => new[o] = old[o]
        /\ \A i \in DOMAIN q : Tells(own, id, q[i], old[q[i].id], new[q[i].id])
    BY DEF TellEach
  <1>1. n \in Nat /\ DOMAIN q = 1..n /\ \A i \in 1..n : q[i] \in Packets /\ q[i].id \in Objects
    <2>1. \A i \in 1..Len(q) : q[i] \in Packets
      BY <1>0
    <2>2. \A k \in Packets : k.id \in Objects
      BY DEF Packets, Objects
    <2> QED
      BY <2>1, <2>2
  <1>2. \A k : Scr(k) \in [Objects -> Looks]
    BY <1>0
  <1>3. s \in G[0]
    <2>1. Told(0) = {}
      OBVIOUS
    <2>2. Agrees(s, Scr(0))
      BY <2>1 DEF Agrees
    <2> QED
      BY <1>1, <2>2
  <1>4. ASSUME NEW k \in 0..n, NEW u \in G[k], NEW v \in ClientStates, MayTurn(u, v)
        PROVE  v \in G[k]
    <2>1. u.avatar = s.avatar /\ Agrees(u, Scr(k))
      OBVIOUS
    <2>2. v.avatar = s.avatar
      BY <1>4, <2>1 DEF MayTurn
    <2>3. Agrees(v, Scr(k))
      <3> HIDE DEF Scr
      <3> QED
        BY <1>2, <1>4, <2>1, StillAgrees
    <2> QED
      BY <2>2, <2>3
  <1>5. ASSUME NEW k \in 1..n, NEW u \in G[k - 1] \cap ClientStates
        PROVE  Processed(own, u, q[k]) \in G[k]
    <2> DEFINE v == Processed(own, u, q[k])
               x == q[k].id
    <2>1. k - 1 \in 0..n /\ k \in 0..n
      BY <1>1
    <2>2. u \in ClientStates /\ u.avatar = s.avatar /\ Agrees(u, Scr(k - 1))
      BY <2>1
    <2>3. v \in ClientStates /\ \A o \in Objects \ {x} : v.others[o] = u.others[o]
      BY <1>1, ProcessedTypes
    <2>4. x \notin Told(k - 1) /\ Told(k) = Told(k - 1) \cup {x} /\ x \in Objects
      <3>1. \A i \in 1..(k - 1) : i \in DOMAIN q /\ k \in DOMAIN q /\ i # k
        BY <1>1
      <3>2. 1..k = 1..(k - 1) \cup {k}
        BY <1>1
      <3>3. x \notin Told(k - 1)
        BY <1>0, <3>1
      <3>4. Told(k) = Told(k - 1) \cup {x}
        BY <3>2
      <3> QED
        BY <1>1, <3>3, <3>4
    <2>5. Shows(u.others[x], old[x])
      <3>1. Scr(k - 1)[x] = old[x]
        BY <2>4
      <3> HIDE DEF Scr
      <3> QED
        BY <2>2, <2>4, <3>1 DEF Agrees
    <2>6. v.avatar = u.avatar /\ Shows(v.others[x], new[x])
      BY <1>0, <1>1, <2>2, <2>5 DEF Tells
    <2>7. ASSUME NEW o \in Objects
          PROVE  Shows(v.others[o], Scr(k)[o])
      <3>1. CASE o = x
        <4>1. Scr(k)[o] = new[x]
          BY <2>4, <3>1
        <4> HIDE DEF Scr, v
        <4> QED
          BY <2>6, <3>1, <4>1
      <3>2. CASE o # x
        <4>1. Scr(k)[o] = Scr(k - 1)[o]
          BY <2>4, <3>2
        <4> HIDE DEF Scr, v
        <4> QED
          BY <2>2, <2>3, <3>2, <4>1 DEF Agrees
      <3> QED
        BY <3>1, <3>2
    <2> HIDE DEF v, Scr
    <2>8. v \in Right(k)
      BY <2>2, <2>3, <2>6, <2>7 DEF Agrees
    <2> QED
      BY <2>1, <2>8 DEF v
  <1>6. t \in G[n]
    <2> HIDE DEF G
    <2> QED
      BY <1>0, <1>3, <1>4, <1>5, Along
  <1>7. \A o \in Objects : Scr(n)[o] = new[o]
    BY <1>0, <1>1
  <1>8. t \in Right(n)
    BY <1>1, <1>6
  <1> HIDE DEF Scr
  <1> QED
    BY <1>7, <1>8 DEF Agrees

-----------------------------------------------------------------------------
(* What an event sends *)

\* SetToSeq lists a set of objects, each once.
LEMMA Listing ==
    ASSUME NEW S, S \subseteq Objects, NEW e, e = SetToSeq(S)
    PROVE  \E n \in Nat : /\ e \in [1..n -> S] /\ DOMAIN e = 1..n
                          /\ \A i, j \in 1..n : e[i] = e[j] => i = j
                          /\ \A o \in S : \E i \in 1..n : e[i] = o
  <1> DEFINE n == Cardinality(S)
  <1>1. IsFiniteSet(S)
    BY Finitely, FS_Subset
  <1>2. n \in Nat /\ ExistsBijection(1..n, S)
    BY <1>1, FS_CardinalityType
  <1>3. \E f \in [1..n -> S] : IsInjective(f)
    BY <1>2 DEF ExistsBijection, Bijection, Injection
  <1>4. e \in [1..n -> S] /\ IsInjective(e)
    BY <1>3 DEF SetToSeq
  <1>5. IsFiniteSet(1..n) /\ Cardinality(1..n) = n
    BY <1>2, FS_Interval
  <1>6. e \in Injection(1..n, S)
    BY <1>4 DEF Injection
  <1>7. e \in Surjection(1..n, S)
    BY <1>1, <1>5, <1>6, FS_Injection
  <1> HIDE DEF n
  <1>8. /\ \A i, j \in 1..n : e[i] = e[j] => i = j
        /\ \A o \in S : \E i \in 1..n : e[i] = o
    BY <1>4, <1>7 DEF IsInjective, Surjection
  <1> QED
    BY <1>2, <1>4, <1>8

\* One packet for each is a sequence of packets.
LEMMA ForEachPackets ==
    ASSUME NEW S, S \subseteq Objects, NEW packet \in [Objects -> Packets]
    PROVE  [k \in DOMAIN SetToSeq(S) |-> packet[SetToSeq(S)[k]]] \in Seq(Packets)
  <1> DEFINE e == SetToSeq(S)
  <1>1. PICK n \in Nat : e \in [1..n -> S] /\ DOMAIN e = 1..n
    BY Listing
  <1> HIDE DEF e
  <1>2. [k \in 1..n |-> packet[e[k]]] \in [1..n -> Packets]
    BY <1>1
  <1>3. [k \in DOMAIN e |-> packet[e[k]]] \in Seq(Packets)
    BY <1>1, <1>2
  <1> QED
    BY <1>3 DEF e

\* One packet about each object of a set, in any order.
LEMMA TellForEach ==
    ASSUME NEW own, NEW id, NEW S, S \subseteq Objects, NEW packet \in [Objects -> Packets],
           \A o \in S : packet[o].id = o,
           NEW old \in [Objects -> Looks], NEW new \in [Objects -> Looks],
           \A o \in Objects \ S : new[o] = old[o],
           \A o \in S : Tells(own, id, packet[o], old[o], new[o])
    PROVE  TellEach(own, id, [k \in DOMAIN SetToSeq(S) |-> packet[SetToSeq(S)[k]]], old, new)
  <1> DEFINE e == SetToSeq(S)
             q == [k \in DOMAIN e |-> packet[e[k]]]
  <1>1. PICK n \in Nat : /\ e \in [1..n -> S] /\ DOMAIN e = 1..n
                         /\ \A i, j \in 1..n : e[i] = e[j] => i = j
                         /\ \A o \in S : \E i \in 1..n : e[i] = o
    <2> HIDE DEF e
    <2>1. e = SetToSeq(S)
      BY DEF e
    <2> QED
      BY <2>1, Listing, SMTT(30)
  <1>2. q \in Seq(Packets)
    BY ForEachPackets
  <1> HIDE DEF e
  <1>3. /\ DOMAIN q = 1..n
        /\ \A i \in 1..n : e[i] \in S /\ q[i] = packet[e[i]] /\ q[i].id = e[i]
    BY <1>1
  <1> HIDE DEF q
  <1>4. \A i, j \in DOMAIN q : q[i].id = q[j].id => i = j
    BY <1>1, <1>3
  <1>5. \A o \in Objects : (\A i \in DOMAIN q : q[i].id # o) => new[o] = old[o]
    BY <1>1, <1>3
  <1>6. \A i \in DOMAIN q : Tells(own, id, q[i], old[q[i].id], new[q[i].id])
    BY <1>3
  <1>7. TellEach(own, id, q, old, new)
    BY <1>2, <1>4, <1>5, <1>6 DEF TellEach
  <1> QED
    BY <1>7 DEF q, e

\* The packets.
LEMMA PacketsMade ==
    ASSUME NEW o \in Objects
    PROVE  /\ \A c \in Cells :
                /\ Add(o, c) \in Packets /\ Add(o, c).id = o
                /\ Add(o, c).type = "add" /\ Add(o, c).at = c
           /\ \A c \in Cells :
                /\ MoveTo(o, c) \in Packets /\ MoveTo(o, c).id = o
                /\ MoveTo(o, c).type = "move" /\ MoveTo(o, c).at = c
           /\ \A type \in {"remove", "chat", "attack", "die", "status"} :
                About(type, o) \in Packets /\ About(type, o).id = o /\ About(type, o).type = type
  BY DEF Packets, Add, MoveTo, About

\* What each of them tells.
LEMMA PacketsTell ==
    ASSUME NEW own, NEW id, NEW o \in Objects, NEW look \in Looks
    PROVE  /\ \A c \in Cells : o # id =>
                /\ Tells(own, id, Add(o, c), look, Shown(c))
                /\ Tells(own, id, MoveTo(o, c), look, AfterMove(look, c))
           /\ o # id => /\ Tells(own, id, About("remove", o), look, Absent)
                        /\ Tells(own, id, About("chat", o), look, AfterChat(look))
                        /\ Tells(own, id, About("die", o), look, AfterDie(look))
           /\ o = id => /\ Tells(own, id, About("remove", o), look, look)
                        /\ Tells(own, id, About("chat", o), look, look)
           /\ Tells(own, id, About("attack", o), look, look)
  <1>1. ASSUME NEW k \in Packets, k.id = o, o # id
        PROVE  /\ k.type = "add" => Tells(own, id, k, look, Shown(k.at))
               /\ k.type = "move" => Tells(own, id, k, look, AfterMove(look, k.at))
               /\ k.type = "remove" => Tells(own, id, k, look, Absent)
               /\ k.type = "chat" => Tells(own, id, k, look, AfterChat(look))
               /\ k.type = "attack" => Tells(own, id, k, look, look)
               /\ k.type = "die" => Tells(own, id, k, look, AfterDie(look))
    <2>1. CASE k.type = "add"
      BY <1>1, <2>1, AboutOthers DEF Tells
    <2>2. CASE k.type = "move"
      BY <1>1, <2>2, AboutOthers DEF Tells
    <2>3. CASE k.type = "remove"
      BY <1>1, <2>3, AboutOthers DEF Tells
    <2>4. CASE k.type = "chat"
      BY <1>1, <2>4, AboutOthers DEF Tells
    <2>5. CASE k.type = "attack"
      BY <1>1, <2>5, AboutOthers DEF Tells
    <2>6. CASE k.type = "die"
      BY <1>1, <2>6, AboutOthers DEF Tells
    <2> QED
      BY <2>1, <2>2, <2>3, <2>4, <2>5, <2>6
  <1>2. ASSUME NEW k \in Packets, k.id = id, k.type \in {"remove", "chat", "attack"}
        PROVE  Tells(own, id, k, look, look)
    BY <1>2, AboutNothing DEF Tells
  <1>3. ASSUME NEW c \in Cells, o # id
        PROVE  /\ Tells(own, id, Add(o, c), look, Shown(c))
               /\ Tells(own, id, MoveTo(o, c), look, AfterMove(look, c))
    <2>1. /\ Add(o, c) \in Packets /\ Add(o, c).id = o /\ Add(o, c).type = "add" /\ Add(o, c).at = c
          /\ MoveTo(o, c) \in Packets /\ MoveTo(o, c).id = o
          /\ MoveTo(o, c).type = "move" /\ MoveTo(o, c).at = c
      BY PacketsMade
    <2>2. Tells(own, id, Add(o, c), look, Shown(Add(o, c).at))
      BY <1>1, <1>3, <2>1
    <2>3. Tells(own, id, MoveTo(o, c), look, AfterMove(look, MoveTo(o, c).at))
      BY <1>1, <1>3, <2>1
    <2> QED
      BY <2>1, <2>2, <2>3
  <1>4. ASSUME o # id
        PROVE  /\ Tells(own, id, About("remove", o), look, Absent)
               /\ Tells(own, id, About("chat", o), look, AfterChat(look))
               /\ Tells(own, id, About("die", o), look, AfterDie(look))
               /\ Tells(own, id, About("attack", o), look, look)
    BY <1>1, <1>4, PacketsMade
  <1>5. ASSUME o = id
        PROVE  /\ Tells(own, id, About("remove", o), look, look)
               /\ Tells(own, id, About("chat", o), look, look)
               /\ Tells(own, id, About("attack", o), look, look)
    BY <1>2, <1>5, PacketsMade
  <1> QED
    BY <1>3, <1>4, <1>5

\* No packet tells nothing.
LEMMA TellNone ==
    ASSUME NEW own, NEW id, NEW old \in [Objects -> Looks]
    PROVE  TellEach(own, id, << >>, old, old)
  BY DEF TellEach

\* One packet, about one object.
LEMMA TellOne ==
    ASSUME NEW own, NEW id, NEW k \in Packets, NEW old \in [Objects -> Looks], NEW new \in [Objects -> Looks],
           \A o \in Objects \ {k.id} : new[o] = old[o],
           Tells(own, id, k, old[k.id], new[k.id])
    PROVE  TellEach(own, id, <<k>>, old, new)
  <1>1. <<k>> \in Seq(Packets) /\ DOMAIN <<k>> = {1} /\ <<k>>[1] = k
    OBVIOUS
  <1> QED
    BY <1>1 DEF TellEach

\* A packet that changes no entry, or none.
LEMMA TellSame ==
    ASSUME NEW own, NEW id, NEW cond \in BOOLEAN, NEW k \in Packets, NEW old \in [Objects -> Looks],
           Tells(own, id, k, old[k.id], old[k.id])
    PROVE  TellEach(own, id, One(cond, k), old, old)
  <1>1. CASE cond
    BY <1>1, TellOne DEF One
  <1>2. CASE ~cond
    BY <1>2, TellNone DEF One
  <1> QED
    BY <1>1, <1>2

\* An entry of a screen changes, or none does.
LEMMA TellOneIf ==
    ASSUME NEW own, NEW id, NEW cond \in BOOLEAN, NEW k \in Packets,
           NEW old \in [Objects -> Looks], NEW new \in [Objects -> Looks],
           \A o \in Objects : new[o] = old[o] \/ (cond /\ o = k.id),
           cond => Tells(own, id, k, old[k.id], new[k.id])
    PROVE  TellEach(own, id, One(cond, k), old, new)
  <1>1. CASE cond
    <2>1. One(cond, k) = <<k>>
      BY <1>1 DEF One
    <2> QED
      BY <1>1, <2>1, TellOne
  <1>2. CASE ~cond
    <2>1. One(cond, k) = << >> /\ new = old
      BY <1>2 DEF One
    <2> QED
      BY <2>1, TellNone
  <1> QED
    BY <1>1, <1>2

-----------------------------------------------------------------------------
(* UpdateViewList *)

\* What UpdateViewList of p counts on where it tells q, that takes `id' for its
\* own: that p's own client knows its id, and that one which takes p for itself
\* shows nobody in p's place.
Knows(p, q, id, new) ==
    /\ q = p /\ p \in Linked => id = p
    /\ q # p /\ id = p => q \notin new \cap Linked /\ screen[q][p] = Absent

\* The packets of UpdateViewList of p tell q what World has on q's screen then
\* (Player.cpp:90-139).
LEMMA ViewTold ==
    ASSUME TypeOK, NEW p \in Players, NEW q \in Players, NEW c \in Cells,
           NEW old \in SUBSET (Objects \ {p}), NEW new \in SUBSET (Objects \ {p}),
           NEW id, Knows(p, q, id, new)
    PROVE  \E a, b, mid :
             /\ ViewPackets(p, c, old, new, q) = a \o b
             /\ TellEach(q, id, a, screen[q], mid)
             /\ TellEach(q, id, b, mid, ViewUpdated(p, c, old, new)[q])
  <1> DEFINE scr == screen[q]
             upd == ViewUpdated(p, c, old, new)[q]
  <1>1. /\ p \in Objects /\ scr \in [Objects -> Looks] /\ upd \in [Objects -> Looks]
        /\ pos \in [Objects -> Cells]
        /\ \A d \in Cells : Shown(d) \in Looks
        /\ Absent \in Looks
    <2>1. p \in Objects /\ scr \in [Objects -> Looks] /\ pos \in [Objects -> Cells]
      BY DEF TypeOK, Objects
    <2>2. upd \in [Objects -> Looks]
      BY ScreensUpdated
    <2> HIDE DEF scr, upd
    <2> QED
      BY <2>1, <2>2, LooksApart
  <1>2. \A o \in Objects : upd[o] =
          IF q = p /\ p \in Linked /\ o \in new \ old THEN Shown(pos[o])
          ELSE IF q = p /\ p \in Linked /\ o \in old \ new THEN Absent
          ELSE IF o = p /\ q \in (new \ old) \cap Linked THEN Shown(c)
          ELSE IF o = p /\ q \in (old \ new) \cap open THEN Absent
          ELSE scr[o]
    BY ScreensUpdated
  <1> HIDE DEF scr, upd
  <1>3. CASE q = p /\ p \in Linked
    <2> DEFINE A == new \ old
               R == old \ new
               mid == [o \in Objects |-> IF o \in A THEN Shown(pos[o]) ELSE scr[o]]
               adds == [o \in Objects |-> Add(o, pos[o])]
               removes == [o \in Objects |-> About("remove", o)]
               a == [k \in DOMAIN SetToSeq(A) |-> adds[SetToSeq(A)[k]]]
               b == [k \in DOMAIN SetToSeq(R) |-> removes[SetToSeq(R)[k]]]
    <2>1. mid \in [Objects -> Looks]
      BY <1>1
    <2>2. TellEach(q, id, a, scr, mid)
      <3>1. adds \in [Objects -> Packets] /\ \A o \in A : adds[o].id = o
        BY <1>1, PacketsMade
      <3>2. \A o \in A : Tells(q, id, adds[o], scr[o], mid[o])
        <4>1. \A o \in A : o \in Objects /\ o # id
          BY <1>3 DEF Knows
        <4> QED
          BY <1>1, <4>1, PacketsTell
      <3>3. \A o \in Objects \ A : mid[o] = scr[o]
        OBVIOUS
      <3>4. A \subseteq Objects
        OBVIOUS
      <3> HIDE DEF adds, A, mid
      <3> QED
        BY <1>1, <2>1, <3>1, <3>2, <3>3, <3>4, TellForEach
    <2>3. TellEach(q, id, b, mid, upd)
      <3>1. removes \in [Objects -> Packets] /\ \A o \in R : removes[o].id = o
        BY <1>1, PacketsMade
      <3>2. ASSUME NEW o \in R
            PROVE  Tells(q, id, removes[o], mid[o], upd[o])
        <4>1. o \in Objects /\ o # id /\ mid[o] \in Looks
          BY <1>3, <2>1 DEF Knows
        <4>2. removes[o] = About("remove", o) /\ upd[o] = Absent
          BY <1>2, <1>3
        <4> HIDE DEF R, removes, mid
        <4>3. Tells(q, id, About("remove", o), mid[o], Absent)
          BY <4>1, PacketsTell
        <4> QED
          BY <4>2, <4>3
      <3>3. \A o \in Objects \ R : upd[o] = mid[o]
        BY <1>2, <1>3
      <3>4. R \subseteq Objects
        OBVIOUS
      <3> HIDE DEF removes, R, mid
      <3> QED
        BY <1>1, <2>1, <3>1, <3>2, <3>3, <3>4, TellForEach
    <2>4. ViewPackets(p, c, old, new, q) = a \o b
      <3>1. /\ a = ForEach(A, LAMBDA o : Add(o, pos[o]))
            /\ b = ForEach(R, LAMBDA o : About("remove", o))
        <4>1. \A S : S \subseteq Objects => \A k \in DOMAIN SetToSeq(S) : SetToSeq(S)[k] \in Objects
          <5> SUFFICES ASSUME NEW S, S \subseteq Objects, NEW k \in DOMAIN SetToSeq(S)
                       PROVE  SetToSeq(S)[k] \in Objects
            OBVIOUS
          <5>1. PICK n \in Nat : SetToSeq(S) \in [1..n -> S]
            BY Listing
          <5> QED
            BY <5>1
        <4>2. A \subseteq Objects /\ R \subseteq Objects
          OBVIOUS
        <4> HIDE DEF A, R
        <4> QED
          BY <4>1, <4>2 DEF ForEach
      <3> HIDE DEF a, b
      <3> QED
        BY <1>3, <3>1 DEF ViewPackets
    <2> HIDE DEF a, b, mid
    <2> QED
      BY <2>2, <2>3, <2>4 DEF scr, upd
  <1>4. CASE q = p /\ p \notin Linked
    <2>1. ViewPackets(p, c, old, new, q) = << >> \o << >>
      BY <1>4 DEF ViewPackets
    <2>2. upd = scr
      BY <1>1, <1>2, <1>4
    <2>3. TellEach(q, id, << >>, scr, scr)
      BY <1>1, TellNone
    <2> QED
      BY <2>1, <2>2, <2>3 DEF scr, upd
  <1>5. CASE q # p
    <2> DEFINE comes == q \in (new \ old) \cap Linked
               goes == q \in (old \ new) \cap open
               mid == [o \in Objects |-> IF o = p /\ comes THEN Shown(c) ELSE scr[o]]
               a == One(comes, Add(p, c))
               b == One(goes, About("remove", p))
    <2>1. ViewPackets(p, c, old, new, q) = a \o b
      BY <1>5 DEF ViewPackets
    <2>2. mid \in [Objects -> Looks] /\ comes \in BOOLEAN /\ goes \in BOOLEAN /\ ~(comes /\ goes)
      BY <1>1
    <2>3. TellEach(q, id, a, scr, mid)
      <3>1. Add(p, c) \in Packets /\ Add(p, c).id = p
        BY <1>1, PacketsMade
      <3>2. comes => Tells(q, id, Add(p, c), scr[p], mid[p])
        <4>1. comes => id # p
          BY <1>5 DEF Knows
        <4>2. comes => mid[p] = Shown(c)
          BY <1>1
        <4> HIDE DEF comes, mid
        <4> QED
          BY <1>1, <4>1, <4>2, PacketsTell
      <3>3. \A o \in Objects : mid[o] = scr[o] \/ (comes /\ o = p)
        OBVIOUS
      <3> HIDE DEF comes, mid
      <3> QED
        BY <1>1, <2>2, <3>1, <3>2, <3>3, TellOneIf
    <2>4. TellEach(q, id, b, mid, upd)
      <3>1. About("remove", p) \in Packets /\ About("remove", p).id = p
        BY <1>1, PacketsMade
      <3>2. goes => Tells(q, id, About("remove", p), mid[p], upd[p])
        <4>1. goes => upd[p] = Absent
          BY <1>1, <1>2, <1>5
        <4>2. mid[p] \in Looks
          BY <1>1, <2>2
        <4>3. id = p => mid[p] = Absent
          BY <1>1, <1>5 DEF Knows, scr
        <4> HIDE DEF goes, mid
        <4>4. CASE id # p
          BY <1>1, <4>1, <4>2, <4>4, PacketsTell
        <4>5. CASE id = p
          BY <1>1, <4>1, <4>2, <4>3, <4>5, PacketsTell
        <4> QED
          BY <4>4, <4>5
      <3>3. \A o \in Objects : upd[o] = mid[o] \/ (goes /\ o = p)
        BY <1>2, <1>5
      <3> HIDE DEF goes, mid
      <3> QED
        BY <1>1, <2>2, <3>1, <3>2, <3>3, TellOneIf
    <2> HIDE DEF a, b, mid
    <2> QED
      BY <2>1, <2>3, <2>4 DEF scr, upd
  <1> QED
    BY <1>3, <1>4, <1>5

-----------------------------------------------------------------------------
(* Packets and what World has of a client *)

\* What a client that has caught up shows, and its avatar.
Face(scr, f) == [screen |-> scr, avatar |-> f]
Meets(s, v) == s \in ClientStates /\ Agrees(s, v.screen) /\ s.avatar = v.avatar

Brings(own, q, v, w) ==
    /\ q \in Seq(Packets)
    /\ \A s, t : Meets(s, v) /\ Leads(own, q, s, t) => Meets(t, w)

\* One sequence of packets after another.
LEMMA BringsBoth ==
    ASSUME NEW own, NEW a, NEW b, NEW v, NEW w, NEW x, Brings(own, a, v, w), Brings(own, b, w, x)
    PROVE  Brings(own, a \o b, v, x)
  <1>1. a \in Seq(Packets) /\ b \in Seq(Packets) /\ a \o b \in Seq(Packets)
    BY DEF Brings
  <1>2. ASSUME NEW s, NEW t, Meets(s, v), Leads(own, a \o b, s, t)
        PROVE  Meets(t, x)
    <2>1. PICK u \in ClientStates : Leads(own, a, s, u) /\ Leads(own, b, u, t)
      BY <1>1, <1>2, LeadsByBoth
    <2> QED
      BY <1>2, <2>1 DEF Brings
  <1> QED
    BY <1>1, <1>2 DEF Brings

\* Packets about others, or about nothing of its own.
LEMMA BringsTold ==
    ASSUME NEW own, NEW q, NEW f, NEW old, NEW new, TellEach(own, f.id, q, old, new)
    PROVE  Brings(own, q, Face(old, f), Face(new, f))
  <1>1. q \in Seq(Packets)
    BY DEF TellEach
  <1>2. ASSUME NEW s, NEW t, Meets(s, Face(old, f)), Leads(own, q, s, t)
        PROVE  Meets(t, Face(new, f))
    <2>1. s \in ClientStates /\ Agrees(s, old) /\ s.avatar = f
      BY <1>2 DEF Meets, Face
    <2>2. s.avatar.id = f.id
      BY <2>1
    <2>3. t \in ClientStates /\ t.avatar = s.avatar /\ Agrees(t, new)
      BY <1>2, <2>1, <2>2, LeadsByEach
    <2> QED
      BY <2>1, <2>3 DEF Meets, Face
  <1> QED
    BY <1>1, <1>2 DEF Brings

\* Nothing sent.
LEMMA BringsNone ==
    ASSUME NEW own, NEW scr \in [Objects -> Looks], NEW f
    PROVE  Brings(own, << >>, Face(scr, f), Face(scr, f))
  BY TellNone, BringsTold

\* A packet about the avatar.
LEMMA BringsOwn ==
    ASSUME NEW own, NEW f, NEW k \in Packets, k.type = "avatar" \/ k.id = f.id,
           NEW scr \in [Objects -> Looks]
    PROVE  Brings(own, <<k>>, Face(scr, f), Face(scr, ToAvatar(own, f, k)))
  <1> DEFINE g == ToAvatar(own, f, k)
  <1>1. <<k>> \in Seq(Packets)
    OBVIOUS
  <1>2. ASSUME NEW s, NEW t, Meets(s, Face(scr, f)), Leads(own, <<k>>, s, t)
        PROVE  Meets(t, Face(scr, g))
    <2>1. s \in ClientStates /\ Agrees(s, scr) /\ s.avatar = f
      BY <1>2 DEF Meets, Face
    <2>2. PICK u \in ClientStates : MayTurn(s, u) /\ MayTurn(Processed(own, u, k), t)
      BY <1>2, LeadsByOne
    <2>3. t \in ClientStates
      BY <1>2, LeadsByOne
    <2>4. Agrees(u, scr) /\ u.avatar = f
      BY <2>1, <2>2, StillAgrees DEF MayTurn
    <2> DEFINE v == Processed(own, u, k)
    <2>5. v.others = u.others /\ v.avatar = g
      BY <2>4, AboutItself
    <2> HIDE DEF v, g
    <2>6. Agrees(v, scr)
      BY <2>4, <2>5 DEF Agrees
    <2>7. Agrees(t, scr) /\ t.avatar = g
      BY <2>2, <2>5, <2>6, StillAgrees DEF MayTurn, v
    <2> QED
      BY <2>3, <2>7 DEF Meets, Face
  <1> HIDE DEF g
  <1>3. Brings(own, <<k>>, Face(scr, f), Face(scr, g))
    BY <1>1, <1>2 DEF Brings
  <1> QED
    BY <1>3 DEF g

\* The packets of UpdateViewList.
LEMMA BringsView ==
    ASSUME TypeOK, NEW p \in Players, NEW q \in Players, NEW c \in Cells,
           NEW old \in SUBSET (Objects \ {p}), NEW new \in SUBSET (Objects \ {p}),
           NEW f, Knows(p, q, f.id, new)
    PROVE  Brings(q, ViewPackets(p, c, old, new, q),
                  Face(screen[q], f), Face(ViewUpdated(p, c, old, new)[q], f))
  <1>1. PICK a, b, mid : /\ ViewPackets(p, c, old, new, q) = a \o b
                         /\ TellEach(q, f.id, a, screen[q], mid)
                         /\ TellEach(q, f.id, b, mid, ViewUpdated(p, c, old, new)[q])
    BY ViewTold
  <1> QED
    BY <1>1, BringsTold, BringsBoth

-----------------------------------------------------------------------------
(* The invariant *)

\* The avatar of a player in the game knows its id and where it is; before that
\* it is what the program starts with, as far as the id goes.  Only the client
\* of a dead player takes it for dead, or one that was mistaken.
Right(p, f) ==
    /\ f \in Avatars
    /\ IF Playing(p) THEN f.id = p /\ f.at = pos[p] ELSE f.id = Zero
    /\ f.dead => f.mistaken \/ (Playing(p) /\ life[p] = "dead")

Settled(p, t) == t \in ClientStates /\ Agrees(t, screen[p]) /\ Right(p, t.avatar)

\* Wherever the packets under way lead, the client agrees with World.
CatchesUp(p) == \A t : Leads(p, channel[p], State(p), t) => Settled(p, t)

NotSelf == \A p \in Players : p \notin view[p]

\* Who waits for its logout event still has its Player.
LeaversHere == \A p \in leaving : InWorld(p)

ClientInv ==
    /\ ClientTypeOK
    /\ ListInv
    /\ NotSelf
    /\ LeaversHere
    /\ \A p \in Players : CatchesUp(p)

\* There is an avatar that is right.
LEMMA SomeAvatar ==
    ASSUME TypeOK, NEW q \in Players
    PROVE  \E f : Right(q, f)
  <1> DEFINE f == [id |-> IF Playing(q) THEN q ELSE Zero, at |-> pos[q],
                   dead |-> FALSE, mistaken |-> FALSE]
  <1>1. pos[q] \in Cells /\ Zero \in Players
    BY FirstId DEF TypeOK, Objects
  <1>2. f \in Avatars
    BY <1>1 DEF Avatars
  <1>3. Right(q, f)
    BY <1>2 DEF Right
  <1> QED
    BY <1>3

\* A client that takes another's id for its own is not in the game, and that id
\* is Zero, whom its screen does not show.
LEMMA Unknowing ==
    ASSUME ListInv, NEW p \in Players, NEW q \in Players, q # p, NEW f, Right(q, f), f.id = p
    PROVE  ~Playing(q) /\ p = Zero /\ screen[q][p] = Absent
  <1>1. ~Playing(q) /\ p = Zero
    BY DEF Right
  <1>2. p \in Objects
    BY DEF Objects
  <1> QED
    BY <1>1, <1>2 DEF ListInv, NobodyShown, Blanks

\* UpdateViewList counts on what it may count on, of a player in the game.
LEMMA KnowsView ==
    ASSUME ListInv, NEW p \in Players, NEW q \in Players, InWorld(p),
           NEW new, \A o \in new : InWorld(o), NEW f, Right(q, f)
    PROVE  Knows(p, q, f.id, new)
  <1>1. q = p /\ p \in Linked => f.id = p
    BY DEF Right, Playing
  <1>2. q # p /\ f.id = p => q \notin new \cap Linked /\ screen[q][p] = Absent
    BY Unknowing DEF Playing
  <1> QED
    BY <1>1, <1>2 DEF Knows

\* An event that leaves right what is right.
StaysRight(q) == \A f : Right(q, f) => Right(q, f)'

\* One that leaves a player where it is, in the game or not, and the dead dead.
LEMMA RightStays ==
    ASSUME NEW q, Playing(q)' <=> Playing(q),
           Playing(q) => pos'[q] = pos[q] /\ (life[q] = "dead" => life'[q] = "dead")
    PROVE  StaysRight(q)
  BY DEF StaysRight, Right

\* An event that sends what brings the client from what World had before to
\* what it has then.
LEMMA Carried ==
    ASSUME ClientTypeOK, NEW q \in Players, CatchesUp(q),
           NEW sent, channel'[q] = channel[q] \o sent, State(q)' = State(q),
           \A f : Right(q, f) =>
             \E g : Brings(q, sent, Face(screen[q], f), Face(screen'[q], g)) /\ Right(q, g)'
    PROVE  CatchesUp(q)'
  <1>1. channel[q] \in Seq(Packets)
    BY DEF ClientTypeOK
  <1>2. sent \in Seq(Packets)
    <2>1. PICK f : Right(q, f)
      BY SomeAvatar DEF ClientTypeOK
    <2> QED
      BY <2>1 DEF Brings
  <1>3. ASSUME NEW t, Leads(q, channel[q] \o sent, State(q), t)
        PROVE  Settled(q, t)'
    <2>1. PICK s \in ClientStates : Leads(q, channel[q], State(q), s) /\ Leads(q, sent, s, t)
      BY <1>1, <1>2, <1>3, LeadsByBoth
    <2>2. Agrees(s, screen[q]) /\ Right(q, s.avatar)
      BY <2>1 DEF CatchesUp, Settled
    <2>3. PICK g : /\ Brings(q, sent, Face(screen[q], s.avatar), Face(screen'[q], g))
                   /\ Right(q, g)'
      BY <2>2
    <2>4. Meets(t, Face(screen'[q], g))
      BY <2>1, <2>2, <2>3 DEF Brings, Meets, Face
    <2>5. t \in ClientStates /\ Agrees(t, screen'[q]) /\ t.avatar = g
      BY <2>4 DEF Meets, Face
    <2> QED
      BY <2>3, <2>5 DEF Settled, Agrees
  <1> QED
    BY <1>3 DEF CatchesUp

\* The packets s report to q what an event does.
Reported(q, s) ==
    \A f : Right(q, f) =>
      \E g : Brings(q, s, Face(screen[q], f), Face(screen'[q], g)) /\ Right(q, g)'

\* An event that reports to everyone.
LEMMA ReportedToAll ==
    ASSUME ClientInv, NEW sent, Send(sent), UNCHANGED programVars,
           \A q \in Players : Reported(q, sent[q])
    PROVE  /\ channel' \in [Players -> Seq(Packets)]
           /\ \A q \in Players : CatchesUp(q)'
  <1>1. ASSUME NEW q \in Players
        PROVE  sent[q] \in Seq(Packets) /\ CatchesUp(q)'
    <2>1. channel'[q] = channel[q] \o sent[q] /\ State(q)' = State(q)
      BY DEF Send, State, programVars
    <2>2. CatchesUp(q)'
      BY <2>1, Carried DEF ClientInv, Reported
    <2>3. PICK f : Right(q, f)
      BY SomeAvatar DEF ClientInv, ListInv
    <2>4. sent[q] \in Seq(Packets)
      BY <2>3 DEF Reported, Brings
    <2> QED
      BY <2>2, <2>4
  <1>2. \A q \in Players : channel[q] \in Seq(Packets)
    BY DEF ClientInv, ClientTypeOK
  <1>3. \A q \in Players : channel[q] \o sent[q] \in Seq(Packets)
    BY <1>1, <1>2
  <1> QED
    BY <1>1, <1>3 DEF Send

\* Who only watches is where it was, and as alive.
LEMMA ReportedToWatcher ==
    ASSUME NEW q, NEW s, StaysRight(q),
           \A f : Right(q, f) => Brings(q, s, Face(screen[q], f), Face(screen'[q], f))
    PROVE  Reported(q, s)
  BY DEF Reported, StaysRight

\* Who watches is told what its screen has then.
LEMMA ReportedByTelling ==
    ASSUME NEW q, NEW s, StaysRight(q),
           \A f : Right(q, f) => TellEach(q, f.id, s, screen[q], screen'[q])
    PROVE  Reported(q, s)
  <1>1. \A f : Right(q, f) => Brings(q, s, Face(screen[q], f), Face(screen'[q], f))
    BY BringsTold
  <1> QED
    BY <1>1, ReportedToWatcher

\* Login: the new player is told where it is and whom it sees, those it sees
\* that it came (Session.cpp:205-265).
LEMMA LoginReported ==
    ASSUME ClientInv, NEW p \in Players, NEW c \in Saved, Login(p, c), NEW q \in Players
    PROVE  Reported(q, One(q = p, [About("avatar", p) EXCEPT !.at = c])
                       \o ViewPackets(p, c, {}, Sight(p, c), q))
  <1> DEFINE k == [About("avatar", p) EXCEPT !.at = c]
             v == ViewPackets(p, c, {}, Sight(p, c), q)
  <1>1. /\ TypeOK /\ ListInv /\ p \in Objects /\ c \in Cells
        /\ Sight(p, c) \in SUBSET (Objects \ {p}) /\ {} \in SUBSET (Objects \ {p})
        /\ screen[q] \in [Objects -> Looks]
        /\ \A o \in Sight(p, c) : InWorld(o)
    BY Map DEF ClientInv, ListInv, TypeOK, Objects, Sight, InWorld
  <1>2. screen' = ViewUpdated(p, c, {}, Sight(p, c))
    BY DEF Login
  <1>3. k \in Packets /\ k.type = "avatar" /\ k.id = p /\ k.at = c
    <2>1. k = [About("avatar", p) EXCEPT !.at = c]
      OBVIOUS
    <2> HIDE DEF k
    <2> QED
      BY <1>1, <2>1 DEF Packets, About
  <1>4. p \in open /\ ~InWorld(p) /\ p \notin leaving /\ InWorld(p)'
    BY <1>1 DEF Login, ClientInv, LeaversHere, InWorld, TypeOK
  <1> HIDE DEF k, v
  <1>5. CASE q = p
    <2>1. One(q = p, k) = <<k>>
      BY <1>5 DEF One
    <2>2. ASSUME NEW f, Right(q, f)
          PROVE  \E g : /\ Brings(q, <<k>> \o v, Face(screen[q], f), Face(screen'[q], g))
                        /\ Right(q, g)'
      <3> DEFINE g == ToAvatar(q, f, k)
      <3>1. g = [f EXCEPT !.id = p, !.at = c]
        BY <1>3 DEF ToAvatar
      <3>2. Brings(q, <<k>>, Face(screen[q], f), Face(screen[q], g))
        BY <1>1, <1>3, BringsOwn
      <3>3. g.id = p /\ g.at = c /\ g.dead = f.dead /\ g.mistaken = f.mistaken /\ g \in Avatars
        BY <1>1, <2>2, <3>1 DEF Right, Avatars
      <3> HIDE DEF g
      <3>4. Knows(p, q, g.id, Sight(p, c))
        BY <1>5, <3>3 DEF Knows
      <3>5. Brings(q, v, Face(screen[q], g), Face(screen'[q], g))
        BY <1>1, <1>2, <3>4, BringsView DEF v
      <3>6. Playing(p)' /\ pos'[p] = c
        BY <1>1, <1>4 DEF Login, Playing, Linked, TypeOK
      <3>7. Right(q, g)'
        BY <1>4, <1>5, <2>2, <3>3, <3>6 DEF Right, Playing
      <3> QED
        BY <3>2, <3>5, <3>7, BringsBoth
    <2> QED
      BY <2>1, <2>2 DEF Reported, k, v
  <1>6. CASE q # p
    <2>1. One(q = p, k) = << >>
      BY <1>6 DEF One
    <2>2. ASSUME NEW f, Right(q, f)
          PROVE  Brings(q, << >> \o v, Face(screen[q], f), Face(screen'[q], f))
      <3>1. Knows(p, q, f.id, Sight(p, c))
        <4>1. f.id = p => q \notin Sight(p, c) \cap Linked /\ screen[q][p] = Absent
          BY <1>1, <1>6, <2>2, Unknowing DEF Playing
        <4> QED
          BY <1>6, <4>1 DEF Knows
      <3>2. Brings(q, v, Face(screen[q], f), Face(screen'[q], f))
        BY <1>1, <1>2, <3>1, BringsView DEF v
      <3> QED
        BY <1>1, <3>2, BringsNone, BringsBoth
    <2>3. StaysRight(q)
      BY <1>1, <1>6, RightStays DEF Login, Playing, InWorld, Linked, TypeOK, Objects
    <2> QED
      BY <2>1, <2>2, <2>3, ReportedToWatcher DEF k, v
  <1> QED
    BY <1>5, <1>6

\* Logout: whoever saw the player is told that it is gone (Session.cpp:349-361).
LEMMA LogoutReported ==
    ASSUME ClientInv, NEW p \in Players, Logout(p), NEW q \in Players
    PROVE  Reported(q, ViewPackets(p, pos[p], view[p], {}, q))
  <1>1. /\ TypeOK /\ ListInv /\ pos[p] \in Cells
        /\ view[p] \in SUBSET (Objects \ {p}) /\ {} \in SUBSET (Objects \ {p})
    BY DEF ClientInv, ListInv, NotSelf, TypeOK, Objects
  <1>2. screen' = ViewUpdated(p, pos[p], view[p], {}) /\ InWorld(p)
    BY DEF Logout, ClientInv, LeaversHere
  <1>3. ASSUME NEW f, Right(q, f)
        PROVE  Brings(q, ViewPackets(p, pos[p], view[p], {}, q),
                      Face(screen[q], f), Face(screen'[q], f))
    <2>1. Knows(p, q, f.id, {})
      BY <1>1, <1>2, <1>3, KnowsView
    <2> QED
      BY <1>1, <1>2, <2>1, BringsView
  <1>4. StaysRight(q)
    BY <1>1, RightStays DEF Logout, Playing, InWorld, Linked, TypeOK, Objects
  <1> QED
    BY <1>3, <1>4, ReportedToWatcher

\* A step: the player that moves is told where it is, and so are those it sees
\* (Session.cpp:364-417, Player.cpp:90-139).
LEMMA MoveReported ==
    ASSUME ClientInv, NEW p \in Players, NEW c \in Free, Move(p, c), NEW q \in Players
    PROVE  Reported(q, ViewPackets(p, c, view[p], Sight(p, c), q)
                       \o One(q \in Linked /\ q = p, MoveTo(p, c))
                       \o One(q \in Sight(p, c) \cap open, MoveTo(p, c)))
  <1> DEFINE new == Sight(p, c)
             scr == ViewUpdated(p, c, view[p], new)
             v == ViewPackets(p, c, view[p], new, q)
             k == MoveTo(p, c)
             a == One(q \in Linked /\ q = p, k)
             cond == q \in new \cap open
             b == One(cond, k)
  <1>1. /\ TypeOK /\ ListInv /\ c \in Cells /\ p \in Objects /\ p \notin new
        /\ view[p] \in SUBSET (Objects \ {p}) /\ new \in SUBSET (Objects \ {p})
        /\ InWorld(p) /\ \A o \in new : InWorld(o)
    BY Map DEF ClientInv, ListInv, NotSelf, TypeOK, Objects, Sight, Move, InWorld
  <1>2. screen' = MoveShown(p, c, new, scr)
    BY DEF Move
  <1>3. k \in Packets /\ k.id = p /\ k.type = "move" /\ k.at = c
    BY <1>1, PacketsMade
  <1>4. scr \in [Players -> [Objects -> Looks]]
    <2> HIDE DEF new
    <2> QED
      BY <1>1, ScreensUpdated
  <1> HIDE DEF new, k
  <1>5. ASSUME NEW f, Right(q, f)
        PROVE  Brings(q, v, Face(screen[q], f), Face(scr[q], f))
    <2>1. Knows(p, q, f.id, new)
      BY <1>1, <1>5, KnowsView
    <2> QED
      BY <1>1, <2>1, BringsView
  <1>6. p # Zero => \A f : Right(q, f) => q = p \/ f.id # p
    BY <1>1, Unknowing
  <1>7. q # p /\ p = Zero /\ ~Playing(q) => scr[q][p] = Absent
    <2>1. q # p /\ p = Zero /\ ~Playing(q) => q \notin new \cap Linked /\ screen[q][p] = Absent
      BY <1>1 DEF Playing, ListInv, NobodyShown, Blanks
    <2>2. q # p => scr[q][p] = IF q \in (new \ view[p]) \cap Linked THEN Shown(c)
                              ELSE IF q \in (view[p] \ new) \cap open THEN Absent
                              ELSE screen[q][p]
      BY <1>1, ScreensUpdated
    <2> HIDE DEF scr
    <2> QED
      BY <2>1, <2>2
  <1> HIDE DEF scr, v
  <1>8. /\ screen'[q] \in [Objects -> Looks] /\ scr[q] \in [Objects -> Looks]
        /\ \A o \in Objects : screen'[q][o] =
             IF o = p /\ cond /\ (Playing(q) \/ p # Zero)
             THEN AfterMove(scr[q][o], c) ELSE scr[q][o]
    BY <1>1, <1>2, <1>4, ScreensMoved
  <1>9. cond \in BOOLEAN
    OBVIOUS
  <1> HIDE DEF cond
  <1>10. ASSUME q = p
         PROVE  b = << >> /\ screen'[q] = scr[q]
    <2>1. ~cond
      BY <1>1, <1>10 DEF cond
    <2> QED
      BY <1>8, <2>1 DEF One
  <1>11. CASE q = p /\ q \in Linked
    <2>1. a = <<k>> /\ b = << >> /\ screen'[q] = scr[q]
      BY <1>10, <1>11 DEF One
    <2> HIDE DEF a, b
    <2>2. ASSUME NEW f, Right(q, f)
          PROVE  \E g : /\ Brings(q, v \o a \o b, Face(screen[q], f), Face(screen'[q], g))
                        /\ Right(q, g)'
      <3> DEFINE g == ToAvatar(q, f, k)
      <3>1. f.id = p /\ f \in Avatars
        BY <1>1, <1>11, <2>2 DEF Right, Playing
      <3>2. g = [f EXCEPT !.at = c]
        BY <1>3 DEF ToAvatar
      <3>3. Brings(q, a, Face(scr[q], f), Face(scr[q], g))
        BY <1>3, <1>8, <2>1, <3>1, BringsOwn
      <3>4. g \in Avatars /\ g.id = p /\ g.at = c /\ g.dead = f.dead /\ g.mistaken = f.mistaken
        BY <1>1, <3>1, <3>2 DEF Avatars
      <3> HIDE DEF g
      <3>5. Brings(q, v \o a, Face(screen[q], f), Face(scr[q], g))
        BY <1>5, <2>2, <3>3, BringsBoth
      <3>6. Brings(q, b, Face(scr[q], g), Face(screen'[q], g))
        BY <1>8, <2>1, BringsNone
      <3>7. Right(q, g)'
        BY <1>1, <1>11, <2>2, <3>4 DEF Move, Right, Playing, InWorld, Linked, TypeOK
      <3> QED
        BY <3>5, <3>6, <3>7, BringsBoth
    <2> QED
      BY <2>2 DEF Reported, a, b, cond, v, k, new
  <1>12. ASSUME ~(q = p /\ q \in Linked)
         PROVE  a = << >> /\ StaysRight(q)
    <2>1. a = << >>
      BY <1>12 DEF One
    <2>2. StaysRight(q)
      BY <1>1, <1>12, RightStays DEF Move, Playing, InWorld, Linked, TypeOK, Objects
    <2> QED
      BY <2>1, <2>2
  <1>13. CASE q = p /\ q \notin Linked
    <2>1. a = << >> /\ b = << >> /\ screen'[q] = scr[q]
      BY <1>10, <1>12, <1>13
    <2> HIDE DEF a, b
    <2>2. ASSUME NEW f, Right(q, f)
          PROVE  Brings(q, v \o a \o b, Face(screen[q], f), Face(screen'[q], f))
      <3>1. Brings(q, << >>, Face(scr[q], f), Face(scr[q], f))
        BY <1>8, BringsNone
      <3>2. Brings(q, v \o a, Face(screen[q], f), Face(scr[q], f))
        BY <1>5, <2>1, <2>2, <3>1, BringsBoth
      <3> QED
        BY <2>1, <3>1, <3>2, BringsBoth
    <2> QED
      BY <1>12, <1>13, <2>2, ReportedToWatcher DEF a, b, cond, v, k, new
  <1>14. CASE q # p
    <2>1. a = << >> /\ StaysRight(q)
      BY <1>12, <1>14
    <2> HIDE DEF a
    <2>2. ASSUME NEW f, Right(q, f)
          PROVE  \E g : /\ Brings(q, b, Face(scr[q], f), Face(screen'[q], g))
                        /\ Right(q, g)'
      <3>1. CASE f.id # p
        <4>1. Tells(q, f.id, k, scr[q][p], AfterMove(scr[q][p], c))
          BY <1>1, <1>8, <3>1, PacketsTell DEF k
        <4>2. Playing(q) \/ p # Zero
          BY <2>2, <3>1 DEF Right
        <4>3. cond => Tells(q, f.id, k, scr[q][k.id], screen'[q][k.id])
          BY <1>1, <1>3, <1>8, <4>1, <4>2
        <4>4. \A o \in Objects : screen'[q][o] = scr[q][o] \/ (cond /\ o = k.id)
          BY <1>3, <1>8
        <4>5. TellEach(q, f.id, b, scr[q], screen'[q])
          BY <1>3, <1>8, <1>9, <4>3, <4>4, TellOneIf
        <4> QED
          BY <2>1, <2>2, <4>5, BringsTold DEF StaysRight
      <3>2. CASE f.id = p
        <4>1. ~Playing(q) /\ p = Zero
          BY <1>1, <1>14, <2>2, <3>2, Unknowing
        <4>2. screen'[q] = scr[q]
          BY <1>8, <4>1
        <4>3. CASE ~cond
          <5>1. b = << >>
            BY <4>3 DEF One
          <5> QED
            BY <1>8, <2>1, <2>2, <4>2, <5>1, BringsNone DEF StaysRight
        <4>4. CASE cond
          <5> DEFINE g == ToAvatar(q, f, k)
          <5>1. b = <<k>>
            BY <4>4 DEF One
          <5>2. g = [f EXCEPT !.at = c]
            BY <1>3 DEF ToAvatar
          <5>3. Brings(q, b, Face(scr[q], f), Face(screen'[q], g))
            BY <1>3, <1>8, <3>2, <4>2, <5>1, BringsOwn
          <5>4. Right(q, g)
            <6>1. f \in Avatars /\ f.id = Zero /\ (f.dead => f.mistaken)
              BY <2>2, <4>1 DEF Right
            <6>2. /\ g \in Avatars /\ g.id = Zero
                  /\ g.dead = f.dead /\ g.mistaken = f.mistaken
              BY <1>1, <5>2, <6>1 DEF Avatars
            <6> HIDE DEF g
            <6> QED
              BY <4>1, <6>1, <6>2 DEF Right
          <5> HIDE DEF g
          <5> QED
            BY <2>1, <5>3, <5>4 DEF StaysRight
        <4> QED
          BY <4>3, <4>4
      <3> QED
        BY <3>1, <3>2
    <2> HIDE DEF b
    <2>3. ASSUME NEW f, Right(q, f)
          PROVE  \E g : /\ Brings(q, v \o a \o b, Face(screen[q], f), Face(screen'[q], g))
                        /\ Right(q, g)'
      <3>1. PICK g : Brings(q, b, Face(scr[q], f), Face(screen'[q], g)) /\ Right(q, g)'
        BY <2>2, <2>3
      <3>2. Brings(q, << >>, Face(scr[q], f), Face(scr[q], f))
        BY <1>8, BringsNone
      <3>3. Brings(q, v \o a, Face(screen[q], f), Face(scr[q], f))
        BY <1>5, <2>1, <2>3, <3>2, BringsBoth
      <3> QED
        BY <3>1, <3>3, BringsBoth
    <2> QED
      BY <2>3 DEF Reported, a, b, cond, v, k, new
  <1> QED
    BY <1>11, <1>13, <1>14

\* A step that is not taken: the player is told where it is
\* (Session.cpp:386-401).
LEMMA SyncReported ==
    ASSUME ClientInv, NEW p \in Players, InWorld(p), UNCHANGED vars, NEW q \in Players
    PROVE  Reported(q, One(q \in Linked /\ q = p, MoveTo(p, pos[p])))
  <1>1. screen[q] \in [Objects -> Looks] /\ p \in Objects /\ pos[p] \in Cells
    BY DEF ClientInv, ListInv, TypeOK, Objects
  <1>2. screen' = screen /\ StaysRight(q)
    BY RightStays DEF vars, objectVars, Playing, InWorld, Linked
  <1>3. CASE q \in Linked /\ q = p
    <2> SUFFICES ASSUME NEW f, Right(q, f)
                 PROVE  \E g : /\ Brings(q, <<MoveTo(p, pos[p])>>,
                                          Face(screen[q], f), Face(screen'[q], g))
                               /\ Right(q, g)'
      BY <1>3 DEF Reported, One
    <2> DEFINE k == MoveTo(p, pos[p])
    <2>1. k \in Packets /\ k.id = p /\ k.type = "move" /\ k.at = pos[p]
      BY <1>1, PacketsMade
    <2> HIDE DEF k
    <2>2. f.id = p /\ f.at = pos[p] /\ f \in Avatars
      BY <1>3 DEF Right, Playing
    <2>3. ToAvatar(q, f, k) = f
      BY <2>1, <2>2 DEF ToAvatar, Avatars
    <2>4. Brings(q, <<k>>, Face(screen[q], f), Face(screen[q], f))
      BY <1>1, <2>1, <2>2, <2>3, BringsOwn
    <2> QED
      BY <1>2, <2>4 DEF k, StaysRight
  <1>4. CASE ~(q \in Linked /\ q = p)
    <2>1. One(q \in Linked /\ q = p, MoveTo(p, pos[p])) = << >>
      BY <1>4 DEF One
    <2> QED
      BY <1>1, <1>2, <2>1, TellNone, ReportedByTelling
  <1> QED
    BY <1>3, <1>4

\* Damage, or Heal: a player that lives is told its status (Player.cpp:182-220,
\* 307-323).
LEMMA StatusReported ==
    ASSUME ClientInv, NEW p \in Players, life[p] = "inGame", UNCHANGED vars, NEW q \in Players
    PROVE  Reported(q, One(q = p /\ p \in Linked, About("status", p)))
  <1>1. screen[q] \in [Objects -> Looks] /\ p \in Objects
    BY DEF ClientInv, ListInv, TypeOK, Objects
  <1>2. screen' = screen /\ StaysRight(q)
    BY RightStays DEF vars, objectVars, Playing, InWorld, Linked
  <1>3. CASE q = p /\ p \in Linked
    <2> SUFFICES ASSUME NEW f, Right(q, f)
                 PROVE  \E g : /\ Brings(q, <<About("status", p)>>,
                                          Face(screen[q], f), Face(screen'[q], g))
                               /\ Right(q, g)'
      BY <1>3 DEF Reported, One
    <2> DEFINE k == About("status", p)
               g == ToAvatar(q, f, k)
    <2>1. k \in Packets /\ k.id = p /\ k.type = "status"
      BY <1>1, PacketsMade
    <2> HIDE DEF k
    <2>2. f.id = p /\ f.at = pos[p] /\ f \in Avatars /\ Playing(q)
      BY <1>3 DEF Right, Playing, InWorld
    <2>3. Brings(q, <<k>>, Face(screen[q], f), Face(screen[q], g))
      BY <1>1, <2>1, <2>2, BringsOwn
    <2>4. g = [f EXCEPT !.dead = FALSE, !.mistaken = FALSE]
      BY <2>1 DEF ToAvatar
    <2>5. Right(q, g)
      BY <1>3, <2>2, <2>4 DEF Right, Avatars
    <2> HIDE DEF g
    <2> QED
      BY <1>2, <2>3, <2>5 DEF k, StaysRight
  <1>4. CASE ~(q = p /\ p \in Linked)
    <2>1. One(q = p /\ p \in Linked, About("status", p)) = << >>
      BY <1>4 DEF One
    <2> QED
      BY <1>1, <1>2, <2>1, TellNone, ReportedByTelling
  <1> QED
    BY <1>3, <1>4

\* Chat is shown by the player that sends it and by those it sees
\* (Session.cpp:420-446).
LEMMA ChatReported ==
    ASSUME ClientInv, NEW p \in Players, Chat(p), NEW q \in Players
    PROVE  Reported(q, One(q \in Linked /\ (q = p \/ (q \in view[p] /\ InWorld(q))),
                           About("chat", p)))
  <1> DEFINE cond == q \in Linked /\ (q = p \/ (q \in view[p] /\ InWorld(q)))
             k == About("chat", p)
  <1>1. screen[q] \in [Objects -> Looks] /\ p \in Objects /\ p \notin view[p] /\ InWorld(p)
    BY DEF ClientInv, ListInv, NotSelf, TypeOK, Objects, Chat, InWorld
  <1>2. k \in Packets /\ k.id = p
    BY <1>1, PacketsMade
  <1>3. /\ screen'[q] \in [Objects -> Looks]
        /\ \A o \in Objects : screen'[q][o] =
             IF o = p /\ q # p /\ cond THEN AfterChat(screen[q][o]) ELSE screen[q][o]
    <2>1. screen'[q] \in [Objects -> Looks]
      BY TypeStep DEF ClientInv, ListInv, Next, TypeOK
    <2> QED
      BY <1>1, <2>1 DEF Chat
  <1>4. StaysRight(q)
    BY RightStays DEF Chat, objectVars, Playing, InWorld, Linked
  <1>5. cond \in BOOLEAN /\ (cond => Playing(q))
    BY <1>1 DEF Playing
  <1> HIDE DEF cond
  <1>6. ASSUME NEW f, Right(q, f)
        PROVE  TellEach(q, f.id, One(cond, k), screen[q], screen'[q])
    <2>1. cond => f.id = q
      BY <1>5, <1>6 DEF Right
    <2>2. ASSUME cond
          PROVE  Tells(q, f.id, k, screen[q][p], screen'[q][p])
      <3>1. f.id = q /\ screen[q][p] \in Looks
        BY <1>1, <2>1, <2>2
      <3>2. CASE q = p
        <4>1. screen'[q][p] = screen[q][p]
          BY <1>1, <1>3, <3>2
        <4> QED
          BY <1>1, <3>1, <3>2, <4>1, PacketsTell
      <3>3. CASE q # p
        <4>1. screen'[q][p] = AfterChat(screen[q][p])
          BY <1>1, <1>3, <2>2, <3>3
        <4>2. p # f.id
          BY <3>1, <3>3
        <4>3. Tells(q, f.id, k, screen[q][p], AfterChat(screen[q][p]))
          BY <1>1, <3>1, <4>2, PacketsTell
        <4> QED
          BY <4>1, <4>3
      <3> QED
        BY <3>2, <3>3
    <2>3. \A o \in Objects : screen'[q][o] = screen[q][o] \/ (cond /\ o = k.id)
      BY <1>2, <1>3
    <2> HIDE DEF k
    <2> QED
      BY <1>1, <1>2, <1>3, <1>5, <2>2, <2>3, TellOneIf
  <1> QED
    BY <1>4, <1>6, ReportedByTelling DEF cond, k

\* Death of a player: it is told its status and that it is dead, those it lists
\* that it died (Player.cpp:194-255).
LEMMA DieReported ==
    ASSUME ClientInv, NEW p \in Players, Die(p), NEW q \in Players
    PROVE  Reported(q, IF q = p
                       THEN One(p \in Linked, About("status", p)) \o One(p \in Linked, About("die", p))
                       ELSE One(q \in view[p] \cap open, About("die", p)))
  <1> DEFINE cond == q \in view[p] \cap open
             k == About("die", p)
  <1>1. /\ screen[q] \in [Objects -> Looks] /\ p \in Objects /\ p \notin view[p]
        /\ ListInv /\ TypeOK /\ InWorld(p)
    BY DEF ClientInv, ListInv, NotSelf, TypeOK, Objects, Die, InWorld
  <1>2. k \in Packets /\ k.id = p /\ k.type = "die"
    BY <1>1, PacketsMade
  <1>3. /\ screen'[q] \in [Objects -> Looks]
        /\ \A o \in Objects : screen'[q][o] =
             IF o = p /\ cond THEN AfterDie(screen[q][o]) ELSE screen[q][o]
    <2>1. screen'[q] \in [Objects -> Looks]
      BY TypeStep DEF ClientInv, ListInv, Next, TypeOK
    <2> QED
      BY <2>1 DEF Die
  <1> HIDE DEF cond
  <1>4. StaysRight(q)
    BY <1>1, RightStays DEF Die, Playing, InWorld, Linked, TypeOK, Objects
  <1>5. CASE q = p
    <2>1. screen'[q] = screen[q]
      <3>1. ~cond
        BY <1>1, <1>5 DEF cond
      <3> QED
        BY <1>1, <1>3, <3>1
    <2>2. CASE p \in Linked
      <3> DEFINE j == About("status", p)
      <3>1. j \in Packets /\ j.id = p /\ j.type = "status"
        BY <1>1, PacketsMade
      <3>2. One(p \in Linked, j) \o One(p \in Linked, k) = <<j>> \o <<k>>
        BY <2>2 DEF One
      <3> HIDE DEF k, j
      <3>3. ASSUME NEW f, Right(q, f)
            PROVE  \E g : /\ Brings(q, <<j>> \o <<k>>, Face(screen[q], f), Face(screen'[q], g))
                          /\ Right(q, g)'
        <4> DEFINE e == ToAvatar(q, f, j)
                   g == ToAvatar(q, e, k)
        <4>1. f.id = p /\ f.at = pos[p] /\ f \in Avatars
          BY <1>1, <1>5, <2>2, <3>3 DEF Right, Playing
        <4>2. e = [f EXCEPT !.dead = FALSE, !.mistaken = FALSE]
          BY <3>1 DEF ToAvatar
        <4>3. e.id = p /\ e.at = pos[p] /\ e \in Avatars
          BY <4>1, <4>2 DEF Avatars
        <4>4. Brings(q, <<j>>, Face(screen[q], f), Face(screen[q], e))
          BY <1>1, <3>1, <4>1, BringsOwn
        <4> HIDE DEF e
        <4>5. g = [e EXCEPT !.dead = TRUE, !.mistaken = e.mistaken \/ k.id # q]
          BY <1>2 DEF ToAvatar
        <4>6. Brings(q, <<k>>, Face(screen[q], e), Face(screen[q], g))
          BY <1>1, <1>2, <4>3, BringsOwn
        <4>7. g.id = p /\ g.at = pos[p] /\ g \in Avatars
          BY <4>3, <4>5 DEF Avatars
        <4> HIDE DEF g
        <4>8. Right(q, g)'
          BY <1>1, <1>5, <2>2, <4>7 DEF Die, Right, Playing, InWorld, Linked, TypeOK
        <4> QED
          BY <2>1, <4>4, <4>6, <4>8, BringsBoth
      <3> QED
        BY <1>5, <3>2, <3>3 DEF Reported, k, j
    <2>3. CASE p \notin Linked
      <3>1. One(p \in Linked, About("status", p)) \o One(p \in Linked, About("die", p)) = << >>
        BY <2>3 DEF One
      <3> QED
        BY <1>1, <1>4, <1>5, <2>1, <3>1, TellNone, ReportedByTelling
    <2> QED
      BY <2>2, <2>3
  <1>6. CASE q # p
    <2>1. cond \in BOOLEAN
      BY DEF cond
    <2>2. ASSUME NEW f, Right(q, f)
          PROVE  \E g : /\ Brings(q, One(cond, k), Face(screen[q], f), Face(screen'[q], g))
                        /\ Right(q, g)'
      <3>1. CASE f.id # p
        <4>1. Tells(q, f.id, k, screen[q][p], AfterDie(screen[q][p]))
          BY <1>1, <3>1, PacketsTell
        <4>2. cond => Tells(q, f.id, k, screen[q][k.id], screen'[q][k.id])
          BY <1>1, <1>2, <1>3, <4>1
        <4>3. \A o \in Objects : screen'[q][o] = screen[q][o] \/ (cond /\ o = k.id)
          BY <1>2, <1>3
        <4> HIDE DEF k
        <4>4. TellEach(q, f.id, One(cond, k), screen[q], screen'[q])
          BY <1>1, <1>2, <1>3, <2>1, <4>2, <4>3, TellOneIf
        <4> QED
          BY <1>4, <2>2, <4>4, BringsTold DEF StaysRight
      <3>2. CASE f.id = p
        <4>1. ~Playing(q) /\ p = Zero /\ screen[q][p] = Absent
          BY <1>1, <1>6, <2>2, <3>2, Unknowing
        <4>2. screen'[q] = screen[q]
          <5>1. AfterDie(Absent) = Absent
            BY DEF AfterDie
          <5> QED
            BY <1>1, <1>3, <4>1, <5>1
        <4>3. CASE ~cond
          <5>1. One(cond, k) = << >>
            BY <4>3 DEF One
          <5> QED
            BY <1>1, <1>4, <2>2, <4>2, <5>1, BringsNone DEF StaysRight
        <4>4. CASE cond
          <5> DEFINE g == ToAvatar(q, f, k)
          <5>1. One(cond, k) = <<k>>
            BY <4>4 DEF One
          <5> HIDE DEF k
          <5>2. g = [f EXCEPT !.dead = TRUE, !.mistaken = f.mistaken \/ k.id # q]
            BY <1>2 DEF ToAvatar
          <5>3. Brings(q, <<k>>, Face(screen[q], f), Face(screen'[q], g))
            BY <1>1, <1>2, <3>2, <4>2, BringsOwn
          <5>4. Right(q, g)
            <6>1. f \in Avatars /\ f.id = Zero /\ k.id # q
              BY <1>2, <1>6, <2>2, <4>1 DEF Right
            <6>2. g \in Avatars /\ g.id = Zero /\ g.mistaken
              BY <5>2, <6>1 DEF Avatars
            <6> HIDE DEF g
            <6> QED
              BY <4>1, <6>2 DEF Right
          <5> HIDE DEF g
          <5> QED
            BY <1>4, <5>1, <5>3, <5>4 DEF StaysRight
        <4> QED
          BY <4>3, <4>4
      <3> QED
        BY <3>1, <3>2
    <2> QED
      BY <1>6, <2>2 DEF Reported, cond, k
  <1> QED
    BY <1>5, <1>6

\* An attack: the player and those it lists show it; whoever is around an NPC
\* that dies is told, and the player its status, which shows it alive
\* (Player.cpp:141-191, 281-294, NPC.cpp:226-262).
LEMMA AttackReported ==
    ASSUME ClientInv, NEW p \in Players, NEW killed \in SUBSET NPCs, Attack(p, killed),
           NEW q \in Players
    PROVE  Reported(q, One(q = p /\ p \in Linked, About("attack", p))
                       \o One(q \in view[p] \cap open, About("attack", p))
                       \o ForEach({n \in killed : q \in NearbyPlayers(pos[n]) \cap Linked},
                                  LAMBDA n : About("die", n))
                       \o One(q = p /\ p \in Linked /\ killed # {}, About("status", p)))
  <1> DEFINE S == {n \in killed : q \in NearbyPlayers(pos[n]) \cap Linked}
             k == About("attack", p)
             j == About("status", p)
             dies == [o \in Objects |-> About("die", o)]
             a == One(q = p /\ p \in Linked, k)
             b == One(q \in view[p] \cap open, k)
             c == [i \in DOMAIN SetToSeq(S) |-> dies[SetToSeq(S)[i]]]
             cond == q = p /\ p \in Linked /\ killed # {}
             e == One(cond, j)
  <1>1. /\ screen[q] \in [Objects -> Looks] /\ p \in Objects
        /\ NPCs \subseteq Objects /\ S \subseteq NPCs /\ q \notin NPCs
    BY Apart DEF ClientInv, ListInv, TypeOK, Objects
  <1>2. /\ k \in Packets /\ k.id = p /\ j \in Packets /\ j.id = p /\ j.type = "status"
        /\ dies \in [Objects -> Packets] /\ \A o \in Objects : dies[o].id = o
    BY <1>1, PacketsMade
  <1>3. /\ screen'[q] \in [Objects -> Looks]
        /\ \A o \in Objects : screen'[q][o] =
             IF o \in S THEN AfterDie(screen[q][o]) ELSE screen[q][o]
    <2>1. screen'[q] \in [Objects -> Looks]
      BY TypeStep DEF ClientInv, ListInv, Next, TypeOK
    <2> QED
      BY <1>1, <2>1 DEF Attack
  <1>4. ASSUME NEW x \in BOOLEAN, NEW f
        PROVE  TellEach(q, f.id, One(x, k), screen[q], screen[q])
    <2>1. \A o \in Objects : Tells(q, f.id, About("attack", p), screen[q][o], screen[q][o])
      BY <1>1, PacketsTell
    <2> HIDE DEF k
    <2>2. Tells(q, f.id, k, screen[q][k.id], screen[q][k.id])
      BY <1>1, <1>2, <2>1 DEF k
    <2> QED
      BY <1>1, <1>2, <2>2, TellSame
  <1>5. ASSUME NEW f, Right(q, f)
        PROVE  TellEach(q, f.id, c, screen[q], screen'[q])
    <2>0. f.id \in Players
      BY <1>5 DEF Right, Avatars
    <2>1. ASSUME NEW o \in S
          PROVE  Tells(q, f.id, dies[o], screen[q][o], screen'[q][o])
      <3>1. o \in Objects /\ o # f.id /\ screen[q][o] \in Looks
        BY <1>1, <2>0, Apart
      <3>2. dies[o] = About("die", o) /\ screen'[q][o] = AfterDie(screen[q][o])
        BY <1>3, <3>1
      <3> HIDE DEF S, dies
      <3>3. Tells(q, f.id, About("die", o), screen[q][o], AfterDie(screen[q][o]))
        BY <3>1, PacketsTell
      <3> QED
        BY <3>2, <3>3
    <2>2. S \subseteq Objects /\ \A o \in Objects \ S : screen'[q][o] = screen[q][o]
      BY <1>1, <1>3
    <2> HIDE DEF S, dies
    <2> QED
      BY <1>1, <1>2, <1>3, <2>1, <2>2, TellForEach
  <1>6. c = ForEach(S, LAMBDA n : About("die", n))
    <2>1. \A i \in DOMAIN SetToSeq(S) : SetToSeq(S)[i] \in Objects
      <3>1. PICK n \in Nat : SetToSeq(S) \in [1..n -> S]
        BY <1>1, Listing
      <3> QED
        BY <1>1, <3>1
    <2> HIDE DEF S
    <2> QED
      BY <2>1 DEF ForEach
  <1>7. /\ (q = p /\ p \in Linked) \in BOOLEAN /\ (q \in view[p] \cap open) \in BOOLEAN
        /\ cond \in BOOLEAN
    OBVIOUS
  <1> HIDE DEF S, k, j, dies, cond
  <1>8. \A f : TellEach(q, f.id, a, screen[q], screen[q]) /\ TellEach(q, f.id, b, screen[q], screen[q])
    BY <1>4, <1>7
  <1> HIDE DEF a, b, c
  <1>9. ASSUME NEW f, Right(q, f)
        PROVE  Brings(q, a \o b \o c, Face(screen[q], f), Face(screen'[q], f))
    <2>1. Brings(q, a, Face(screen[q], f), Face(screen[q], f))
      BY <1>8, BringsTold
    <2>2. Brings(q, b, Face(screen[q], f), Face(screen[q], f))
      BY <1>8, BringsTold
    <2>3. Brings(q, c, Face(screen[q], f), Face(screen'[q], f))
      BY <1>5, <1>9, BringsTold
    <2>4. Brings(q, a \o b, Face(screen[q], f), Face(screen[q], f))
      BY <2>1, <2>2, BringsBoth
    <2> QED
      BY <2>3, <2>4, BringsBoth
  <1>10. StaysRight(q)
    BY <1>1, RightStays DEF Attack, Playing, InWorld, Linked, ClientInv, ListInv, TypeOK, Objects
  <1>11. CASE cond
    <2>1. e = <<j>>
      BY <1>11 DEF One
    <2> HIDE DEF e
    <2>2. ASSUME NEW f, Right(q, f)
          PROVE  \E g : /\ Brings(q, a \o b \o c \o e, Face(screen[q], f), Face(screen'[q], g))
                        /\ Right(q, g)'
      <3> DEFINE g == ToAvatar(q, f, j)
      <3>1. f.id = p /\ f \in Avatars /\ f.at = pos[p] /\ Playing(q)
        BY <1>11, <2>2 DEF Attack, Right, Playing, cond
      <3>2. g = [f EXCEPT !.dead = FALSE, !.mistaken = FALSE]
        BY <1>2 DEF ToAvatar
      <3>3. Brings(q, e, Face(screen'[q], f), Face(screen'[q], g))
        BY <1>2, <1>3, <2>1, <3>1, BringsOwn
      <3>4. Right(q, g)
        BY <1>11, <3>1, <3>2 DEF Right, Avatars, cond
      <3> HIDE DEF g
      <3>5. Brings(q, a \o b \o c \o e, Face(screen[q], f), Face(screen'[q], g))
        BY <1>9, <2>2, <3>3, BringsBoth
      <3> QED
        BY <1>10, <3>4, <3>5 DEF StaysRight
    <2> QED
      BY <1>6, <2>2 DEF Reported, e, cond, j, a, b, k, S
  <1>12. CASE ~cond
    <2>1. e = << >>
      BY <1>12 DEF One
    <2> HIDE DEF e
    <2>2. ASSUME NEW f, Right(q, f)
          PROVE  Brings(q, a \o b \o c \o e, Face(screen[q], f), Face(screen'[q], f))
      <3>1. Brings(q, e, Face(screen'[q], f), Face(screen'[q], f))
        BY <1>3, <2>1, BringsNone
      <3> QED
        BY <1>9, <2>2, <3>1, BringsBoth
    <2> QED
      BY <1>6, <1>10, <2>2, ReportedToWatcher DEF e, cond, j, a, b, k, S
  <1> QED
    BY <1>11, <1>12

\* A respawn: the player is told whom it sees, its status, which shows it
\* alive, and where it is (Player.cpp:227-278).
LEMMA RespawnReported ==
    ASSUME ClientInv, NEW p \in Players, Respawn(p), NEW q \in Players
    PROVE  Reported(q, ViewPackets(p, origin[p], {}, Sight(p, origin[p]), q)
                       \o One(q = p /\ p \in Linked, About("status", p))
                       \o One(q = p /\ p \in Linked, Add(p, origin[p])))
  <1>0. PICK c : c = origin[p]
    OBVIOUS
  <1> DEFINE v == ViewPackets(p, c, {}, Sight(p, c), q)
             j == About("status", p)
             k == Add(p, c)
             cond == q = p /\ p \in Linked
             a == One(cond, j)
             b == One(cond, k)
  <1>1. /\ TypeOK /\ ListInv /\ InWorld(p) /\ \A o \in Sight(p, c) : InWorld(o)
        /\ p \in Objects /\ c \in Cells
        /\ Sight(p, c) \in SUBSET (Objects \ {p}) /\ {} \in SUBSET (Objects \ {p})
        /\ screen[q] \in [Objects -> Looks]
    BY <1>0 DEF ClientInv, ListInv, TypeOK, Objects, Sight, Respawn, InWorld
  <1>2. screen' = ViewUpdated(p, c, {}, Sight(p, c))
    BY <1>0 DEF Respawn
  <1>3. /\ k \in Packets /\ k.id = p /\ k.type = "add" /\ k.at = c
        /\ j \in Packets /\ j.id = p /\ j.type = "status"
    BY <1>1, PacketsMade
  <1> HIDE DEF k, j
  <1>4. ASSUME NEW f, Right(q, f)
        PROVE  Brings(q, v, Face(screen[q], f), Face(screen'[q], f))
    <2>1. Knows(p, q, f.id, Sight(p, c))
      BY <1>1, <1>4, KnowsView
    <2> QED
      BY <1>1, <1>2, <2>1, BringsView
  <1>5. screen'[q] \in [Objects -> Looks]
    BY <1>1, <1>2, ScreensUpdated
  <1> HIDE DEF v
  <1>6. CASE cond
    <2>1. a = <<j>> /\ b = <<k>>
      BY <1>6 DEF One
    <2> HIDE DEF a, b
    <2>2. ASSUME NEW f, Right(q, f)
          PROVE  \E g : /\ Brings(q, v \o a \o b, Face(screen[q], f), Face(screen'[q], g))
                        /\ Right(q, g)'
      <3> DEFINE e == ToAvatar(q, f, j)
                 g == ToAvatar(q, e, k)
      <3>1. f.id = p /\ f \in Avatars /\ Playing(q)
        BY <1>1, <1>6, <2>2 DEF Right, Playing
      <3>2. e = [f EXCEPT !.dead = FALSE, !.mistaken = FALSE]
        BY <1>3 DEF ToAvatar
      <3>3. e.id = p /\ ~e.dead /\ e \in Avatars
        BY <3>1, <3>2 DEF Avatars
      <3>4. Brings(q, a, Face(screen'[q], f), Face(screen'[q], e))
        BY <1>3, <1>5, <2>1, <3>1, BringsOwn
      <3> HIDE DEF e
      <3>5. g = [e EXCEPT !.at = c]
        BY <1>3 DEF ToAvatar
      <3>6. g.id = p /\ g.at = c /\ ~g.dead /\ g \in Avatars
        BY <1>1, <3>3, <3>5 DEF Avatars
      <3>7. Brings(q, b, Face(screen'[q], e), Face(screen'[q], g))
        BY <1>3, <1>5, <2>1, <3>3, BringsOwn
      <3> HIDE DEF g
      <3>8. Brings(q, v \o a, Face(screen[q], f), Face(screen'[q], e))
        BY <1>4, <2>2, <3>4, BringsBoth
      <3>9. Right(q, g)'
        <4>1. pos'[p] = c
          BY <1>0, <1>1 DEF Respawn, TypeOK
        <4> QED
          BY <1>1, <1>6, <3>6, <4>1 DEF Respawn, Right, Playing, InWorld, Linked, TypeOK
      <3> QED
        BY <3>7, <3>8, <3>9, BringsBoth
    <2> QED
      BY <1>0, <2>2 DEF Reported, a, b, v, k, j
  <1>7. CASE ~cond
    <2>1. a = << >> /\ b = << >>
      BY <1>7 DEF One
    <2> HIDE DEF a, b
    <2>2. ASSUME NEW f, Right(q, f)
          PROVE  Brings(q, v \o a \o b, Face(screen[q], f), Face(screen'[q], f))
      <3>1. Brings(q, << >>, Face(screen'[q], f), Face(screen'[q], f))
        BY <1>5, BringsNone
      <3>2. Brings(q, v \o a, Face(screen[q], f), Face(screen'[q], f))
        BY <1>4, <2>1, <2>2, <3>1, BringsBoth
      <3> QED
        BY <2>1, <3>1, <3>2, BringsBoth
    <2>3. StaysRight(q)
      BY <1>1, <1>7, RightStays DEF Respawn, Playing, InWorld, Linked, TypeOK, Objects
    <2> QED
      BY <1>0, <2>2, <2>3, ReportedToWatcher DEF a, b, v, k, j
  <1> QED
    BY <1>6, <1>7

\* A step of an NPC: whoever is around is told that it came, moved or went
\* (NPC.cpp:425-468).
LEMMA NPCMoveReported ==
    ASSUME ClientInv, NEW n \in NPCs, NEW c \in Cells, NPCMove(n, c), NEW q \in Players
    PROVE  Reported(q, IF q \notin NearbyPlayers(c) \cap Linked THEN << >>
                       ELSE IF CanSee(c, pos[q])
                       THEN <<IF n \in view[q] THEN MoveTo(n, c) ELSE Add(n, c)>>
                       ELSE One(n \in view[q], About("remove", n)))
  <1> DEFINE told == q \in NearbyPlayers(c) \cap Linked
             k == IF CanSee(c, pos[q]) THEN IF n \in view[q] THEN MoveTo(n, c) ELSE Add(n, c)
                  ELSE About("remove", n)
             cond == told /\ (CanSee(c, pos[q]) \/ n \in view[q])
  <1>1. /\ screen[q] \in [Objects -> Looks] /\ n \in Objects /\ n # q
        /\ screen'[q] \in [Objects -> Looks]
    <2>1. screen'[q] \in [Objects -> Looks]
      BY TypeStep DEF ClientInv, ListInv, Next, TypeOK
    <2> QED
      BY <2>1, Apart DEF ClientInv, ListInv, TypeOK, Objects
  <1>2. k \in Packets /\ k.id = n
    BY <1>1, PacketsMade
  <1>3. \A o \in Objects : screen'[q][o] =
          IF o # n \/ ~told THEN screen[q][o]
          ELSE IF CanSee(c, pos[q])
          THEN IF n \in view[q] THEN AfterMove(screen[q][o], c) ELSE Shown(c)
          ELSE IF n \in view[q] THEN Absent ELSE screen[q][o]
    BY DEF NPCMove
  <1>4. ASSUME NEW f, Right(q, f), cond
        PROVE  Tells(q, f.id, k, screen[q][n], screen'[q][n])
    <2>0. n # f.id
      BY <1>4, Apart DEF Right, Avatars
    <2>1. /\ Tells(q, f.id, Add(n, c), screen[q][n], Shown(c))
          /\ Tells(q, f.id, MoveTo(n, c), screen[q][n], AfterMove(screen[q][n], c))
          /\ Tells(q, f.id, About("remove", n), screen[q][n], Absent)
      BY <1>1, <2>0, PacketsTell
    <2> QED
      BY <1>1, <1>3, <1>4, <2>1
  <1>5. \A f : Right(q, f) /\ cond => Tells(q, f.id, k, screen[q][k.id], screen'[q][k.id])
    BY <1>2, <1>4
  <1>6. \A o \in Objects : screen'[q][o] = screen[q][o] \/ (cond /\ o = k.id)
    BY <1>2, <1>3
  <1>7. cond \in BOOLEAN
    OBVIOUS
  <1>8. One(cond, k) =
          IF q \notin NearbyPlayers(c) \cap Linked THEN << >>
          ELSE IF CanSee(c, pos[q])
          THEN <<IF n \in view[q] THEN MoveTo(n, c) ELSE Add(n, c)>>
          ELSE One(n \in view[q], About("remove", n))
    BY DEF One
  <1> HIDE DEF cond, k
  <1>9. \A f : Right(q, f) => TellEach(q, f.id, One(cond, k), screen[q], screen'[q])
    BY <1>1, <1>2, <1>5, <1>6, <1>7, TellOneIf
  <1>10. StaysRight(q)
    BY <1>1, RightStays DEF NPCMove, Playing, InWorld, Linked, ClientInv, ListInv, TypeOK, Objects
  <1> QED
    BY <1>8, <1>9, <1>10, ReportedByTelling

\* An NPC respawns: whoever sees its home is told (NPC.cpp:265-301).
LEMMA NPCRespawnReported ==
    ASSUME ClientInv, NEW n \in NPCs, NPCRespawn(n), NEW q \in Players
    PROVE  Reported(q, One(q \in NearbyPlayers(origin[n]) \cap Linked /\ CanSee(origin[n], pos[q]),
                           Add(n, origin[n])))
  <1> DEFINE cond == q \in NearbyPlayers(origin[n]) \cap Linked /\ CanSee(origin[n], pos[q])
             k == Add(n, origin[n])
  <1>1. /\ screen[q] \in [Objects -> Looks] /\ n \in Objects /\ n # q
        /\ screen'[q] \in [Objects -> Looks] /\ origin[n] \in Cells
    <2>1. screen'[q] \in [Objects -> Looks]
      BY TypeStep DEF ClientInv, ListInv, Next, TypeOK
    <2> QED
      BY <2>1, Apart DEF ClientInv, ListInv, TypeOK, Objects
  <1>2. k \in Packets /\ k.id = n
    BY <1>1, PacketsMade
  <1>3. \A o \in Objects : screen'[q][o] =
          IF o = n /\ cond THEN Shown(origin[n]) ELSE screen[q][o]
    BY DEF NPCRespawn
  <1>4. ASSUME NEW f, Right(q, f)
        PROVE  Tells(q, f.id, k, screen[q][n], Shown(origin[n]))
    <2>1. n # f.id
      BY <1>4, Apart DEF Right, Avatars
    <2> QED
      BY <1>1, <2>1, PacketsTell
  <1>5. \A f : Right(q, f) /\ cond => Tells(q, f.id, k, screen[q][k.id], screen'[q][k.id])
    BY <1>1, <1>2, <1>3, <1>4
  <1>6. \A o \in Objects : screen'[q][o] = screen[q][o] \/ (cond /\ o = k.id)
    BY <1>2, <1>3
  <1>7. cond \in BOOLEAN
    OBVIOUS
  <1> HIDE DEF cond, k
  <1>8. \A f : Right(q, f) => TellEach(q, f.id, One(cond, k), screen[q], screen'[q])
    BY <1>1, <1>2, <1>5, <1>6, <1>7, TellOneIf
  <1>9. StaysRight(q)
    BY <1>1, RightStays DEF NPCRespawn, Playing, InWorld, Linked, ClientInv, ListInv, TypeOK, Objects
  <1> QED
    BY <1>8, <1>9, ReportedByTelling DEF cond, k

-----------------------------------------------------------------------------
(* The steps *)

\* Every step here is one of World, or nothing that World knows of.
LEMMA StepOfWorld == [ClientNext]_allVars => [Next]_vars
  <1> SUFFICES ASSUME [ClientNext]_allVars
               PROVE  Next \/ UNCHANGED vars
    OBVIOUS
  <1>1. ASSUME NEW p \in Players,
               \/ AcceptClient(p) \/ EndClient(p) \/ LogoutEvent(p)
               \/ \E c \in Saved : LoginEvent(p, c)
        PROVE  Next
    BY <1>1 DEF Next, AcceptClient, EndClient, LogoutEvent, LoginEvent
  <1>2. ASSUME NEW p \in Players, MoveEvent(p)
        PROVE  Next
    <2>1. Move(p, asked[p].to) /\ asked[p].to \in Free
      BY <1>2 DEF MoveEvent, Move
    <2> QED
      BY <2>1 DEF Next
  <1>3. ASSUME NEW p \in Players, SyncEvent(p) \/ TooSoon(p) \/ StatusEvent(p)
        PROVE  UNCHANGED vars
    BY <1>3 DEF SyncEvent, TooSoon, StatusEvent
  <1>4. ASSUME NEW p \in Players, ChatEvent(p)
        PROVE  Next \/ UNCHANGED vars
    BY <1>4 DEF ChatEvent, Next
  <1>5. ASSUME NEW p \in Players,
               \/ \E killed \in SUBSET NPCs : AttackEvent(p, killed)
               \/ DieEvent(p) \/ RespawnEvent(p) \/ DropRespawnEvent(p)
        PROVE  Next
    BY <1>5 DEF Next, AttackEvent, DieEvent, RespawnEvent, DropRespawnEvent
  <1>6. ASSUME NEW p \in Players, Receive(p) \/ Press(p) \/ \E o \in Objects : Erase(p, o)
        PROVE  UNCHANGED vars
    BY <1>6 DEF Receive, Press, Erase
  <1>7. ASSUME NEW n \in NPCs, \/ \E c \in Cells : NPCMoveEvent(n, c)
                               \/ NPCRespawnEvent(n)
        PROVE  Next
    BY <1>7 DEF Next, NPCMoveEvent, NPCRespawnEvent
  <1>8. CASE UNCHANGED allVars
    BY <1>8 DEF allVars
  <1> QED
    BY <1>1, <1>2, <1>3, <1>4, <1>5, <1>6, <1>7, <1>8 DEF ClientNext

\* Nobody lists itself (SectorManager.cpp:126).
LEMMA NotSelfStep == TypeOK /\ NotSelf /\ [Next]_vars => NotSelf'
  <1> SUFFICES ASSUME TypeOK, NotSelf, [Next]_vars, NEW q \in Players
               PROVE  q \notin view'[q]
    BY DEF NotSelf
  <1>1. q \notin view[q] /\ \A p \in Players : \A c : p \notin Sight(p, c)
    BY DEF NotSelf, Sight
  <1>2. ASSUME NEW p \in Players,
               \/ Accept(p) \/ Disconnect(p) \/ Chat(p) \/ Die(p) \/ DropRespawn(p)
        PROVE  q \notin view'[q]
    BY <1>1, <1>2 DEF Accept, Disconnect, Chat, Die, DropRespawn
  <1>3. ASSUME NEW p \in Players, NEW c,
               \/ Login(p, c) \/ Logout(p) \/ Move(p, c) \/ Respawn(p)
        PROVE  q \notin view'[q]
    BY <1>1, <1>3 DEF Login, Logout, Move, Respawn, TypeOK
  <1>4. ASSUME NEW p \in Players, NEW killed \in SUBSET NPCs, Attack(p, killed)
        PROVE  q \notin view'[q]
    BY <1>1, <1>4 DEF Attack
  <1>5. ASSUME NEW n \in NPCs, NEW c \in Cells, NPCMove(n, c)
        PROVE  q \notin view'[q]
    BY <1>1, <1>5, Apart DEF NPCMove
  <1>6. ASSUME NEW n \in NPCs, NPCRespawn(n)
        PROVE  q \notin view'[q]
    BY <1>1, <1>6 DEF NPCRespawn
  <1>7. CASE UNCHANGED vars
    BY <1>1, <1>7 DEF vars
  <1> QED
    BY <1>2, <1>3, <1>4, <1>5, <1>6, <1>7 DEF Next

\* A Player is there until its logout event (Session.cpp:349-361).
LEMMA LeaversHereStep == TypeOK /\ LeaversHere /\ [Next]_vars => LeaversHere'
  <1> SUFFICES ASSUME TypeOK, LeaversHere, [Next]_vars, NEW q \in leaving'
               PROVE  life'[q] # "out"
    BY DEF LeaversHere, InWorld
  <1>0. /\ life \in [Objects -> {"out", "inGame", "dead"}] /\ Players \subseteq Objects
        /\ NPCs \subseteq Objects /\ leaving \subseteq Players
        /\ q \in leaving => life[q] # "out"
    BY DEF TypeOK, Objects, LeaversHere, InWorld
  <1>1. ASSUME NEW p \in Players, Accept(p) \/ Chat(p) \/ DropRespawn(p)
        PROVE  life'[q] # "out"
    BY <1>0, <1>1 DEF Accept, Chat, DropRespawn, objectVars
  <1>2. ASSUME NEW p \in Players, Disconnect(p)
        PROVE  life'[q] # "out"
    BY <1>0, <1>2 DEF Disconnect, InWorld, objectVars
  <1>3. ASSUME NEW p \in Players, NEW c, Login(p, c) \/ Move(p, c)
        PROVE  life'[q] # "out"
    BY <1>0, <1>3 DEF Login, Move
  <1>4. ASSUME NEW p \in Players, Logout(p) \/ Die(p) \/ Respawn(p)
        PROVE  life'[q] # "out"
    BY <1>0, <1>4 DEF Logout, Die, Respawn
  <1>5. ASSUME NEW p \in Players, NEW killed \in SUBSET NPCs, Attack(p, killed)
        PROVE  life'[q] # "out"
    BY <1>0, <1>5 DEF Attack
  <1>6. ASSUME NEW n \in NPCs, NPCRespawn(n) \/ (\E c \in Cells : NPCMove(n, c))
        PROVE  life'[q] # "out"
    BY <1>0, <1>6 DEF NPCRespawn, NPCMove
  <1>7. CASE UNCHANGED vars
    BY <1>0, <1>7 DEF vars, objectVars
  <1> QED
    BY <1>1, <1>2, <1>3, <1>4, <1>5, <1>6, <1>7 DEF Next

\* Nothing happens to a client.
LEMMA StaysOnItsWay ==
    ASSUME NEW q \in Players, CatchesUp(q),
           channel'[q] = channel[q], State(q)' = State(q), screen'[q] = screen[q],
           StaysRight(q)
    PROVE  CatchesUp(q)'
  BY DEF CatchesUp, Settled, Agrees, StaysRight

\* A session ends: what was under way is lost, the next client starts with
\* nothing.
LEMMA EndCatches ==
    ASSUME ClientInv, NEW p \in Players, EndClient(p), NEW q \in Players
    PROVE  CatchesUp(q)'
  <1>1. /\ players \in [Players -> [Objects -> ClientLooks]]
        /\ avatar \in [Players -> Avatars]
        /\ channel \in [Players -> Seq(Packets)]
        /\ screen \in [Players -> [Objects -> Looks]]
    BY DEF ClientInv, ListInv, ClientTypeOK, TypeOK
  <1>2. /\ screen' = [screen EXCEPT ![p] = Blank] /\ open' = open \ {p}
        /\ leaving \subseteq leaving' /\ leaving' \subseteq leaving \cup {p}
        /\ UNCHANGED <<life, pos>>
    BY DEF EndClient, Disconnect, objectVars
  <1>3. CASE q = p
    <2>1. channel'[p] = << >> /\ State(p)' = [others |-> Blank, avatar |-> Unnamed]
      BY <1>1 DEF EndClient, State
    <2>2. screen'[p] = Blank /\ Blank \in [Objects -> Looks] /\ ~Playing(p)'
      BY <1>1, <1>2, LooksApart DEF Blank, Playing, Linked
    <2>3. ASSUME NEW t, Leads(p, << >>, State(p)', t)
          PROVE  Settled(p, t)'
      <3>1. t \in ClientStates /\ MayTurn(State(p)', t)
        BY <2>3, LeadsByNone
      <3>2. Agrees(State(p)', Blank)
        BY <2>1 DEF Agrees, Shows
      <3>3. Agrees(t, Blank)
        BY <2>2, <3>1, <3>2, StillAgrees
      <3>4. t.avatar = Unnamed
        BY <2>1, <3>1 DEF MayTurn
      <3>5. Right(p, Unnamed)'
        BY <2>2, FirstId, Beginning DEF Right, Unnamed, Avatars
      <3> QED
        BY <2>2, <3>1, <3>3, <3>4, <3>5 DEF Settled, Agrees
    <2> QED
      BY <1>3, <2>1, <2>3 DEF CatchesUp
  <1>4. CASE q # p
    <2>1. /\ channel'[q] = channel[q] /\ State(q)' = State(q) /\ screen'[q] = screen[q]
      BY <1>1, <1>2, <1>4 DEF EndClient, State
    <2>2. StaysRight(q)
      BY <1>2, <1>4, RightStays DEF Playing, InWorld, Linked
    <2>3. CatchesUp(q)
      BY DEF ClientInv
    <2> QED
      BY <2>1, <2>2, <2>3, StaysOnItsWay
  <1> QED
    BY <1>3, <1>4

\* What the client of p does leaves the others' alone, and World.
LEMMA OthersStay ==
    ASSUME ClientInv, NEW p \in Players, NEW q \in Players, q # p, UNCHANGED vars,
           \A x \in Players \ {p} : channel'[x] = channel[x] /\ State(x)' = State(x)
    PROVE  CatchesUp(q)'
  <1>1. StaysRight(q)
    BY RightStays DEF vars, objectVars, Playing, InWorld, Linked
  <1>2. CatchesUp(q) /\ screen'[q] = screen[q]
    BY DEF ClientInv, vars
  <1> QED
    BY <1>1, <1>2, StaysOnItsWay

\* A client handles a packet (client.cpp:691-887).
LEMMA ReceiveCatches ==
    ASSUME ClientInv, NEW p \in Players, Receive(p), NEW q \in Players
    PROVE  State(p)' \in ClientStates /\ CatchesUp(q)'
  <1>1. /\ players \in [Players -> [Objects -> ClientLooks]]
        /\ avatar \in [Players -> Avatars]
        /\ channel \in [Players -> Seq(Packets)]
    BY DEF ClientInv, ClientTypeOK
  <1> DEFINE s == Processed(p, State(p), Head(channel[p]))
  <1>2. State(p) \in ClientStates /\ Head(channel[p]) \in Packets
    BY <1>1 DEF State, ClientStates, Receive
  <1>3. s \in ClientStates
    BY <1>2, ProcessedTypes
  <1>4. /\ channel'[p] = Tail(channel[p])
        /\ players'[p] = s.others /\ avatar'[p] = s.avatar
        /\ \A x \in Players \ {p} : channel'[x] = channel[x] /\ State(x)' = State(x)
        /\ UNCHANGED vars
    BY <1>1 DEF Receive, Becomes, State
  <1> HIDE DEF s
  <1>5. State(p)' = s
    BY <1>3, <1>4 DEF State, ClientStates
  <1>6. ASSUME q = p
        PROVE  CatchesUp(q)'
    <2>1. ASSUME NEW t, Leads(p, channel'[p], State(p)', t)
          PROVE  Settled(p, t)
      <3>1. Leads(p, Tail(channel[p]), Processed(p, State(p), Head(channel[p])), t)
        BY <1>4, <1>5, <2>1 DEF s
      <3>2. channel[p] \in Seq(Packets) /\ channel[p] # << >>
        BY <1>1 DEF Receive
      <3>3. Leads(p, channel[p], State(p), t)
        BY <1>2, <3>1, <3>2, LeadsOn
      <3> QED
        BY <3>3 DEF ClientInv, CatchesUp
    <2>2. \A t : Settled(p, t) => Settled(p, t)'
      BY <1>4 DEF Settled, Agrees, Right, Playing, InWorld, Linked, vars, objectVars
    <2> QED
      BY <1>6, <2>1, <2>2 DEF CatchesUp
  <1>7. ASSUME q # p
        PROVE  CatchesUp(q)'
    BY <1>4, <1>7, OthersStay
  <1> QED
    BY <1>3, <1>5, <1>6, <1>7

\* An object that is dying goes (client.cpp:1017-1029).
LEMMA EraseCatches ==
    ASSUME ClientInv, NEW p \in Players, NEW o \in Objects, Erase(p, o), NEW q \in Players
    PROVE  CatchesUp(q)'
  <1>1. players \in [Players -> [Objects -> ClientLooks]]
    BY DEF ClientInv, ClientTypeOK
  <1>2. /\ UNCHANGED channel /\ UNCHANGED vars
        /\ \A x \in Players \ {p} : State(x)' = State(x)
    BY <1>1 DEF Erase, State
  <1>3. CASE q = p
    <2>1. MayTurn(State(p), State(p)')
      BY <1>1 DEF MayTurn, MayBecome, State, Erase
    <2>2. ASSUME NEW t, Leads(p, channel'[p], State(p)', t)
          PROVE  Settled(p, t)
      <3>1. Leads(p, channel[p], State(p), t)
        BY <1>2, <2>1, <2>2, LeadsFrom
      <3> QED
        BY <3>1 DEF ClientInv, CatchesUp
    <2>3. \A t : Settled(p, t) => Settled(p, t)'
      BY <1>2 DEF Settled, Agrees, Right, Playing, InWorld, Linked, vars, objectVars
    <2> QED
      BY <1>3, <2>2, <2>3 DEF CatchesUp
  <1>4. CASE q # p
    BY <1>2, <1>4, OthersStay
  <1> QED
    BY <1>3, <1>4

\* What the packets under way are, and where they lead.
OnTheirWay == channel \in [Players -> Seq(Packets)] /\ \A q \in Players : CatchesUp(q)

\* The events that send packets: logins, logouts and steps ...
LEMMA ComingAndGoing ==
    ASSUME ClientInv, NEW p \in Players,
           (\E c \in Saved : LoginEvent(p, c)) \/ LogoutEvent(p) \/ MoveEvent(p) \/ SyncEvent(p)
    PROVE  OnTheirWay'
  <1>1. ASSUME NEW c \in Saved, LoginEvent(p, c)
        PROVE  OnTheirWay'
    <2> DEFINE sent == [q \in Players |->
                          One(q = p, [About("avatar", p) EXCEPT !.at = c])
                          \o ViewPackets(p, c, {}, Sight(p, c), q)]
    <2>1. Login(p, c) /\ Send(sent) /\ UNCHANGED programVars
      BY <1>1 DEF LoginEvent
    <2>2. \A q \in Players : Reported(q, sent[q])
      BY <2>1, LoginReported
    <2> HIDE DEF sent
    <2> QED
      BY <2>1, <2>2, ReportedToAll DEF OnTheirWay
  <1>2. ASSUME LogoutEvent(p)
        PROVE  OnTheirWay'
    <2> DEFINE sent == [q \in Players |-> ViewPackets(p, pos[p], view[p], {}, q)]
    <2>1. Logout(p) /\ Send(sent) /\ UNCHANGED programVars
      BY <1>2 DEF LogoutEvent
    <2>2. \A q \in Players : Reported(q, sent[q])
      BY <2>1, LogoutReported
    <2> HIDE DEF sent
    <2> QED
      BY <2>1, <2>2, ReportedToAll DEF OnTheirWay
  <1>3. ASSUME MoveEvent(p)
        PROVE  OnTheirWay'
    <2>0. PICK c : c = asked[p].to
      OBVIOUS
    <2> DEFINE sent == [q \in Players |->
                          ViewPackets(p, c, view[p], Sight(p, c), q)
                          \o One(q \in Linked /\ q = p, MoveTo(p, c))
                          \o One(q \in Sight(p, c) \cap open, MoveTo(p, c))]
    <2>1. Move(p, c) /\ c \in Free /\ Send(sent) /\ UNCHANGED programVars
      BY <1>3, <2>0 DEF MoveEvent, Handles, Move
    <2>2. \A q \in Players : Reported(q, sent[q])
      BY <2>1, MoveReported
    <2> HIDE DEF sent
    <2> QED
      BY <2>1, <2>2, ReportedToAll DEF OnTheirWay
  <1>4. ASSUME SyncEvent(p)
        PROVE  OnTheirWay'
    <2> DEFINE sent == [q \in Players |-> One(q \in Linked /\ q = p, MoveTo(p, pos[p]))]
    <2>1. UNCHANGED vars /\ Send(sent) /\ UNCHANGED programVars /\ InWorld(p)
      BY <1>4 DEF SyncEvent, Handles
    <2>2. \A q \in Players : Reported(q, sent[q])
      BY <2>1, SyncReported
    <2> HIDE DEF sent
    <2> QED
      BY <2>1, <2>2, ReportedToAll DEF OnTheirWay
  <1> QED
    BY <1>1, <1>2, <1>3, <1>4

\* ... attacks, damage, deaths and respawns of players ...
LEMMA Fighting ==
    ASSUME ClientInv, NEW p \in Players,
           \/ \E killed \in SUBSET NPCs : AttackEvent(p, killed)
           \/ DieEvent(p) \/ StatusEvent(p) \/ RespawnEvent(p)
    PROVE  OnTheirWay'
  <1>1. ASSUME NEW killed \in SUBSET NPCs, AttackEvent(p, killed)
        PROVE  OnTheirWay'
    <2> DEFINE sent == [q \in Players |->
                          One(q = p /\ p \in Linked, About("attack", p))
                          \o One(q \in view[p] \cap open, About("attack", p))
                          \o ForEach({n \in killed : q \in NearbyPlayers(pos[n]) \cap Linked},
                                     LAMBDA n : About("die", n))
                          \o One(q = p /\ p \in Linked /\ killed # {}, About("status", p))]
    <2>1. Attack(p, killed) /\ Send(sent) /\ UNCHANGED programVars
      BY <1>1 DEF AttackEvent, Handles
    <2>2. \A q \in Players : Reported(q, sent[q])
      BY <2>1, AttackReported
    <2> HIDE DEF sent
    <2> QED
      BY <2>1, <2>2, ReportedToAll DEF OnTheirWay
  <1>2. ASSUME DieEvent(p)
        PROVE  OnTheirWay'
    <2> DEFINE sent == [q \in Players |->
                          IF q = p
                          THEN One(p \in Linked, About("status", p))
                               \o One(p \in Linked, About("die", p))
                          ELSE One(q \in view[p] \cap open, About("die", p))]
    <2>1. Die(p) /\ Send(sent) /\ UNCHANGED programVars
      BY <1>2 DEF DieEvent
    <2>2. \A q \in Players : Reported(q, sent[q])
      BY <2>1, DieReported
    <2> HIDE DEF sent
    <2> QED
      BY <2>1, <2>2, ReportedToAll DEF OnTheirWay
  <1>3. ASSUME RespawnEvent(p)
        PROVE  OnTheirWay'
    <2> DEFINE sent == [q \in Players |->
                          ViewPackets(p, origin[p], {}, Sight(p, origin[p]), q)
                          \o One(q = p /\ p \in Linked, About("status", p))
                          \o One(q = p /\ p \in Linked, Add(p, origin[p]))]
    <2>1. Respawn(p) /\ Send(sent) /\ UNCHANGED programVars
      BY <1>3 DEF RespawnEvent
    <2>2. \A q \in Players : Reported(q, sent[q])
      BY <2>1, RespawnReported
    <2> HIDE DEF sent
    <2> QED
      BY <2>1, <2>2, ReportedToAll DEF OnTheirWay
  <1>4. ASSUME StatusEvent(p)
        PROVE  OnTheirWay'
    <2> DEFINE sent == [q \in Players |-> One(q = p /\ p \in Linked, About("status", p))]
    <2>1. life[p] = "inGame" /\ UNCHANGED vars /\ Send(sent) /\ UNCHANGED programVars
      BY <1>4 DEF StatusEvent
    <2>2. \A q \in Players : Reported(q, sent[q])
      BY <2>1, StatusReported
    <2> HIDE DEF sent
    <2> QED
      BY <2>1, <2>2, ReportedToAll DEF OnTheirWay
  <1> QED
    BY <1>1, <1>2, <1>3, <1>4

\* ... and what NPCs do.
LEMMA NPCsActing ==
    ASSUME ClientInv, NEW n \in NPCs,
           (\E c \in Cells : NPCMoveEvent(n, c)) \/ NPCRespawnEvent(n)
    PROVE  OnTheirWay'
  <1>1. ASSUME NEW c \in Cells, NPCMoveEvent(n, c)
        PROVE  OnTheirWay'
    <2> DEFINE sent == [q \in Players |->
                          IF q \notin NearbyPlayers(c) \cap Linked THEN << >>
                          ELSE IF CanSee(c, pos[q])
                          THEN <<IF n \in view[q] THEN MoveTo(n, c) ELSE Add(n, c)>>
                          ELSE One(n \in view[q], About("remove", n))]
    <2>1. NPCMove(n, c) /\ Send(sent) /\ UNCHANGED programVars
      BY <1>1 DEF NPCMoveEvent
    <2>2. \A q \in Players : Reported(q, sent[q])
      BY <2>1, NPCMoveReported
    <2> HIDE DEF sent
    <2> QED
      BY <2>1, <2>2, ReportedToAll DEF OnTheirWay
  <1>2. ASSUME NPCRespawnEvent(n)
        PROVE  OnTheirWay'
    <2> DEFINE sent == [q \in Players |->
                          One(q \in NearbyPlayers(origin[n]) \cap Linked
                                /\ CanSee(origin[n], pos[q]),
                              Add(n, origin[n]))]
    <2>1. NPCRespawn(n) /\ Send(sent) /\ UNCHANGED programVars
      BY <1>2 DEF NPCRespawnEvent
    <2>2. \A q \in Players : Reported(q, sent[q])
      BY <2>1, NPCRespawnReported
    <2> HIDE DEF sent
    <2> QED
      BY <2>1, <2>2, ReportedToAll DEF OnTheirWay
  <1> QED
    BY <1>1, <1>2

\* Nothing is sent or handled.
LEMMA NothingSent ==
    ASSUME ClientInv, UNCHANGED <<channel, programVars>>,
           \/ UNCHANGED vars
           \/ \E p \in Players : Accept(p) \/ DropRespawn(p)
    PROVE  OnTheirWay'
  <1> SUFFICES ASSUME NEW q \in Players
               PROVE  CatchesUp(q)'
    BY DEF ClientInv, ClientTypeOK, OnTheirWay
  <1>1. State(q)' = State(q) /\ channel'[q] = channel[q] /\ CatchesUp(q)
    BY DEF State, programVars, ClientInv
  <1>2. screen'[q] = screen[q]
    BY DEF Accept, DropRespawn, vars
  <1>3. StaysRight(q)
    <2>1. CASE UNCHANGED vars
      BY <2>1, RightStays DEF vars, objectVars, Playing, InWorld, Linked
    <2>2. ASSUME NEW p \in Players, Accept(p)
          PROVE  StaysRight(q)
      <3>1. Playing(q)' <=> Playing(q)
        BY <2>2 DEF Accept, objectVars, Playing, InWorld, Linked, ClientInv, ListInv, Owned
      <3> QED
        BY <2>2, <3>1, RightStays DEF Accept, objectVars
    <2>3. ASSUME NEW p \in Players, DropRespawn(p)
          PROVE  StaysRight(q)
      BY <2>3, RightStays DEF DropRespawn, objectVars, Playing, InWorld, Linked
    <2> QED
      BY <2>1, <2>2, <2>3
  <1> QED
    BY <1>1, <1>2, <1>3, StaysOnItsWay

\* Every step leaves every client on its way.
LEMMA OnTheirWayStep ==
    ASSUME ClientInv, [ClientNext]_allVars
    PROVE  OnTheirWay'
  <1>0. channel \in [Players -> Seq(Packets)]
    BY DEF ClientInv, ClientTypeOK
  <1>1. ASSUME NEW p \in Players, AcceptClient(p)
        PROVE  OnTheirWay'
    BY <1>1, NothingSent DEF AcceptClient
  <1>2. ASSUME NEW p \in Players, EndClient(p)
        PROVE  OnTheirWay'
    <2>1. channel' \in [Players -> Seq(Packets)]
      BY <1>0, <1>2 DEF EndClient
    <2> QED
      BY <1>2, <2>1, EndCatches DEF OnTheirWay
  <1>3. ASSUME NEW p \in Players, TooSoon(p)
        PROVE  OnTheirWay'
    BY <1>3, NothingSent DEF TooSoon, Handles
  <1>4. ASSUME NEW p \in Players, ChatEvent(p)
        PROVE  OnTheirWay'
    <2>1. CASE life[p] = "inGame"
      <3> DEFINE sent == [q \in Players |->
                            One(q \in Linked /\ (q = p \/ (q \in view[p] /\ InWorld(q))),
                                About("chat", p))]
      <3>1. Chat(p) /\ Send(sent) /\ UNCHANGED programVars
        BY <1>4, <2>1 DEF ChatEvent, Handles
      <3>2. \A q \in Players : Reported(q, sent[q])
        BY <3>1, ChatReported
      <3> HIDE DEF sent
      <3> QED
        BY <3>1, <3>2, ReportedToAll DEF OnTheirWay
    <2>2. CASE life[p] # "inGame"
      BY <1>4, <2>2, NothingSent DEF ChatEvent, Handles
    <2> QED
      BY <2>1, <2>2
  <1>5. ASSUME NEW p \in Players, DropRespawnEvent(p)
        PROVE  OnTheirWay'
    BY <1>5, NothingSent DEF DropRespawnEvent
  <1>6. ASSUME NEW p \in Players, Receive(p)
        PROVE  OnTheirWay'
    <2>1. channel' \in [Players -> Seq(Packets)]
      BY <1>0, <1>6 DEF Receive
    <2> QED
      BY <1>6, <2>1, ReceiveCatches DEF OnTheirWay
  <1>7. ASSUME NEW p \in Players, Press(p)
        PROVE  OnTheirWay'
    BY <1>7, NothingSent DEF Press
  <1>8. ASSUME NEW p \in Players, NEW o \in Objects, Erase(p, o)
        PROVE  OnTheirWay'
    <2>1. channel' \in [Players -> Seq(Packets)]
      BY <1>0, <1>8 DEF Erase
    <2> QED
      BY <1>8, <2>1, EraseCatches DEF OnTheirWay
  <1>9. CASE UNCHANGED allVars
    BY <1>9, NothingSent DEF allVars
  <1> QED
    BY <1>1, <1>2, <1>3, <1>4, <1>5, <1>6, <1>7, <1>8, <1>9,
       ComingAndGoing, Fighting, NPCsActing DEF ClientNext

-----------------------------------------------------------------------------
(* Types *)

\* A packet that a client handles, an object that goes, and a session that ends
\* leave the client in a state.
LEMMA ClientsStep ==
    ASSUME ClientInv, [ClientNext]_allVars
    PROVE  /\ players' \in [Players -> [Objects -> ClientLooks]]
           /\ avatar' \in [Players -> Avatars]
  <1> DEFINE Typed == /\ players' \in [Players -> [Objects -> ClientLooks]]
                      /\ avatar' \in [Players -> Avatars]
  <1> SUFFICES Typed
    OBVIOUS
  <1>0. /\ players \in [Players -> [Objects -> ClientLooks]]
        /\ avatar \in [Players -> Avatars]
    BY DEF ClientInv, ClientTypeOK
  <1>1. ASSUME UNCHANGED programVars
        PROVE  Typed
    BY <1>0, <1>1 DEF programVars
  <1>2. ASSUME NEW p \in Players, EndClient(p)
        PROVE  Typed
    <2>1. Blank \in [Objects -> ClientLooks] /\ Unnamed \in Avatars
      BY ClientLooksApart, FirstId, Beginning DEF Blank, Unnamed, Avatars
    <2> QED
      BY <1>0, <1>2, <2>1 DEF EndClient
  <1>3. ASSUME NEW p \in Players, Receive(p)
        PROVE  Typed
    <2> DEFINE s == Processed(p, State(p), Head(channel[p]))
    <2>1. State(p) \in ClientStates /\ Head(channel[p]) \in Packets
      BY <1>0, <1>3 DEF State, ClientStates, Receive, ClientInv, ClientTypeOK
    <2>2. s \in ClientStates
      BY <2>1, ProcessedTypes
    <2>3. /\ players' = [players EXCEPT ![p] = s.others]
          /\ avatar' = [avatar EXCEPT ![p] = s.avatar]
      BY <1>3 DEF Receive, Becomes
    <2> HIDE DEF s
    <2> QED
      BY <1>0, <2>2, <2>3 DEF ClientStates
  <1>4. ASSUME NEW p \in Players, NEW o \in Objects, Erase(p, o)
        PROVE  Typed
    BY <1>0, <1>4, ClientLooksApart DEF Erase
  <1>5. ASSUME NEW p \in Players,
               \/ AcceptClient(p) \/ LogoutEvent(p)
               \/ \E c \in Saved : LoginEvent(p, c)
               \/ DieEvent(p) \/ StatusEvent(p) \/ RespawnEvent(p) \/ DropRespawnEvent(p)
        PROVE  Typed
    BY <1>1, <1>5
    DEF AcceptClient, LogoutEvent, LoginEvent, DieEvent, StatusEvent, RespawnEvent, DropRespawnEvent
  <1>6. ASSUME NEW p \in Players,
               \/ MoveEvent(p) \/ SyncEvent(p) \/ TooSoon(p) \/ ChatEvent(p)
               \/ \E killed \in SUBSET NPCs : AttackEvent(p, killed)
        PROVE  Typed
    BY <1>1, <1>6 DEF MoveEvent, SyncEvent, TooSoon, ChatEvent, AttackEvent, Handles
  <1>7. ASSUME NEW p \in Players, Press(p)
        PROVE  Typed
    BY <1>1, <1>7 DEF Press
  <1>8. ASSUME NEW n \in NPCs, \/ \E c \in Cells : NPCMoveEvent(n, c)
                               \/ NPCRespawnEvent(n)
        PROVE  Typed
    BY <1>1, <1>8 DEF NPCMoveEvent, NPCRespawnEvent
  <1>9. CASE UNCHANGED allVars
    BY <1>1, <1>9 DEF allVars
  <1> HIDE DEF Typed
  <1> QED
    BY <1>2, <1>3, <1>4, <1>5, <1>6, <1>7, <1>8, <1>9 DEF ClientNext

\* Keys ask for a free cell, an attack or chat, and an event is counted while
\* there are any left.
LEMMA RequestsStep ==
    ASSUME ClientInv, [ClientNext]_allVars
    PROVE  /\ asked' \in [Players -> Requests \cup {NoRequest}]
           /\ events' \in 0..MaxEvents
  <1> DEFINE Typed == /\ asked' \in [Players -> Requests \cup {NoRequest}]
                      /\ events' \in 0..MaxEvents
  <1> SUFFICES Typed
    OBVIOUS
  <1>0. /\ asked \in [Players -> Requests \cup {NoRequest}] /\ events \in 0..MaxEvents
        /\ MaxEvents \in Nat
    BY Bounds DEF ClientInv, ClientTypeOK
  <1>1. Event \/ Sequel \/ UNCHANGED events => events' \in 0..MaxEvents
    BY <1>0 DEF Event, Sequel
  <1>2. ASSUME NEW p \in Players, AcceptClient(p) \/ (\E c \in Saved : LoginEvent(p, c))
        PROVE  Typed
    BY <1>0, <1>1, <1>2 DEF AcceptClient, LoginEvent
  <1>3. ASSUME NEW p \in Players, EndClient(p) \/ LogoutEvent(p)
        PROVE  Typed
    BY <1>0, <1>1, <1>3 DEF EndClient, LogoutEvent
  <1>4. ASSUME NEW p \in Players,
               DieEvent(p) \/ StatusEvent(p) \/ RespawnEvent(p) \/ DropRespawnEvent(p)
        PROVE  Typed
    BY <1>0, <1>1, <1>4 DEF DieEvent, StatusEvent, RespawnEvent, DropRespawnEvent
  <1>5. ASSUME NEW p \in Players, NEW kind, Handles(p, kind)
        PROVE  Typed
    BY <1>0, <1>1, <1>5 DEF Handles
  <1>6. ASSUME NEW p \in Players,
               \/ MoveEvent(p) \/ SyncEvent(p) \/ TooSoon(p) \/ ChatEvent(p)
               \/ \E killed \in SUBSET NPCs : AttackEvent(p, killed)
        PROVE  Typed
    BY <1>5, <1>6 DEF MoveEvent, SyncEvent, TooSoon, ChatEvent, AttackEvent
  <1>7. ASSUME NEW p \in Players, Receive(p) \/ (\E o \in Objects : Erase(p, o))
        PROVE  Typed
    BY <1>0, <1>1, <1>7 DEF Receive, Erase
  <1>8. ASSUME NEW p \in Players, Press(p)
        PROVE  Typed
    <2>1. /\ \A c \in Free : [kind |-> "move", to |-> c] \in Requests
          /\ [kind |-> "chat", to |-> None] \in Requests
          /\ [kind |-> "attack", to |-> None] \in Requests
      BY DEF Requests
    <2> HIDE DEF Requests
    <2>2. asked' \in [Players -> Requests \cup {NoRequest}]
      BY <1>0, <1>8, <2>1 DEF Press
    <2> QED
      BY <1>1, <1>8, <2>2 DEF Press
  <1>9. ASSUME NEW n \in NPCs, \/ \E c \in Cells : NPCMoveEvent(n, c)
                               \/ NPCRespawnEvent(n)
        PROVE  Typed
    BY <1>0, <1>1, <1>9 DEF NPCMoveEvent, NPCRespawnEvent
  <1>10. CASE UNCHANGED allVars
    BY <1>0, <1>10 DEF allVars
  <1> HIDE DEF Typed
  <1> QED
    BY <1>2, <1>3, <1>4, <1>6, <1>7, <1>8, <1>9, <1>10 DEF ClientNext

\* At the start no client shows anything.
LEMMA ClientStart == ClientInit => ClientInv
  <1> SUFFICES ASSUME ClientInit
               PROVE  ClientInv
    OBVIOUS
  <1>1. ListInv /\ TypeOK /\ NotSelf /\ LeaversHere
    BY WorldStart DEF ClientInit, ListInv, Init, NotSelf, LeaversHere
  <1>2. Blank \in [Objects -> ClientLooks] /\ Blank \in [Objects -> Looks]
    BY ClientLooksApart, LooksApart DEF Blank
  <1>3. ClientTypeOK
    <2>1. Unnamed \in Avatars
      BY FirstId, Beginning DEF Unnamed, Avatars
    <2> QED
      BY <1>1, <1>2, <2>1, Bounds DEF ClientInit, ClientTypeOK
  <1>4. ASSUME NEW p \in Players, NEW t, Leads(p, channel[p], State(p), t)
        PROVE  Settled(p, t)
    <2>1. /\ channel[p] = << >> /\ State(p) = [others |-> Blank, avatar |-> Unnamed]
          /\ screen[p] = Blank
      BY DEF ClientInit, Init, State
    <2>2. t \in ClientStates /\ MayTurn(State(p), t)
      BY <1>4, <2>1, LeadsByNone
    <2>3. Agrees(State(p), Blank)
      BY <2>1 DEF Agrees, Shows
    <2>4. Agrees(t, Blank)
      BY <1>2, <2>2, <2>3, StillAgrees
    <2>5. t.avatar = Unnamed
      BY <2>1, <2>2 DEF MayTurn
    <2>6. ~Playing(p)
      BY DEF ClientInit, Init, Playing, Linked
    <2> QED
      BY <2>1, <2>2, <2>4, <2>5, <2>6, FirstId, Beginning
      DEF Settled, Right, Unnamed, Avatars
  <1> QED
    BY <1>1, <1>3, <1>4 DEF ClientInv, CatchesUp

\* Every step keeps the invariant.
LEMMA ClientInvStep == ClientInv /\ [ClientNext]_allVars => ClientInv'
  <1> SUFFICES ASSUME ClientInv, [ClientNext]_allVars
               PROVE  ClientInv'
    OBVIOUS
  <1>1. [Next]_vars
    BY StepOfWorld
  <1>2. ListInv' /\ NotSelf' /\ LeaversHere'
    BY <1>1, ListInvStep, NotSelfStep, LeaversHereStep DEF ClientInv, ListInv
  <1>3. OnTheirWay'
    BY OnTheirWayStep
  <1>4. ClientTypeOK'
    BY <1>2, <1>3, ClientsStep, RequestsStep DEF ClientTypeOK, OnTheirWay, ListInv
  <1> QED
    BY <1>2, <1>3, <1>4 DEF ClientInv, OnTheirWay

-----------------------------------------------------------------------------
(* When everything has been handled *)

\* Handled is the last of the states that the packets make, one after another.
LEMMA Handling ==
    ASSUME NEW own, NEW s \in ClientStates, NEW q \in Seq(Packets)
    PROVE  \E h : /\ h = [k \in 0..Len(q) |->
                           IF k = 0 THEN s ELSE Processed(own, h[k - 1], q[k])]
                  /\ Handled(own, s, q) = h[Len(q)]
  <1> DEFINE N == Len(q)
             Runs(n, f) == f = [k \in 0..n |-> IF k = 0 THEN s ELSE Processed(own, f[k - 1], q[k])]
             S == {n \in 0..N : \E f : Runs(n, f)}
  <1>0. N \in Nat
    OBVIOUS
  <1>1. 0 \in S
    <2>1. Runs(0, [k \in 0..0 |-> s])
      OBVIOUS
    <2> HIDE DEF Runs
    <2> QED
      BY <1>0, <2>1
  <1>2. ASSUME NEW n \in 1..N, n - 1 \in S
        PROVE  n \in S
    <2>1. PICK f : Runs(n - 1, f)
      BY <1>2
    <2> DEFINE g == [k \in 0..n |-> IF k = n THEN Processed(own, f[n - 1], q[n]) ELSE f[k]]
    <2>2. ASSUME NEW k \in 0..n
          PROVE  g[k] = IF k = 0 THEN s ELSE Processed(own, g[k - 1], q[k])
      <3>1. CASE k = n
        <4>1. k # 0 /\ g[k] = Processed(own, f[n - 1], q[n]) /\ g[k - 1] = f[n - 1]
          BY <1>0, <3>1
        <4> HIDE DEF g
        <4> QED
          BY <3>1, <4>1
      <3>2. CASE k \in 0..(n - 1)
        <4>1. f[k] = IF k = 0 THEN s ELSE Processed(own, f[k - 1], q[k])
          BY <2>1, <3>2
        <4>2. g[k] = f[k] /\ (k # 0 => g[k - 1] = f[k - 1])
          BY <1>0, <3>2
        <4> HIDE DEF g
        <4> QED
          BY <4>1, <4>2
      <3> QED
        BY <1>0, <3>1, <3>2
    <2>3. Runs(n, g)
      <3>1. g = [k \in 0..n |-> g[k]]
        OBVIOUS
      <3> HIDE DEF g
      <3> QED
        BY <2>2, <3>1
    <2> HIDE DEF g, Runs
    <2> QED
      BY <1>0, <2>3
  <1> HIDE DEF S, N
  <1>3. 0..N \subseteq S
    BY <1>0, <1>1, <1>2, UpTo
  <1>4. \E f : Runs(N, f)
    <2>1. N \in S
      BY <1>0, <1>3
    <2> HIDE DEF Runs
    <2> QED
      BY <2>1 DEF S
  <1> DEFINE h == CHOOSE f : Runs(N, f)
  <1>5. Runs(N, h)
    <2> HIDE DEF Runs
    <2> QED
      BY <1>4
  <1>6. Handled(own, s, q) = h[N]
    BY DEF Handled, N
  <1> HIDE DEF h
  <1> QED
    BY <1>5, <1>6 DEF N

\* The packets lead there, if nothing goes in between.
LEMMA HandledIsLed ==
    ASSUME NEW own, NEW s \in ClientStates, NEW q \in Seq(Packets)
    PROVE  Leads(own, q, s, Handled(own, s, q))
  <1>1. PICK h : /\ h = [k \in 0..Len(q) |->
                          IF k = 0 THEN s ELSE Processed(own, h[k - 1], q[k])]
                 /\ Handled(own, s, q) = h[Len(q)]
    BY Handling
  <1> DEFINE N == Len(q)
             S == {k \in 0..N : h[k] \in ClientStates}
  <1>2. N \in Nat /\ \A k \in 1..N : q[k] \in Packets
    OBVIOUS
  <1>3. h[0] = s /\ \A k \in 1..N : h[k] = Processed(own, h[k - 1], q[k])
    <2>1. \A k \in 0..N : h[k] = IF k = 0 THEN s ELSE Processed(own, h[k - 1], q[k])
      BY <1>1
    <2> HIDE DEF N
    <2> QED
      BY <1>2, <2>1
  <1>4. DOMAIN h = 0..N /\ h = [k \in 0..N |-> h[k]]
    BY <1>1
  <1> HIDE DEF N
  <1>5. 0 \in S
    BY <1>2, <1>3
  <1>6. ASSUME NEW k \in 1..N, k - 1 \in S
        PROVE  k \in S
    <2>1. Processed(own, h[k - 1], q[k]) \in ClientStates
      BY <1>2, <1>6, ProcessedTypes
    <2> QED
      BY <1>2, <1>3, <2>1
  <1> HIDE DEF S
  <1>7. 0..N \subseteq S
    BY <1>2, <1>5, <1>6, UpTo
  <1>8. h \in [0..N -> ClientStates]
    BY <1>4, <1>7 DEF S
  <1>9. \A t : MayTurn(t, t)
    BY DEF MayTurn, MayBecome
  <1>10. Story(own, q, s, h)
    BY <1>3, <1>8, <1>9 DEF Story, N
  <1> QED
    BY <1>1, <1>10 DEF Leads

\* So a client that has handled everything agrees with World.
LEMMA CatchingUp == ClientInv => ClientCatchesUp
  <1> SUFFICES ASSUME ClientInv, NEW p \in Players
               PROVE  /\ Playing(p) =>
                           /\ CaughtUp(p).avatar.id = p /\ CaughtUp(p).avatar.at = pos[p]
                           /\ CaughtUp(p).avatar.dead =>
                                life[p] = "dead" \/ CaughtUp(p).avatar.mistaken
                      /\ \A o \in Objects : screen[p][o] \in {CaughtUp(p).others[o], Dying}
    BY DEF ClientCatchesUp
  <1>1. channel[p] \in Seq(Packets) /\ State(p) \in ClientStates
    BY DEF ClientInv, ClientTypeOK, State, ClientStates
  <1>2. Leads(p, channel[p], State(p), CaughtUp(p))
    BY <1>1, HandledIsLed DEF CaughtUp
  <1>3. Settled(p, CaughtUp(p))
    BY <1>2 DEF ClientInv, CatchesUp
  <1> QED
    BY <1>3 DEF Settled, Agrees, Shows, Right

-----------------------------------------------------------------------------
(* The theorems *)

\* The server and its clients, with every packet, do what World says: what holds
\* of World holds here (Session.cpp:205-446, Player.cpp:38-278, NPC.cpp:226-468).
THEOREM ImplementsWorld == ClientSpec => Spec
  <1>1. ClientInit => Init
    BY DEF ClientInit
  <1> QED
    BY <1>1, StepOfWorld, PTL DEF ClientSpec, Spec

\* Packets, requests and what clients show are what the types say, however far
\* a client lags behind.
THEOREM ClientTypeCorrect == ClientSpec => []ClientTypeOK
  <1>1. ClientInv => ClientTypeOK
    BY DEF ClientInv
  <1> QED
    BY <1>1, ClientStart, ClientInvStep, PTL DEF ClientSpec

\* However far a client lags, the packets under way will make it show what
\* World says, know its id and where the server has its player, and not take
\* itself for dead while the server has it in the game, unless it was told of
\* the death of Zero before AVATAR_INFO (client.cpp:77, 691-887,
\* Player.cpp:38-139, 194-278).
THEOREM ClientsCatchUp == ClientSpec => []ClientCatchesUp
  BY ClientStart, ClientInvStep, CatchingUp, PTL DEF ClientSpec

-----------------------------------------------------------------------------
(* From view lists to the screen *)

\* A client with nothing left to read shows, where it is, whoever its player
\* sees if each of the two lists the other.
ScreensRight ==
    \A p \in Players : \A o \in Objects \ {p} :
      /\ channel[p] = << >>
      /\ Playing(p) /\ life[o] = "inGame" /\ CanSee(pos[p], pos[o])
      /\ o \in view[p] /\ (o \in Players => p \in view[o])
      => players[p][o] = Shown(pos[o])

\* A client that has nothing left to read stays as it is.
LEMMA NothingLeft ==
    ASSUME ClientTypeOK, NEW p \in Players, channel[p] = << >>
    PROVE  CaughtUp(p) = State(p)
  <1> DEFINE q == channel[p]
  <1>1. q \in Seq(Packets) /\ State(p) \in ClientStates /\ Len(q) = 0
    BY DEF ClientTypeOK, State, ClientStates
  <1> HIDE DEF q
  <1>2. PICK h : /\ h = [k \in 0..Len(q) |->
                          IF k = 0 THEN State(p) ELSE Processed(p, h[k - 1], q[k])]
                 /\ Handled(p, State(p), q) = h[Len(q)]
    BY <1>1, Handling
  <1>3. h[0] = IF 0 = 0 THEN State(p) ELSE Processed(p, h[0 - 1], q[0])
    BY <1>1, <1>2
  <1> QED
    BY <1>1, <1>2, <1>3 DEF CaughtUp, q

\* What the server keeps in view lists and what a user sees agree, through the
\* packets of every event and however late they were read: the two results
\* before and WorldProofs' together (Player.cpp:90-139, client.cpp:789-818).
THEOREM ListedIsOnScreen == ClientSpec => []ScreensRight
  <1>1. ClientTypeOK /\ ClientCatchesUp /\ MutualShown => ScreensRight
    <2> SUFFICES ASSUME ClientTypeOK, ClientCatchesUp, MutualShown,
                        NEW p \in Players, NEW o \in Objects \ {p}, channel[p] = << >>,
                        Playing(p), life[o] = "inGame", CanSee(pos[p], pos[o]),
                        o \in view[p], o \in Players => p \in view[o]
                 PROVE  players[p][o] = Shown(pos[o])
      BY DEF ScreensRight
    <2>1. screen[p][o] = Shown(pos[o])
      BY DEF MutualShown
    <2>2. screen[p][o] \in {State(p).others[o], Dying}
      BY NothingLeft DEF ClientCatchesUp
    <2>3. Shown(pos[o]) # Dying
      BY DEF Shown, Dying
    <2> QED
      BY <2>1, <2>2, <2>3 DEF State
  <1> QED
    BY <1>1, ImplementsWorld, ClientTypeCorrect, ClientsCatchUp, MutualIsShown, PTL
=============================================================================
