\* One NPC and two ids of players, two logins under either or both.
SPECIFICATION Spec
CONSTANTS
    p1 = p1
    p2 = p2
    n1 = n1
    None = None
    Players <- TwoPlayers
    NPCs <- OneNPC
    Agro <- OneNPC
    MoveDelay = 1
    AttackDelay = 2
    RespawnDelay = 2
    HealDelay = 3
    NPCRespawnDelay = 3
    MaxHp = 2
    HealAmount = 1
    HitDamage = 1
    BiteDamage = 1
    MaxLogins = 2
    MaxLag = 1
SYMMETRY SamePlayers
INVARIANTS
    TypeOK
    OneChainEach
    SeenAreAwake
    DeadComeBack
    HealUnderWay
PROPERTIES
    RespawnIsForTheDead
