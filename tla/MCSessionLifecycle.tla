-------------------------- MODULE MCSessionLifecycle --------------------------
(* Instances of SessionLifecycle for TLC. *)
EXTENDS SessionLifecycle

CONSTANTS c1, c2, i1, i2, n1, n2, t1, t2

TwoConns == {c1, c2}
OneId == {i1}
OneIdPool == <<i1>>
TwoIds == {i1, i2}
TwoIdPool == <<i2, i1>>
OneName == {n1}
TwoNames == {n1, n2}
OldUser == {n1}
OneDB == {t1}
OneEach == {<<c1, "sender">>, <<c2, "logic">>}
SenderSends == {<<c1, "sender">>}
TwoDB == {t1, t2}
=============================================================================
