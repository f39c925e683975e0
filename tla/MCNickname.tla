------------------------------ MODULE MCNickname ------------------------------
(* Small instances of Nickname: the servers 0 and 1 of ".p2p" and ".node". *)
EXTENDS Nickname, TLC
CONSTANTS v, w, d
Offsets == {0, 1}
Calls == {v, w, d}
Values == {v, w}
\* The second server has no IPv6.
Links == {<<0, 1>>, <<0, 2>>, <<1, 1>>}
PushSymmetry == Permutations(Values)
===============================================================================
