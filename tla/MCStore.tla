------------------------------ MODULE MCStore ------------------------------
EXTENDS Store, TLC

CONSTANTS s1, s2, desk, web

TwoClients == s1 :> desk @@ s2 :> web
Reconnecting == s1 :> desk @@ s2 :> desk
============================================================================
