-------------------------------- MODULE MCServer --------------------------------
(* Server on a small instance: a client of this package and a stranger.         *)
EXTENDS Server

CONSTANTS client, stranger, k1

TwoPeers == {client, stranger}
Alien    == {stranger}
OneClose == {k1}
================================================================================
