------------------------------ MODULE MCTunnel ------------------------------
(* A small instance of Tunnel: every pair of protocols, one connection.    *)
EXTENDS Tunnel
=============================================================================
