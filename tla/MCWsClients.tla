----------------------------- MODULE MCWsClients -----------------------------
(* TLC instances of WsClients. *)
EXTENDS WsClients, TLC

(* Connections and descriptors are interchangeable; used where no liveness *)
(* is checked.                                                             *)
Interchangeable == Permutations(Conn) \cup Permutations(Fd)

=============================================================================
