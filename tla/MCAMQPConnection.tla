-------------------------- MODULE MCAMQPConnection --------------------------
(***************************************************************************)
(* Model-checking instance of AMQPConnection.                              *)
(***************************************************************************)
EXTENDS AMQPConnection

\* Bound: transports per connection, reconnects from callbacks included.
ConnectsBound == \A c \in Conns : connects[c] =< MaxConnects
====
