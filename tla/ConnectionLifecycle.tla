-------------------------- MODULE ConnectionLifecycle --------------------------
(***************************************************************************)
(* What a connection promises about its lifecycle (spec section 4.4): it   *)
(* is closed, opening (the broker started the handshake), open, or         *)
(* closing.  It opens only through the handshake, closes only after        *)
(* closing or when its transport is lost, and a reset by the reconnection  *)
(* hook is the only way back to the start.                                 *)
(***************************************************************************)
CONSTANT Conns

VARIABLE lc   \* lc[c]: the lifecycle state of connection c

States == {"closed", "opening", "open", "closing"}

\* The transitions a connection may take.
Succ == [closed  |-> {"opening"},
         opening |-> {"open", "closing", "closed"},
         open    |-> {"closing", "closed"},
         closing |-> {"closed"}]

Init == lc = [c \in Conns |-> "closed"]

\* One event may move several connections (they share a registry), each
\* along a transition of its own.
Next ==
    \E moved \in SUBSET Conns \ {{}} :
        \E to \in [moved -> States] :
            /\ \A c \in moved : to[c] \in Succ[lc[c]]
            /\ lc' = [c \in Conns |-> IF c \in moved THEN to[c] ELSE lc[c]]

Spec == Init /\ [][Next]_lc
=============================================================================
