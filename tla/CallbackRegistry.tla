-------------------------- MODULE CallbackRegistry --------------------------
(***************************************************************************)
(* The callback registry of pika.callback.CallbackManager, as used by      *)
(* pika/connection.py.  The registry is a value: a function from a         *)
(* (prefix, key) pair to the ordered list of entries registered under it.  *)
(* The prefix is a channel number, the key a method name or a lifecycle    *)
(* tag such as "_on_connection_closed".  An entry names the connection the *)
(* bound method belongs to, the handler, and whether it is one-shot.       *)
(*                                                                         *)
(* pika/callback.py is not part of this repository's sources: these       *)
(* operators follow the contract the spec gives it (section 4.3).          *)
(***************************************************************************)
EXTENDS Naturals, Sequences

\* An entry: the bound method <<conn, h>> and its one-shot flag.
Entry(conn, h, one) == [conn |-> conn, h |-> h, one |-> one]

\* Two entries are the same callable when they name the same bound method.
SameCallable(e, conn, h) == e.conn = conn /\ e.h = h

\* add(prefix, key, callback, one_shot): append, unless the same callable
\* is already registered under that key.
AddCallback(reg, p, k, e) ==
    IF \E i \in 1..Len(reg[<<p, k>>]) : SameCallable(reg[<<p, k>>][i], e.conn, e.h)
    THEN reg
    ELSE [reg EXCEPT ![<<p, k>>] = Append(@, e)]

\* remove(prefix, key, callback): drop every matching entry, absent or not.
RemoveCallback(reg, p, k, conn, h) ==
    [reg EXCEPT ![<<p, k>>] = SelectSeq(@, LAMBDA e : ~SameCallable(e, conn, h))]

\* pending(prefix, key)
Pending(reg, p, k) == reg[<<p, k>>] # <<>>

\* The registry with nothing in it.
EmptyRegistry(Prefixes, Keys) == [pk \in Prefixes \X Keys |-> <<>>]
=============================================================================
