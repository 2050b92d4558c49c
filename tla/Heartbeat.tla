-------------------------------- MODULE Heartbeat --------------------------------
(***************************************************************************)
(* The heartbeat checkers of a connection across reconnects.               *)
(* _on_connection_tune creates a checker when the negotiated heartbeat is  *)
(* not 0 (connection.py 402-404); on_data_available counts every consumed  *)
(* frame in bytes_received (585); _init_connection_state, run by           *)
(* _reconnect, zeroes the counter and sets self.heartbeat = None (203-205) *)
(* without stopping the old checker, whose timer is still set.             *)
(* pika/heartbeat.py is not in the sources: send_and_check follows spec    *)
(* section 4.6 and src/tests/unit/heartbeat_tests.py, where the timer is   *)
(* set again only while the checker is the connection's own ("active").    *)
(* A checker is named by the transport it was created on: 1, 2, ...        *)
(* Byte counts are abstracted to frames: Start, Tune and OpenOk are the    *)
(* frames 1, 2 and 3 of every transport.                                   *)
(***************************************************************************)
EXTENDS Naturals, FiniteSets

CONSTANTS
    MaxArrivals,   \* Bound: frames received on one transport.
    MaxConnects    \* Bound: transports, i.e. connects and reconnects.

ASSUME MaxArrivals >= 3 /\ MaxConnects \in Nat \ {0}

Transports == 1..MaxConnects

\* HeartbeatChecker._MAX_IDLE_COUNT
MAX_IDLE_COUNT == 2

VARIABLES
    conn,       \* the transport the connection currently uses
    phase,      \* "handshake", "open" or "closed" (transport torn down)
    received,   \* connection.bytes_received
    current,    \* connection.heartbeat: the checker it holds, 0 for None
    snapshot,   \* snapshot[i]: checker i's _bytes_received
    idle,       \* idle[i]: checker i's _idle_byte_intervals
    armed,      \* armed[i]: checker i's timer is set
    closes,     \* closes[i]: calls of checker i's _close_connection
    torn,       \* History: <<checker, transport>> of every teardown request
    silent      \* History: silent[i], ticks of i since a frame on its transport

vars == <<conn, phase, received, current, snapshot, idle, armed, closes,
          torn, silent>>

\* The first transport is connected; no checker exists yet.
Init ==
    /\ conn = 1 /\ phase = "handshake" /\ received = 0 /\ current = 0
    /\ snapshot = [i \in Transports |-> 0]
    /\ idle = [i \in Transports |-> 0]
    /\ armed = [i \in Transports |-> FALSE]
    /\ closes = [i \in Transports |-> 0]
    /\ torn = {}
    /\ silent = [i \in Transports |-> 0]

\* on_data_available during the handshake: Start, then Tune, whose handler
\* creates checker conn (its counters 0, its timer set) and stores it in
\* self.heartbeat, then OpenOk.  Each frame is counted before it is handled.
HandshakeFrame ==
    /\ phase = "handshake"
    /\ received' = received + 1
    /\ IF received' = 2
       THEN /\ current' = conn
            /\ armed' = [armed EXCEPT ![conn] = TRUE]
       ELSE UNCHANGED <<current, armed>>
    /\ phase' = IF received' = 3 THEN "open" ELSE phase
    /\ silent' = [silent EXCEPT ![conn] = 0]
    /\ UNCHANGED <<conn, snapshot, idle, closes, torn>>

\* on_data_available on an open connection: bytes_received += consumed_count.
DataArrives ==
    /\ phase = "open"
    /\ received < MaxArrivals
    /\ received' = received + 1
    /\ silent' = [silent EXCEPT ![conn] = 0]
    /\ UNCHANGED <<conn, phase, current, snapshot, idle, armed, closes, torn>>

\* _reconnect, after a lost transport, a close with the _reconnect callback
\* registered, or reconnect() on a closed connection:
\* _init_connection_state zeroes bytes_received and drops self.heartbeat;
\* _connect opens the next transport.  Old checkers are left as they are.
Reconnect ==
    /\ conn < MaxConnects
    /\ conn' = conn + 1
    /\ phase' = "handshake"
    /\ received' = 0
    /\ current' = 0
    /\ UNCHANGED <<snapshot, idle, armed, closes, torn, silent>>

\* _update_counters' idle test: an interval is idle when bytes_received
\* did not move since the checker's last tick.
IdleCount(i) == IF received = snapshot[i] THEN idle[i] + 1 ELSE 0

\* Mutant: the idle count is compared with > instead of >=.
IsStale_Late(n) == n > MAX_IDLE_COUNT

\* connection_is_idle
IsStale(n) == n >= MAX_IDLE_COUNT

\* Mutant of the end of send_and_check.
Rearms_Never(i) == FALSE

\* _start_timer sets the timer again only while the checker is still the
\* connection's (active).
Rearms(i) == current = i

\* Mutant: _update_counters is not called, the snapshot keeps its value.
UpdateCounters_Skipped(i) == snapshot

UpdateCounters(i) == [snapshot EXCEPT ![i] = received]

\* Checker i's timer fires: send_and_check.  As
\* test_send_and_check_missed_bytes pins it, the stored idle count is
\* tested first: a stale checker requests the teardown of the connection's
\* transport, whichever transport that is now, and returns.  Otherwise the
\* idle count and the snapshot are updated, a heartbeat is sent and the
\* timer set again.
Tick(i) ==
    /\ armed[i]
    /\ IF IsStale(idle[i])
       THEN /\ closes' = [closes EXCEPT ![i] = @ + 1]
            /\ torn' = torn \cup {<<i, conn>>}
            /\ phase' = "closed"
            /\ armed' = [armed EXCEPT ![i] = FALSE]
            /\ UNCHANGED <<idle, snapshot>>
       ELSE /\ idle' = [idle EXCEPT ![i] = IdleCount(i)]
            /\ snapshot' = UpdateCounters(i)
            /\ armed' = [armed EXCEPT ![i] = Rearms(i)]
            /\ UNCHANGED <<closes, torn, phase>>
    /\ silent' = [silent EXCEPT ![i] = @ + 1]
    /\ UNCHANGED <<conn, received, current>>

Next ==
    \/ HandshakeFrame
    \/ DataArrives
    \/ Reconnect
    \/ \E i \in Transports : Tick(i)

\* The adapter's timer fires every set timer; frames and reconnects are up
\* to the broker, the network and the user.
Spec == Init /\ [][Next]_vars /\ \A i \in Transports : WF_vars(Tick(i))

-----------------------------------------------------------------------------
TypeOK ==
    /\ conn \in Transports /\ phase \in {"handshake", "open", "closed"}
    /\ received \in 0..MaxArrivals /\ current \in 0..MaxConnects
    /\ snapshot \in [Transports -> 0..MaxArrivals]
    /\ idle \in [Transports -> 0..MAX_IDLE_COUNT]
    /\ armed \in [Transports -> BOOLEAN]
    /\ closes \in [Transports -> Nat]
    /\ torn \subseteq Transports \X Transports

\* Spec section 8: when no bytes arrive on a transport for MAX_IDLE_COUNT
\* heartbeat intervals (twice as many ticks of its checker), the checker
\* has declared it stale by then.
DetectedInTime == \A i \in Transports : silent[i] >= 2 * MAX_IDLE_COUNT => closes[i] > 0

\* A broker that stops sending on the connection's transport is declared
\* stale by that transport's checker, as long as the adapter's timer fires.
DeadPeerDetected ==
    \A g \in Transports, r \in 0..MaxArrivals :
        <>[](conn = g /\ current = g /\ received = r) => <>(closes[g] > 0)

\* The teardown a checker requests is of the transport it watched: a
\* checker left behind by reconnect never closes the new transport.
TearsDownOwnTransport == \A t \in torn : t[1] = t[2]
=============================================================================
