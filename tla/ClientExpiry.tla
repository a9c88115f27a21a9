---------------------------- MODULE ClientExpiry ----------------------------
(***************************************************************************)
(* The removal of idle clients: ClientHandler stamps last_activity with    *)
(* time.time(), seconds since 1970, and TCPServer._cleanup_loop compares   *)
(* it with the event loop's time(), seconds since the machine started.     *)
(* Time passes in minutes here.                                            *)
(***************************************************************************)
EXTENDS Naturals

CONSTANTS
  Client,
  Timeout,    \* CLIENT_TIMEOUT_SECONDS
  Interval,   \* CLEANUP_INTERVAL_SECONDS
  BootTime,   \* external: time.time() when the machine started
  Horizon     \* bound: how long a behaviour lasts

VARIABLES
  uptime,        \* external: get_event_loop().time()
  clients,       \* TCPServer._clients
  lastActivity,  \* [Client -> last_activity]
  nextCleanup    \* uptime at which the sleep of _cleanup_loop ends

vars == <<uptime, clients, lastActivity, nextCleanup>>

(* time.time() *)
Wall == BootTime + uptime

Init ==
  /\ uptime = 0
  /\ clients = {}
  /\ lastActivity = [c \in Client |-> 0]
  /\ nextCleanup = Interval

(* A minute passes; the cleanup runs when it is due. *)
Tick ==
  /\ uptime < nextCleanup /\ uptime < Horizon
  /\ uptime' = uptime + 1
  /\ UNCHANGED <<clients, lastActivity, nextCleanup>>

(* ClientHandler.__init__ and the registration in _handle_client. *)
Connect(c) ==
  /\ c \notin clients
  /\ clients' = clients \cup {c}
  /\ lastActivity' = [lastActivity EXCEPT ![c] = Wall]
  /\ UNCHANGED <<uptime, nextCleanup>>

(* _read_loop receives data. *)
Activity(c) ==
  /\ c \in clients
  /\ lastActivity' = [lastActivity EXCEPT ![c] = Wall]
  /\ UNCHANGED <<uptime, clients, nextCleanup>>

(* The connection ends: the finally clause of _handle_client. *)
Disconnect(c) ==
  /\ c \in clients
  /\ clients' = clients \ {c}
  /\ UNCHANGED <<uptime, lastActivity, nextCleanup>>

(* One round of _cleanup_loop: now - last_activity > CLIENT_TIMEOUT_SECONDS. *)
Expired == {c \in clients : uptime > lastActivity[c] + Timeout}

Cleanup ==
  /\ uptime = nextCleanup
  /\ clients' = clients \ Expired
  /\ nextCleanup' = uptime + Interval
  /\ UNCHANGED <<uptime, lastActivity>>

Next ==
  \/ Tick \/ Cleanup
  \/ \E c \in Client : Connect(c) \/ Activity(c) \/ Disconnect(c)

Spec == Init /\ [][Next]_vars

(* A client that has been inactive for the timeout is removed by the next  *)
(* cleanup: "inactivity timeout (5 min), cleanup loop (1 min)".            *)
IdleClientsExpire ==
  \A c \in clients : Wall <= lastActivity[c] + Timeout + Interval
==============================================================================
