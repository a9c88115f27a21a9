------------------------- MODULE ClientExpiryProofs --------------------------
(***************************************************************************)
(* Proof about ClientExpiry: what the cleanup does with the two clocks     *)
(* that the code reads.                                                    *)
(***************************************************************************)
EXTENDS ClientExpiry, TLAPS

Types ==
  /\ uptime \in Nat /\ nextCleanup \in Nat
  /\ lastActivity \in [Client -> Nat] /\ clients \in SUBSET Client

LEMMA TypesInit ==
  ASSUME Interval \in Nat, Init
  PROVE  Types
BY DEF Init, Types

LEMMA TypesStep ==
  ASSUME BootTime \in Nat, Interval \in Nat, Types, [Next]_vars
  PROVE  Types'
<1> USE DEF Types
<1>1. CASE Tick
  BY <1>1 DEF Tick
<1>2. CASE Cleanup
  BY <1>2 DEF Cleanup
<1>3. ASSUME NEW c \in Client, Connect(c) \/ Activity(c) \/ Disconnect(c) PROVE Types'
  <2>1. Wall \in Nat
    BY DEF Wall
  <2> QED BY <1>3, <2>1 DEF Connect, Activity, Disconnect
<1>4. CASE UNCHANGED vars
  BY <1>4 DEF vars
<1> QED BY <1>1, <1>2, <1>3, <1>4 DEF Next

-----------------------------------------------------------------------------
(* A registered client was stamped with the wall clock, and the machine    *)
(* has not been up for as long as has passed since 1970.                   *)
Stamped ==
  /\ Types /\ uptime <= Horizon
  /\ \A c \in clients : lastActivity[c] >= BootTime

(* As long as the machine has been up for no longer than had passed since  *)
(* 1970 when it was started (and the timeout), no round of the cleanup     *)
(* removes a client: that is why the other modules leave it out.           *)
THEOREM NobodyIsRemoved ==
  ASSUME BootTime \in Nat, Timeout \in Nat, Interval \in Nat, Horizon \in Nat,
         Horizon <= BootTime + Timeout
  PROVE  Spec => [][Cleanup => UNCHANGED clients]_vars
<1>1. Init => Stamped
  BY TypesInit DEF Init, Stamped
<1>2. Stamped /\ [Next]_vars => Stamped'
  <2> SUFFICES ASSUME Stamped, [Next]_vars PROVE Stamped'
    OBVIOUS
  <2>0. Types /\ Types'
    BY TypesStep DEF Stamped
  <2>1. CASE Tick
    BY <2>0, <2>1 DEF Tick, Stamped, Types
  <2>2. CASE Cleanup
    BY <2>0, <2>2 DEF Cleanup, Stamped, Types
  <2>3. ASSUME NEW c \in Client, Connect(c) \/ Activity(c) PROVE Stamped'
    <3>1. Wall \in Nat /\ Wall >= BootTime
      BY <2>0 DEF Wall, Types
    <3>2. /\ uptime' = uptime /\ \A d \in clients' : d = c \/ d \in clients
          /\ \A d \in Client : lastActivity'[d] = IF d = c THEN Wall ELSE lastActivity[d]
      BY <2>0, <2>3 DEF Connect, Activity, Types
    <3>3. clients' \subseteq Client
      BY <2>0 DEF Types
    <3> QED BY <2>0, <3>1, <3>2, <3>3 DEF Stamped
  <2>4. ASSUME NEW c \in Client, Disconnect(c) PROVE Stamped'
    BY <2>0, <2>4 DEF Disconnect, Stamped
  <2>5. CASE UNCHANGED vars
    BY <2>0, <2>5 DEF vars, Stamped
  <2> QED BY <2>1, <2>2, <2>3, <2>4, <2>5 DEF Next
<1>3. Stamped /\ [Next]_vars => [Cleanup => UNCHANGED clients]_vars
  <2> SUFFICES ASSUME Stamped, Cleanup PROVE clients' = clients
    OBVIOUS
  <2>1. ASSUME NEW c \in clients PROVE ~(uptime > lastActivity[c] + Timeout)
    <3>1. lastActivity[c] \in Nat /\ lastActivity[c] >= BootTime /\ uptime \in Nat /\ uptime <= Horizon
      BY DEF Stamped, Types
    <3> QED BY <3>1
  <2> QED BY <2>1 DEF Cleanup, Expired
<1> QED BY <1>1, <1>2, <1>3, PTL DEF Spec

==============================================================================
