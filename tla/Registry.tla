------------------------------ MODULE Registry ------------------------------
(***************************************************************************)
(* What anybody may rely on of the hub's connections: a user's entry is    *)
(* the connection that came last, until one of the user's connections - be *)
(* it another - leaves; and the channels of a connection are closed by     *)
(* nothing but its own leaving, and then only if there is an entry.        *)
(* Hub implements this with a goroutine and channels of its own; Challenge *)
(* relies on it while handlers and games use the connections.              *)
(***************************************************************************)
CONSTANTS
  User,     \* user IDs
  Conn,     \* connections
  Owner,    \* the user of each connection
  NoConn    \* no entry

VARIABLES
  phase,    \* each connection: new, joined, or left
  entry,    \* the connection of each user, if any
  closed    \* have a connection's channels been closed?

vars == <<phase, entry, closed>>

Init ==
  /\ phase = [c \in Conn |-> "new"]
  /\ entry = [u \in User |-> NoConn]
  /\ closed = [c \in Conn |-> FALSE]

Join(c) ==
  /\ phase[c] = "new"
  /\ phase' = [phase EXCEPT ![c] = "joined"]
  /\ entry' = [entry EXCEPT ![Owner[c]] = c]
  /\ UNCHANGED closed

Leave(c) ==
  /\ phase[c] = "joined"
  /\ phase' = [phase EXCEPT ![c] = "left"]
  /\ entry' = [entry EXCEPT ![Owner[c]] = NoConn]
  /\ closed' = [closed EXCEPT ![c] = entry[Owner[c]] # NoConn]

Next == \E c \in Conn : Join(c) \/ Leave(c)

Spec == Init /\ [][Next]_vars
=============================================================================
