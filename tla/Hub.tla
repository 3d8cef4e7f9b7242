-------------------------------- MODULE Hub --------------------------------
(***************************************************************************)
(* The connections of internal/ws: Hub.Run, which keeps one entry per USER *)
(* and closes a connection's channels, and for each connection the three   *)
(* goroutines that HandleWebSocket starts: readPump, writePump and         *)
(* pingLoop.  A user may have several connections, the last one registered *)
(* being the one in the entry.  Presence is read from the entries and      *)
(* broadcast by goroutines of its own; games mark their players in them.   *)
(*                                                                         *)
(* What the messages say is left out: a Send channel is the number of      *)
(* messages in it.  Challenges are not handled here.                       *)
(***************************************************************************)
EXTENDS Integers

CONSTANTS
  User,       \* user IDs
  Conn,       \* connections, each a *Client
  Owner,      \* the user of each connection
  Friends,    \* the accepted friends of each user
  NoConn,     \* no entry in h.clients
  SendCap,    \* capacity of a client's Send channel
  Gamers,     \* bound: users who play games
  MaxCasts    \* bound: games broadcast only while fewer are in flight

ASSUME HubAssumption ==
  /\ Owner \in [Conn -> User]
  /\ Friends \in [User -> SUBSET User]
  /\ NoConn \notin Conn
  /\ SendCap \in Nat \ {0}
  /\ Gamers \subseteq User
  /\ MaxCasts \in Nat

VARIABLES
  stage,     \* where each connection's HandleWebSocket is
  wire,      \* is the websocket itself still open?
  writer,    \* each connection's writePump
  pinger,    \* each connection's pingLoop
  open,      \* are the connection's Send and GameCh not closed?
  queued,    \* number of messages in the connection's Send
  entry,     \* h.clients: the connection of each user
  inMatch,   \* the inMatch of each user's entry
  playing,   \* does a game session count the user as its player?
  casts,     \* presence broadcasts about each user still to be delivered
  panic      \* the first panic, if any

vars == <<stage, wire, writer, pinger, open, queued, entry, inMatch, playing,
          casts, panic>>

-----------------------------------------------------------------------------
(* Slips a maintainer could make, variants of the definitions below.       *)

Forget_Skipped(u) == UNCHANGED entry
Closing_Replaced(c) == entry[Owner[c]]
ClearMark_Skipped(u) == inMatch[u]
Offered_OneMore(n) == IF n <= SendCap THEN n + 1 ELSE n

-----------------------------------------------------------------------------

CastAbout(u) == casts' = [casts EXCEPT ![u] = @ + 1]

(* The entry is deleted whichever of the user's connections has left.      *)
Forget(u) == entry' = [entry EXCEPT ![u] = NoConn]

(* The client whose channels are closed: the one that has left.            *)
Closing(c) == c

(* What a game that is over leaves in the entry.                           *)
ClearMark(u) == FALSE

(* r.Context() is done once HandleWebSocket has returned.                  *)
CtxDone(c) == stage[c] = "gone"

(* writePump's reasons to stop without a write: Send closed and drained,   *)
(* or the context done.                                                    *)
WriterDone(c) == (~open[c] /\ queued[c] = 0) \/ CtxDone(c)

(* A message offered to an open channel is dropped when it is full.        *)
Offered(n) == IF n < SendCap THEN n + 1 ELSE n

-----------------------------------------------------------------------------
(* The hub's goroutine.                                                    *)

(* The handler hands its client over and starts the three pumps; the entry *)
(* of the user is replaced, whatever it was.                               *)
Register(c) ==
  /\ stage[c] = "new"
  /\ stage' = [stage EXCEPT ![c] = "reading"]
  /\ writer' = [writer EXCEPT ![c] = "running"]
  /\ pinger' = [pinger EXCEPT ![c] = "running"]
  /\ entry' = [entry EXCEPT ![Owner[c]] = c]
  /\ inMatch' = [inMatch EXCEPT ![Owner[c]] = FALSE]
  /\ CastAbout(Owner[c])
  /\ UNCHANGED <<wire, open, queued, playing, panic>>

(* readPump's deferred send is received: if the user has an entry it goes, *)
(* and the leaving client's channels are closed.                           *)
Unregister(c) ==
  /\ stage[c] = "leaving"
  /\ stage' = [stage EXCEPT ![c] = "closing"]
  /\ IF entry[Owner[c]] # NoConn
       THEN Forget(Owner[c]) /\ open' = [open EXCEPT ![Closing(c)] = FALSE]
       ELSE UNCHANGED <<entry, open>>
  /\ CastAbout(Owner[c])
  /\ UNCHANGED <<wire, writer, pinger, queued, inMatch, playing, panic>>

-----------------------------------------------------------------------------
(* The goroutines of a connection.                                         *)

(* readPump handles a message and replies into its own Send.               *)
ReadAndReply(c) ==
  /\ stage[c] = "reading" /\ wire[c]
  /\ IF open[c]
       THEN queued' = [queued EXCEPT ![c] = Offered(@)] /\ UNCHANGED panic
       ELSE panic' = "reader" /\ UNCHANGED queued
  /\ UNCHANGED <<stage, wire, writer, pinger, open, entry, inMatch, playing,
                 casts>>

(* Read fails because the wire is closed, at either end.                   *)
ReaderStops(c) ==
  /\ stage[c] = "reading" /\ ~wire[c]
  /\ stage' = [stage EXCEPT ![c] = "leaving"]
  /\ UNCHANGED <<wire, writer, pinger, open, queued, entry, inMatch, playing,
                 casts, panic>>

(* After the hub has taken it, CloseNow, and HandleWebSocket returns.      *)
HandlerReturns(c) ==
  /\ stage[c] = "closing"
  /\ stage' = [stage EXCEPT ![c] = "gone"]
  /\ wire' = [wire EXCEPT ![c] = FALSE]
  /\ UNCHANGED <<writer, pinger, open, queued, entry, inMatch, playing, casts,
                 panic>>

(* writePump takes a message, which is written, or fails and stops it.     *)
Write(c) ==
  /\ writer[c] = "running" /\ queued[c] > 0
  /\ queued' = [queued EXCEPT ![c] = @ - 1]
  /\ \/ wire[c] /\ UNCHANGED <<wire, writer>>
     \/ /\ wire' = [wire EXCEPT ![c] = FALSE]
        /\ writer' = [writer EXCEPT ![c] = "stopped"]
  /\ UNCHANGED <<stage, pinger, open, entry, inMatch, playing, casts, panic>>

WriterStops(c) ==
  /\ writer[c] = "running"
  /\ WriterDone(c)
  /\ writer' = [writer EXCEPT ![c] = "stopped"]
  /\ wire' = [wire EXCEPT ![c] = FALSE]
  /\ UNCHANGED <<stage, pinger, open, queued, entry, inMatch, playing, casts,
                 panic>>

(* The ticker ticks.  Nothing tells pingLoop that the hub has closed Send, *)
(* and until it sees the context done its send to it panics.               *)
Ping(c) ==
  /\ pinger[c] = "running"
  /\ IF open[c]
       THEN queued' = [queued EXCEPT ![c] = Offered(@)] /\ UNCHANGED panic
       ELSE panic' = "ping" /\ UNCHANGED queued
  /\ UNCHANGED <<stage, wire, writer, pinger, open, entry, inMatch, playing,
                 casts>>

PingerStops(c) ==
  /\ pinger[c] = "running" /\ CtxDone(c)
  /\ pinger' = [pinger EXCEPT ![c] = "stopped"]
  /\ UNCHANGED <<stage, wire, writer, open, queued, entry, inMatch, playing,
                 casts, panic>>

(* The user's end goes away, or the network does.                          *)
WireBreaks(c) ==
  /\ stage[c] \in {"reading", "leaving"} /\ wire[c]
  /\ wire' = [wire EXCEPT ![c] = FALSE]
  /\ UNCHANGED <<stage, writer, pinger, open, queued, entry, inMatch, playing,
                 casts, panic>>

-----------------------------------------------------------------------------
(* Presence.                                                               *)

(* BroadcastPresence offers its message to every friend with an entry,     *)
(* holding the read lock all the while.                                    *)
Listeners(u) == {c \in Conn : Owner[c] \in Friends[u] /\ entry[Owner[c]] = c}

DeliverCast(u) ==
  /\ casts[u] > 0
  /\ casts' = [casts EXCEPT ![u] = @ - 1]
  /\ IF \A c \in Listeners(u) : open[c]
       THEN /\ queued' = [c \in Conn |-> IF c \in Listeners(u) THEN Offered(queued[c])
                                                               ELSE queued[c]]
            /\ UNCHANGED panic
       ELSE panic' = "broadcast" /\ UNCHANGED queued
  /\ UNCHANGED <<stage, wire, writer, pinger, open, entry, inMatch, playing>>

(* A game session marks its player and says so, at its start and, by user  *)
(* ID and whatever connection that user then has, at its end.              *)
Mark(u, mark) ==
  inMatch' = [inMatch EXCEPT ![u] = IF entry[u] # NoConn THEN mark ELSE @]

PlayStarts(u) ==
  /\ u \in Gamers /\ ~playing[u] /\ casts[u] < MaxCasts
  /\ \E c \in Conn : Owner[c] = u /\ stage[c] # "new"
  /\ playing' = [playing EXCEPT ![u] = TRUE]
  /\ Mark(u, TRUE)
  /\ CastAbout(u)
  /\ UNCHANGED <<stage, wire, writer, pinger, open, queued, entry, panic>>

PlayEnds(u) ==
  /\ playing[u] /\ casts[u] < MaxCasts
  /\ playing' = [playing EXCEPT ![u] = FALSE]
  /\ Mark(u, ClearMark(u))
  /\ CastAbout(u)
  /\ UNCHANGED <<stage, wire, writer, pinger, open, queued, entry, panic>>

(* GetPresence.                                                            *)
Presence(u) ==
  IF entry[u] = NoConn THEN "offline" ELSE IF inMatch[u] THEN "in_match" ELSE "online"

-----------------------------------------------------------------------------

Init ==
  /\ stage = [c \in Conn |-> "new"]
  /\ wire = [c \in Conn |-> TRUE]
  /\ writer = [c \in Conn |-> "off"] /\ pinger = [c \in Conn |-> "off"]
  /\ open = [c \in Conn |-> TRUE]
  /\ queued = [c \in Conn |-> 0]
  /\ entry = [u \in User |-> NoConn]
  /\ inMatch = [u \in User |-> FALSE] /\ playing = [u \in User |-> FALSE]
  /\ casts = [u \in User |-> 0]
  /\ panic = "none"

ConnStep(c) ==
  \/ Register(c) \/ Unregister(c)
  \/ ReadAndReply(c) \/ ReaderStops(c) \/ HandlerReturns(c)
  \/ Write(c) \/ WriterStops(c) \/ Ping(c) \/ PingerStops(c) \/ WireBreaks(c)

UserStep(u) == DeliverCast(u) \/ PlayStarts(u) \/ PlayEnds(u)

(* Nothing is left to do, or the process is dead.                          *)
AllQuiet ==
  /\ \A c \in Conn : stage[c] = "gone" /\ writer[c] = "stopped" /\ pinger[c] = "stopped"
  /\ \A u \in User : casts[u] = 0
Stopped == (panic # "none" \/ AllQuiet) /\ UNCHANGED vars

Next ==
  \/ /\ panic = "none"
     /\ (\E c \in Conn : ConnStep(c)) \/ (\E u \in User : UserStep(u))
  \/ Stopped

Spec == Init /\ [][Next]_vars

-----------------------------------------------------------------------------
(* Properties.                                                             *)

TypeOK ==
  /\ stage \in [Conn -> {"new", "reading", "leaving", "closing", "gone"}]
  /\ wire \in [Conn -> BOOLEAN] /\ open \in [Conn -> BOOLEAN]
  /\ writer \in [Conn -> {"off", "running", "stopped"}]
  /\ pinger \in [Conn -> {"off", "running", "stopped"}]
  /\ queued \in [Conn -> 0..SendCap]
  /\ entry \in [User -> Conn \cup {NoConn}]
  /\ inMatch \in [User -> BOOLEAN] /\ playing \in [User -> BOOLEAN]
  /\ casts \in [User -> Nat]
  /\ panic \in {"none", "ping", "broadcast", "reader"}

(* What other modules rely on of connections is what Hub does: what the    *)
(* goroutines of a connection do in between is none of their business.     *)
Phase(c) == IF stage[c] = "new" THEN "new"
            ELSE IF stage[c] \in {"reading", "leaving"} THEN "joined" ELSE "left"
Connections == INSTANCE Registry WITH
  phase <- [c \in Conn |-> Phase(c)], closed <- [c \in Conn |-> ~open[c]]
ImplementsRegistry == Connections!Spec

(* However a user's connections come and go, the entry never keeps one the *)
(* hub has already let go: GetClient returns a client that is still being  *)
(* read, or whose readPump is about to unregister it.                      *)
EntryIsConnected ==
  \A u \in User : entry[u] # NoConn =>
    Owner[entry[u]] = u /\ stage[entry[u]] \in {"reading", "leaving"}

(* Closing a client's channels never makes a presence broadcast panic, nor *)
(* what a readPump replies into its own Send: the one holds the hub's lock,*)
(* the other is what is unregistered afterwards.  A ping may panic; so may *)
(* the sends of sessions (GameSession) and of challenges (Challenge).      *)
CastsAndRepliesAreSafe == panic \in {"none", "ping"}

(* A user shown as in a match is playing one, on whatever connection.      *)
ShownInMatchIsPlaying == \A u \in User : Presence(u) = "in_match" => playing[u]

(* "opponent is not online", says handleChallenge of a user who has no     *)
(* entry: then none of the user's connections is being served.             *)
OfflineMeansDisconnected ==
  \A u \in User : Presence(u) = "offline" =>
    \A c \in Conn : Owner[c] = u => stage[c] # "reading"

=============================================================================
