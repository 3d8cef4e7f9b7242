------------------------------ MODULE Presence ------------------------------
(***************************************************************************)
(* What a user's app is told of its friends: the entries of the hub and    *)
(* their inMatch marks, the broadcasts that Run starts as goroutines of    *)
(* their own and game sessions make themselves, and GET /friends.          *)
(*                                                                         *)
(* "said" and "right" are history: what the server last told a connection  *)
(* of a user, and whether that was so at that moment.  A connection that   *)
(* misses a message, because its Send is full or the database fails, knows *)
(* nothing until it is told again.  A broadcast holds the read lock from   *)
(* its first friend to its last, and of two that overlap each friend gets  *)
(* one first: each is one step.                                            *)
(***************************************************************************)
EXTENDS Integers, FiniteSets

CONSTANTS
  User,       \* user IDs
  Conn,       \* connections, each a *Client
  Owner,      \* the user of each connection
  Friends,    \* the accepted friends of each user
  NoConn,     \* no entry in h.clients
  Game,       \* game sessions
  PlayersOf,  \* player1 and player2 of each
  SendCap,    \* capacity of Send
  MaxCasts    \* bound: broadcasts about a user that are in flight

Status == {"offline", "online", "in_match"}
Nothing == "nothing"

ASSUME PresenceAssumption ==
  /\ Owner \in [Conn -> User]
  /\ Friends \in [User -> SUBSET User]
  /\ \A u, v \in User : v \in Friends[u] => u \in Friends[v]
  /\ NoConn \notin Conn
  /\ PlayersOf \in [Game -> [1..2 -> User]]
  /\ SendCap \in Nat \ {0} /\ MaxCasts \in Nat

VARIABLES
  stage,     \* is each connection new, open or gone?
  entry,     \* h.clients: the connection of each user
  inMatch,   \* the inMatch of the user's entry
  casts,     \* how many broadcasts of each status are in flight
  at,        \* where each session's Run is,
  turn,      \* and with which player
  queued,    \* number of messages in each connection's Send
  said,      \* history: see above
  right      \* history: see above

clients == <<stage, entry, inMatch>>
session == <<at, turn>>
told == <<queued, said, right>>
vars == <<clients, casts, session, told>>

-----------------------------------------------------------------------------
(* Slips a maintainer could make, variants of the definitions below.       *)

Announced_IfNew(u, status) == entry[u] = NoConn
Room_Always(cs) == cs
Say_Go(u, status) ==
  /\ casts' = [casts EXCEPT ![u][status] = @ + 1]
  /\ UNCHANGED told

-----------------------------------------------------------------------------
(* Telling friends.                                                        *)

(* GetPresence.                                                            *)
Presence(u) ==
  IF entry[u] = NoConn THEN "offline" ELSE IF inMatch[u] THEN "in_match" ELSE "online"

(* The connections of the friends of u, and those that have room.          *)
Hearers(u) == {c \in Conn : entry[Owner[c]] = c /\ Owner[c] \in Friends[u]}
Room(cs) == {c \in cs : queued[c] < SendCap}

(* BroadcastPresence, which tells nobody if the friends cannot be listed.  *)
Broadcast(u, status) ==
  \E cs \in {Room(Hearers(u)), {}} :
    /\ queued' = [c \in Conn |-> IF c \in cs THEN queued[c] + 1 ELSE queued[c]]
    /\ said' = [c \in Conn |-> [said[c] EXCEPT
                  ![u] = IF c \in cs THEN status ELSE IF c \in Hearers(u) THEN Nothing ELSE @]]
    /\ right' = [c \in Conn |-> [right[c] EXCEPT
                  ![u] = IF c \in cs THEN status = Presence(u) ELSE @]]

(* "go h.BroadcastPresence", and the goroutine itself.                     *)
Announced(u, status) == TRUE

Announce(u, status) ==
  /\ casts[u][status] < MaxCasts
  /\ IF Announced(u, status) THEN casts' = [casts EXCEPT ![u][status] = @ + 1]
                             ELSE UNCHANGED casts

Deliver(u, status) ==
  /\ casts[u][status] > 0
  /\ casts' = [casts EXCEPT ![u][status] = @ - 1]
  /\ Broadcast(u, status)
  /\ UNCHANGED <<clients, session>>

(* writePump takes a message.                                              *)
Drain(c) ==
  /\ queued[c] > 0
  /\ queued' = [queued EXCEPT ![c] = @ - 1]
  /\ UNCHANGED <<clients, casts, session, said, right>>

(* GET /friends reads the presence of one friend after the other.          *)
List(c, u) ==
  /\ stage[c] = "open" /\ u \in Friends[Owner[c]]
  /\ said' = [said EXCEPT ![c][u] = Presence(u)]
  /\ right' = [right EXCEPT ![c][u] = TRUE]
  /\ UNCHANGED <<clients, casts, session, queued>>

-----------------------------------------------------------------------------
(* The hub.                                                                *)

Register(c) ==
  /\ stage[c] = "new"
  /\ stage' = [stage EXCEPT ![c] = "open"]
  /\ entry' = [entry EXCEPT ![Owner[c]] = c]
  /\ inMatch' = [inMatch EXCEPT ![Owner[c]] = FALSE]
  /\ Announce(Owner[c], "online")
  /\ UNCHANGED <<session, told>>

(* An entry goes with its mark, whichever connection of the user leaves.   *)
Unregister(c) ==
  /\ stage[c] = "open"
  /\ stage' = [stage EXCEPT ![c] = "gone"]
  /\ entry' = [entry EXCEPT ![Owner[c]] = NoConn]
  /\ inMatch' = [inMatch EXCEPT ![Owner[c]] = FALSE]
  /\ Announce(Owner[c], "offline")
  /\ UNCHANGED <<session, told>>

-----------------------------------------------------------------------------
(* A game session, for one player after the other.                         *)

Player(g) == PlayersOf[g][turn[g]]

Then(g, next) ==
  IF turn[g] = 1 THEN turn' = [turn EXCEPT ![g] = 2] /\ UNCHANGED at
                 ELSE turn' = [turn EXCEPT ![g] = 1] /\ at' = [at EXCEPT ![g] = next]

SetInMatch(u, mark) ==
  inMatch' = [inMatch EXCEPT ![u] = IF entry[u] # NoConn THEN mark ELSE @]

(* Said by the session's goroutine itself, which goes on afterwards.       *)
Say(u, status) == Broadcast(u, status) /\ UNCHANGED casts

(* Between two clients that the hub had, and may have no more.             *)
StartGame(g) ==
  /\ at[g] = "none"
  /\ \A i \in 1..2 : \E c \in Conn : Owner[c] = PlayersOf[g][i] /\ stage[c] # "new"
  /\ at' = [at EXCEPT ![g] = "mark"]
  /\ UNCHANGED <<clients, casts, turn, told>>

MarkPlayer(g) ==
  /\ at[g] = "mark"
  /\ SetInMatch(Player(g), TRUE) /\ Then(g, "say")
  /\ UNCHANGED <<stage, entry, casts, told>>

SayInMatch(g) ==
  /\ at[g] = "say"
  /\ Say(Player(g), "in_match") /\ Then(g, "play")
  /\ UNCHANGED clients

GameEnds(g) ==
  /\ at[g] = "play"
  /\ at' = [at EXCEPT ![g] = "clear"]
  /\ UNCHANGED <<clients, casts, turn, told>>

ClearPlayer(g) ==
  /\ at[g] = "clear"
  /\ SetInMatch(Player(g), FALSE) /\ Then(g, "bye")
  /\ UNCHANGED <<stage, entry, casts, told>>

(* Whether or not the player is still there.                               *)
SayOnline(g) ==
  /\ at[g] = "bye"
  /\ Say(Player(g), "online") /\ Then(g, "over")
  /\ UNCHANGED clients

-----------------------------------------------------------------------------

Init ==
  /\ stage = [c \in Conn |-> "new"]
  /\ entry = [u \in User |-> NoConn]
  /\ inMatch = [u \in User |-> FALSE]
  /\ casts = [u \in User |-> [s \in Status |-> 0]]
  /\ at = [g \in Game |-> "none"] /\ turn = [g \in Game |-> 1]
  /\ queued = [c \in Conn |-> 0]
  /\ said = [c \in Conn |-> [u \in User |-> Nothing]]
  /\ right = [c \in Conn |-> [u \in User |-> FALSE]]

Next ==
  \/ \E c \in Conn : Register(c) \/ Unregister(c) \/ Drain(c) \/ \E u \in User : List(c, u)
  \/ \E u \in User, s \in Status : Deliver(u, s)
  \/ \E g \in Game :
       \/ StartGame(g) \/ MarkPlayer(g) \/ SayInMatch(g)
       \/ GameEnds(g) \/ ClearPlayer(g) \/ SayOnline(g)

Spec == Init /\ [][Next]_vars

-----------------------------------------------------------------------------
(* Properties.                                                             *)

TypeOK ==
  /\ stage \in [Conn -> {"new", "open", "gone"}]
  /\ entry \in [User -> Conn \cup {NoConn}]
  /\ inMatch \in [User -> BOOLEAN]
  /\ casts \in [User -> [Status -> Nat]]
  /\ at \in [Game -> {"none", "mark", "say", "play", "clear", "bye", "over"}]
  /\ turn \in [Game -> 1..2]
  /\ queued \in [Conn -> 0..SendCap]
  /\ said \in [Conn -> [User -> Status \cup {Nothing}]]
  /\ right \in [Conn -> [User -> BOOLEAN]]

(* Something is still to be said of u.                                     *)
ToCome(u) ==
  \/ \E s \in Status : casts[u][s] > 0
  \/ \E g \in Game, i \in 1..2 :
       /\ PlayersOf[g][i] = u
       /\ at[g] \in {"mark", "clear"} \/ (at[g] \in {"say", "bye"} /\ i >= turn[g])

(* Nothing changes behind a friend's back: what was right when it was told *)
(* is right still, or more is to come.  A user's connections may replace   *)
(* each other, in the middle of games too.                                 *)
NoSilentChange ==
  \A c \in Conn, u \in User :
    entry[Owner[c]] = c /\ said[c][u] # Nothing /\ right[c][u] =>
      said[c][u] = Presence(u) \/ ToCome(u)

(* However broadcasts overtake each other, no friend whose last message    *)
(* about a user has arrived believes the user in a match when all of the   *)
(* user's games are over.  Nothing is promised to one whose last message   *)
(* was dropped or never sent, for whom said is Nothing and who goes on     *)
(* showing what came before, nor to a connection that has lost its entry.  *)
Idle(u) == \A g \in Game : (\E i \in 1..2 : PlayersOf[g][i] = u) => at[g] \in {"none", "over"}

InMatchPasses ==
  \A c \in Conn, u \in User :
    entry[Owner[c]] = c /\ Idle(u) => said[c][u] # "in_match"

=============================================================================
