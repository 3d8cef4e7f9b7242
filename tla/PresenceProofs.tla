--------------------------- MODULE PresenceProofs ---------------------------
(***************************************************************************)
(* What is proved of Presence for any users, friendships, connections,     *)
(* games and capacities, and any number of broadcasts in flight.           *)
(***************************************************************************)
EXTENDS Presence, TLAPS

-----------------------------------------------------------------------------
(* The invariant.                                                          *)

(* The entries are of connections that are open, and have the marks.       *)
EntriesFit ==
  \A u \in User :
    /\ entry[u] # NoConn => Owner[entry[u]] = u /\ stage[entry[u]] = "open"
    /\ entry[u] = NoConn => ~inMatch[u]

(* One hears of friends only, and nothing before one is connected.         *)
HearsOfFriends ==
  \A c \in Conn, u \in User :
    said[c][u] # Nothing => stage[c] # "new" /\ Owner[c] \in Friends[u]

(* The goroutines of the hub say "online" and "offline".                   *)
GamesSayInMatch == \A u \in User : casts[u]["in_match"] = 0

(* Between a session's mark of a player and its end of it, and until it    *)
(* has said that it ended.                                                 *)
Marked(g, i) ==
  \/ at[g] = "mark" /\ i < turn[g]
  \/ at[g] \in {"say", "play"}
  \/ at[g] = "clear" /\ i >= turn[g]
Busy(g, i) ==
  at[g] \in {"mark", "say", "play", "clear"} \/ (at[g] = "bye" /\ i >= turn[g])

(* A session that is not with its players comes to the first one next.     *)
TurnsFit == \A g \in Game : at[g] \in {"none", "play", "over"} => turn[g] = 1

MarksFit ==
  \A u \in User : inMatch[u] => \E g \in Game, i \in 1..2 : PlayersOf[g][i] = u /\ Marked(g, i)

BeliefsFit ==
  \A c \in Conn, u \in User :
    entry[Owner[c]] = c /\ said[c][u] = "in_match" =>
      \E g \in Game, i \in 1..2 : PlayersOf[g][i] = u /\ Busy(g, i)

IInv ==
  /\ TypeOK /\ EntriesFit /\ HearsOfFriends /\ GamesSayInMatch
  /\ TurnsFit /\ MarksFit /\ BeliefsFit /\ NoSilentChange

LEMMA InitEstablishes == Init => IInv
<1> SUFFICES ASSUME Init PROVE IInv
  OBVIOUS
<1>1. TypeOK
  BY PresenceAssumption DEF Init, TypeOK, Status
<1> QED
  BY <1>1, PresenceAssumption DEF Init, IInv, EntriesFit, HearsOfFriends, GamesSayInMatch,
       TurnsFit, MarksFit, BeliefsFit, NoSilentChange, Nothing, Status

-----------------------------------------------------------------------------
(* What the parts of the actions do.                                       *)

(* A broadcast about a user changes what that user's hearers were told of  *)
(* it, and nothing else.                                                   *)
LEMMA BroadcastTells ==
  ASSUME TypeOK, NEW u \in User, NEW s \in Status, Broadcast(u, s)
  PROVE  /\ queued' \in [Conn -> 0..SendCap]
         /\ said' \in [Conn -> [User -> Status \cup {Nothing}]]
         /\ right' \in [Conn -> [User -> BOOLEAN]]
         /\ \A c \in Conn, v \in User : v # u \/ c \notin Hearers(u) =>
              said'[c][v] = said[c][v] /\ right'[c][v] = right[c][v]
         /\ \A c \in Hearers(u) : said'[c][u] # Nothing =>
              said'[c][u] = s /\ right'[c][u] = (s = Presence(u))
<1>1. PICK cs \in {Room(Hearers(u)), {}} :
        /\ queued' = [c \in Conn |-> IF c \in cs THEN queued[c] + 1 ELSE queued[c]]
        /\ said' = [c \in Conn |-> [said[c] EXCEPT
                      ![u] = IF c \in cs THEN s ELSE IF c \in Hearers(u) THEN Nothing ELSE @]]
        /\ right' = [c \in Conn |-> [right[c] EXCEPT
                      ![u] = IF c \in cs THEN s = Presence(u) ELSE @]]
  BY DEF Broadcast
<1>2. \A c \in Conn : c \in cs => c \in Hearers(u) /\ queued[c] < SendCap
  BY <1>1 DEF Room
<1>3. queued' \in [Conn -> 0..SendCap]
  BY <1>1, <1>2, PresenceAssumption DEF TypeOK
<1>4. \A c \in Conn : said[c] \in [User -> Status \cup {Nothing}] /\ right[c] \in [User -> BOOLEAN]
  BY DEF TypeOK
<1>5. said' \in [Conn -> [User -> Status \cup {Nothing}]]
  BY <1>1, <1>4
<1>6. right' \in [Conn -> [User -> BOOLEAN]]
  <2>1. (s = Presence(u)) \in BOOLEAN
    OBVIOUS
  <2> HIDE DEF Presence
  <2> QED
    BY <1>1, <1>4, <2>1
<1>7. Hearers(u) \subseteq Conn
  BY DEF Hearers
<1> QED
  BY <1>1, <1>2, <1>3, <1>4, <1>5, <1>6, <1>7

(* A session goes on to its second player, or with its first to what is    *)
(* next.                                                                   *)
LEMMA ThenGoesOn ==
  ASSUME TypeOK, NEW g \in Game,
         NEW next \in {"say", "play", "bye", "over"}, Then(g, next)
  PROVE  /\ at' \in [Game -> {"none", "mark", "say", "play", "clear", "bye", "over"}]
         /\ turn' \in [Game -> 1..2]
         /\ \A h \in Game \ {g} : at'[h] = at[h] /\ turn'[h] = turn[h]
         /\ \/ turn[g] = 1 /\ at'[g] = at[g] /\ turn'[g] = 2
            \/ turn[g] = 2 /\ at'[g] = next /\ turn'[g] = 1
<1>1. turn \in [Game -> 1..2] /\ turn[g] \in {1, 2}
  BY DEF TypeOK
<1>2. CASE turn[g] = 1
  <2>1. turn' = [turn EXCEPT ![g] = 2] /\ at' = at
    BY <1>2 DEF Then
  <2> QED
    BY <1>1, <1>2, <2>1 DEF TypeOK
<1>3. CASE turn[g] = 2
  <2>1. turn' = [turn EXCEPT ![g] = 1] /\ at' = [at EXCEPT ![g] = next]
    BY <1>3 DEF Then
  <2> QED
    BY <1>1, <1>3, <2>1 DEF TypeOK
<1> QED
  BY <1>1, <1>2, <1>3

LEMMA PlayerIsUser ==
  ASSUME TypeOK, NEW g \in Game
  PROVE  turn[g] \in 1..2 /\ Player(g) \in User
BY PresenceAssumption DEF TypeOK, Player

(* Presence is read from the entry and its mark.                           *)
LEMMA PresenceKept ==
  ASSUME NEW u \in User, entry'[u] = entry[u], inMatch'[u] = inMatch[u]
  PROVE  Presence(u)' = Presence(u)
BY DEF Presence

LEMMA PresenceType == ASSUME NEW u \in User PROVE Presence(u) \in Status \ {Nothing}
BY DEF Presence, Status, Nothing

-----------------------------------------------------------------------------
(* Steps of the hub.                                                       *)

(* A registration or an unregistration of c, with what Run announces.      *)
Entered(c, s) ==
  /\ s \in {"online", "offline"}
  /\ casts[Owner[c]][s] < MaxCasts
  /\ casts' = [casts EXCEPT ![Owner[c]][s] = @ + 1]
  /\ stage' = [stage EXCEPT ![c] = IF s = "online" THEN "open" ELSE "gone"]
  /\ entry' = [entry EXCEPT ![Owner[c]] = IF s = "online" THEN c ELSE NoConn]
  /\ inMatch' = [inMatch EXCEPT ![Owner[c]] = FALSE]
  /\ stage[c] = IF s = "online" THEN "new" ELSE "open"
  /\ UNCHANGED <<session, told>>

LEMMA EnteredKeeps ==
  ASSUME IInv, NEW c \in Conn, NEW s, Entered(c, s)
  PROVE  IInv'
<1> DEFINE u == Owner[c]
<1>0. u \in User /\ NoConn \notin Conn /\ \A d \in Conn : Owner[d] \in User
  BY PresenceAssumption
<1> USE DEF IInv
<1>1. /\ casts' \in [User -> [Status -> Nat]]
      /\ casts'[u][s] > 0
      /\ casts'[u]["in_match"] = casts[u]["in_match"]
      /\ \A v \in User, t \in Status : casts[v][t] > 0 => casts'[v][t] > 0
      /\ \A v \in User \ {u} : casts'[v] = casts[v]
  <2>1. casts[u] \in [Status -> Nat] /\ s \in Status /\ s # "in_match"
    BY <1>0 DEF TypeOK, Entered, Status
  <2>2. casts' = [casts EXCEPT ![u] = [casts[u] EXCEPT ![s] = casts[u][s] + 1]]
    BY DEF Entered
  <2>3. casts \in [User -> [Status -> Nat]]
    BY DEF TypeOK
  <2> QED
    BY <1>0, <2>1, <2>2, <2>3 DEF Status
<1>2. TypeOK'
  BY <1>0, <1>1 DEF Entered, TypeOK, session, told
<1>3. EntriesFit'
  BY <1>0 DEF Entered, TypeOK, EntriesFit
<1>4. HearsOfFriends'
  BY <1>0 DEF Entered, TypeOK, HearsOfFriends, told
<1>5. GamesSayInMatch'
  BY <1>0, <1>1 DEF GamesSayInMatch
<1>6. TurnsFit' /\ MarksFit'
  BY <1>0 DEF Entered, TypeOK, TurnsFit, MarksFit, Marked, session
<1>7. \A d \in Conn, v \in User : entry'[Owner[d]] = d /\ said'[d][v] # Nothing =>
        /\ entry[Owner[d]] = d
        /\ said'[d][v] = said[d][v] /\ right'[d][v] = right[d][v]
  BY <1>0 DEF Entered, TypeOK, HearsOfFriends, told
<1>8. BeliefsFit'
  BY <1>7 DEF Entered, BeliefsFit, Busy, session, Nothing
<1>9. NoSilentChange'
  <2> SUFFICES ASSUME NEW d \in Conn, NEW v \in User,
                      entry'[Owner[d]] = d, said'[d][v] # Nothing, right'[d][v]
               PROVE  said'[d][v] = Presence(v)' \/ ToCome(v)'
    BY DEF NoSilentChange
  <2>1. CASE v = u
    <3>1. s \in Status
      BY DEF Entered, Status
    <3> QED
      BY <1>1, <2>1, <3>1 DEF ToCome
  <2>2. CASE v # u
    <3>1. entry'[v] = entry[v] /\ inMatch'[v] = inMatch[v]
      BY <1>0, <2>2 DEF Entered, TypeOK
    <3>2. Presence(v)' = Presence(v)
      BY <3>1, PresenceKept
    <3>3. ToCome(v) => ToCome(v)'
      BY <1>1 DEF ToCome, Entered, session
    <3>4. said[d][v] = Presence(v) \/ ToCome(v)
      BY <1>7 DEF NoSilentChange
    <3> QED
      BY <1>7, <3>2, <3>3, <3>4
  <2> QED
    BY <2>1, <2>2
<1> QED
  BY <1>2, <1>3, <1>4, <1>5, <1>6, <1>8, <1>9

-----------------------------------------------------------------------------
(* Steps of a session.                                                     *)

(* StartGame and GameEnds: a session is to mark, or to clear, its players. *)
Entering(g, from, to) ==
  /\ \/ from = "none" /\ to = "mark"
     \/ from = "play" /\ to = "clear"
  /\ at[g] = from
  /\ at' = [at EXCEPT ![g] = to]
  /\ UNCHANGED <<clients, casts, turn, told>>

(* A session that marks, or is to clear, marks both players in their turn. *)
MarkStep(g, from, mark, to) ==
  /\ \/ from = "mark" /\ mark = TRUE /\ to = "say"
     \/ from = "clear" /\ mark = FALSE /\ to = "bye"
  /\ at[g] = from
  /\ SetInMatch(Player(g), mark) /\ Then(g, to)
  /\ UNCHANGED <<stage, entry, casts, told>>

LEMMA MarkStepKeeps ==
  ASSUME IInv, NEW g \in Game, NEW from, NEW mark, NEW to, MarkStep(g, from, mark, to)
  PROVE  IInv'
<1> USE DEF IInv
<1>0. PICK u \in User, k \in 1..2 : u = Player(g) /\ k = turn[g] /\ u = PlayersOf[g][k]
  BY PlayerIsUser DEF Player
<1>1. /\ at[g] = from /\ to \in {"say", "bye"}
      /\ \/ from = "mark" /\ mark = TRUE /\ to = "say"
         \/ from = "clear" /\ mark = FALSE /\ to = "bye"
  BY DEF MarkStep
<1>2. /\ at' \in [Game -> {"none", "mark", "say", "play", "clear", "bye", "over"}]
      /\ turn' \in [Game -> 1..2]
      /\ \A h \in Game \ {g} : at'[h] = at[h] /\ turn'[h] = turn[h]
      /\ \/ turn[g] = 1 /\ at'[g] = from /\ turn'[g] = 2
         \/ turn[g] = 2 /\ at'[g] = to /\ turn'[g] = 1
  BY <1>1, ThenGoesOn DEF MarkStep
<1>3. /\ inMatch' \in [User -> BOOLEAN]
      /\ \A v \in User \ {u} : inMatch'[v] = inMatch[v]
      /\ inMatch'[u] = IF entry[u] # NoConn THEN mark ELSE inMatch[u]
  BY <1>0, <1>1 DEF MarkStep, SetInMatch, TypeOK
<1>4. TypeOK'
  BY <1>2, <1>3 DEF MarkStep, TypeOK, told
<1>5. EntriesFit'
  BY <1>0, <1>3 DEF MarkStep, EntriesFit
<1>6. HearsOfFriends' /\ GamesSayInMatch' /\ TurnsFit'
  <2>1. HearsOfFriends' /\ GamesSayInMatch'
    BY DEF MarkStep, HearsOfFriends, GamesSayInMatch, told
  <2>2. TurnsFit'
    BY <1>1, <1>2 DEF TurnsFit
  <2> QED
    BY <2>1, <2>2
<1>7. MarksFit'
  <2> SUFFICES ASSUME NEW v \in User, inMatch'[v]
               PROVE  \E h \in Game, i \in 1..2 : PlayersOf[h][i] = v /\ Marked(h, i)'
    BY DEF MarksFit
  <2>1. CASE v = u /\ entry[u] # NoConn
    <3>1. mark = TRUE /\ from = "mark" /\ to = "say"
      BY <1>1, <1>3, <2>1
    <3>2. Marked(g, k)'
      BY <1>0, <1>2, <3>1 DEF Marked
    <3> QED
      BY <1>0, <2>1, <3>2
  <2>2. CASE v # u \/ entry[u] = NoConn
    <3>1. inMatch[v] /\ v # u
      BY <1>0, <1>3, <2>2 DEF EntriesFit
    <3>2. PICK h \in Game, i \in 1..2 : PlayersOf[h][i] = v /\ Marked(h, i)
      BY <3>1 DEF MarksFit
    <3>3. CASE h # g
      BY <1>2, <3>2, <3>3 DEF Marked
    <3>4. CASE h = g
      <4>1. i # k
        BY <1>0, <3>1, <3>2, <3>4
      <4>2. Marked(g, i)'
        BY <1>0, <1>1, <1>2, <3>2, <3>4, <4>1 DEF Marked
      <4> QED
        BY <3>2, <3>4, <4>2
    <3> QED
      BY <3>3, <3>4
  <2> QED
    BY <2>1, <2>2
<1>8. \A h \in Game, i \in 1..2 : Busy(h, i) => Busy(h, i)'
  BY <1>1, <1>2 DEF Busy
<1>9. BeliefsFit'
  BY <1>8 DEF MarkStep, BeliefsFit, told
<1>10. \A v \in User : ToCome(v) => ToCome(v)'
  <2> SUFFICES ASSUME NEW v \in User, ToCome(v), ~ \E s \in Status : casts[v][s] > 0
               PROVE  ToCome(v)'
    BY DEF ToCome, MarkStep
  <2>1. PICK h \in Game, i \in 1..2 :
          /\ PlayersOf[h][i] = v
          /\ at[h] \in {"mark", "clear"} \/ (at[h] \in {"say", "bye"} /\ i >= turn[h])
    BY DEF ToCome
  <2>2. at'[h] \in {"mark", "clear"} \/ (at'[h] \in {"say", "bye"} /\ i >= turn'[h])
    BY <1>1, <1>2, <2>1
  <2> QED
    BY <2>1, <2>2 DEF ToCome
<1>11. ToCome(u)'
  <2>1. at'[g] \in {"mark", "clear"} \/ (at'[g] \in {"say", "bye"} /\ k >= turn'[g])
    BY <1>0, <1>1, <1>2
  <2> QED
    BY <1>0, <2>1 DEF ToCome
<1>12. NoSilentChange'
  <2> SUFFICES ASSUME NEW d \in Conn, NEW v \in User,
                      entry'[Owner[d]] = d, said'[d][v] # Nothing, right'[d][v]
               PROVE  said'[d][v] = Presence(v)' \/ ToCome(v)'
    BY DEF NoSilentChange
  <2>1. said[d][v] = Presence(v) \/ ToCome(v)
    BY DEF NoSilentChange, MarkStep, told
  <2>2. v # u => Presence(v)' = Presence(v)
    BY <1>3, PresenceKept DEF MarkStep
  <2> QED
    BY <1>10, <1>11, <2>1, <2>2 DEF MarkStep, told
<1> QED
  BY <1>4, <1>5, <1>6, <1>7, <1>9, <1>12

LEMMA EnteringKeeps ==
  ASSUME IInv, NEW g \in Game, NEW from, NEW to, Entering(g, from, to)
  PROVE  IInv'
<1> USE DEF IInv
<1>1. /\ at' \in [Game -> {"none", "mark", "say", "play", "clear", "bye", "over"}]
      /\ \A h \in Game \ {g} : at'[h] = at[h]
      /\ at[g] = from /\ at'[g] = to
      /\ \/ from = "none" /\ to = "mark"
         \/ from = "play" /\ to = "clear"
  BY DEF Entering, TypeOK
<1>2. UNCHANGED <<stage, entry, inMatch, casts, turn, queued, said, right>>
  BY DEF Entering, clients, told
<1>3. /\ TypeOK' /\ EntriesFit' /\ HearsOfFriends' /\ GamesSayInMatch'
      /\ TurnsFit'
  BY <1>1, <1>2 DEF TypeOK, EntriesFit, HearsOfFriends, GamesSayInMatch, TurnsFit
<1>4. \A h \in Game, i \in 1..2 : (Marked(h, i) => Marked(h, i)') /\ (Busy(h, i) => Busy(h, i)')
  <2> TAKE h \in Game, i \in 1..2
  <2>1. CASE h # g
    BY <1>1, <1>2, <2>1 DEF Marked, Busy
  <2>2. CASE h = g
    <3>1. turn[g] = 1 /\ i >= 1
      BY <1>1 DEF TurnsFit
    <3> QED
      BY <1>1, <1>2, <2>2, <3>1 DEF Marked, Busy
  <2> QED
    BY <2>1, <2>2
<1>5. MarksFit' /\ BeliefsFit'
  BY <1>2, <1>4 DEF MarksFit, BeliefsFit
<1>6. \A v \in User : ToCome(v) => ToCome(v)'
  BY <1>1, <1>2 DEF ToCome
<1>7. NoSilentChange'
  BY <1>2, <1>6 DEF NoSilentChange, Presence
<1> QED
  BY <1>3, <1>5, <1>7

-----------------------------------------------------------------------------
(* Broadcasts.                                                             *)

(* A friend with an entry either hears or has heard nothing.               *)
LEMMA TheRestKnowNothing ==
  ASSUME IInv, NEW d \in Conn, NEW u \in User, entry[Owner[d]] = d, d \notin Hearers(u)
  PROVE  said[d][u] = Nothing
BY DEF IInv, HearsOfFriends, Hearers

LEMMA BroadcastKeeps ==
  ASSUME IInv, NEW u \in User, NEW s \in Status, Broadcast(u, s), UNCHANGED clients
  PROVE  /\ HearsOfFriends' /\ EntriesFit'
         /\ \A d \in Conn : entry[Owner[d]] = d /\ said'[d][u] # Nothing =>
              said'[d][u] = s /\ (right'[d][u] => s = Presence(u)')
<1> USE DEF IInv
<1>1. /\ \A c \in Conn, v \in User : v # u \/ c \notin Hearers(u) =>
           said'[c][v] = said[c][v] /\ right'[c][v] = right[c][v]
      /\ \A c \in Hearers(u) : said'[c][u] # Nothing =>
           said'[c][u] = s /\ right'[c][u] = (s = Presence(u))
  BY BroadcastTells
<1>2. UNCHANGED <<stage, entry, inMatch>>
  BY DEF clients
<1>3. \A c \in Hearers(u) : stage[c] # "new" /\ Owner[c] \in Friends[u]
  BY PresenceAssumption DEF Hearers, EntriesFit
<1>4. HearsOfFriends'
  <2> SUFFICES ASSUME NEW c \in Conn, NEW v \in User, said'[c][v] # Nothing
               PROVE  stage[c] # "new" /\ Owner[c] \in Friends[v]
    BY <1>2 DEF HearsOfFriends
  <2>1. CASE v = u /\ c \in Hearers(u)
    BY <1>3, <2>1
  <2>2. CASE v # u \/ c \notin Hearers(u)
    BY <1>1, <2>2 DEF HearsOfFriends
  <2> QED
    BY <2>1, <2>2
<1>5. Presence(u)' = Presence(u)
  BY <1>2, PresenceKept
<1>6. ASSUME NEW d \in Conn, entry[Owner[d]] = d, said'[d][u] # Nothing
      PROVE  said'[d][u] = s /\ (right'[d][u] => s = Presence(u)')
  <2>1. d \in Hearers(u)
    BY <1>1, <1>6, TheRestKnowNothing
  <2> QED
    BY <1>1, <1>5, <1>6, <2>1
<1> QED
  BY <1>2, <1>4, <1>6 DEF EntriesFit

LEMMA DeliverKeeps ==
  ASSUME IInv, NEW u \in User, NEW s \in Status, Deliver(u, s)
  PROVE  IInv'
<1> USE DEF IInv
<1>1. UNCHANGED <<stage, entry, inMatch, at, turn>> /\ s # "in_match"
  BY DEF Deliver, clients, session, GamesSayInMatch, TypeOK
<1>2. /\ queued' \in [Conn -> 0..SendCap]
      /\ said' \in [Conn -> [User -> Status \cup {Nothing}]]
      /\ right' \in [Conn -> [User -> BOOLEAN]]
      /\ \A c \in Conn, v \in User : v # u =>
           said'[c][v] = said[c][v] /\ right'[c][v] = right[c][v]
  BY BroadcastTells DEF Deliver
<1>3. /\ HearsOfFriends' /\ EntriesFit'
      /\ \A d \in Conn : entry[Owner[d]] = d /\ said'[d][u] # Nothing =>
           said'[d][u] = s /\ (right'[d][u] => s = Presence(u)')
  BY BroadcastKeeps DEF Deliver
<1>4. /\ casts' \in [User -> [Status -> Nat]]
      /\ \A v \in User \ {u} : casts'[v] = casts[v]
      /\ casts'[u]["in_match"] = casts[u]["in_match"]
  <2>1. casts[u] \in [Status -> Nat] /\ casts[u][s] > 0
    BY DEF TypeOK, Deliver
  <2>2. casts' = [casts EXCEPT ![u] = [casts[u] EXCEPT ![s] = casts[u][s] - 1]]
    BY DEF Deliver
  <2>3. casts \in [User -> [Status -> Nat]]
    BY DEF TypeOK
  <2> QED
    BY <1>1, <2>1, <2>2, <2>3 DEF Status
<1>5. TypeOK' /\ GamesSayInMatch' /\ TurnsFit' /\ MarksFit'
  <2>1. TypeOK'
    BY <1>1, <1>2, <1>4 DEF TypeOK
  <2>2. GamesSayInMatch' /\ TurnsFit'
    BY <1>1, <1>4 DEF GamesSayInMatch, TurnsFit
  <2>3. MarksFit'
    BY <1>1 DEF MarksFit, Marked
  <2> QED
    BY <2>1, <2>2, <2>3
<1>6. BeliefsFit'
  <2> SUFFICES ASSUME NEW d \in Conn, NEW v \in User,
                      entry[Owner[d]] = d, said'[d][v] = "in_match"
               PROVE  \E g \in Game, i \in 1..2 : PlayersOf[g][i] = v /\ Busy(g, i)
    BY <1>1 DEF BeliefsFit, Busy
  <2>1. v # u
    BY <1>1, <1>3 DEF Nothing
  <2> QED
    BY <1>2, <2>1 DEF BeliefsFit
<1>7. NoSilentChange'
  <2> SUFFICES ASSUME NEW d \in Conn, NEW v \in User,
                      entry[Owner[d]] = d, said'[d][v] # Nothing, right'[d][v]
               PROVE  said'[d][v] = Presence(v)' \/ ToCome(v)'
    BY <1>1 DEF NoSilentChange
  <2>1. CASE v = u
    BY <1>3, <2>1
  <2>2. CASE v # u
    <3>1. Presence(v)' = Presence(v) /\ (ToCome(v) => ToCome(v)')
      BY <1>1, <1>4, <2>2, PresenceKept DEF ToCome
    <3> QED
      BY <1>2, <2>2, <3>1 DEF NoSilentChange
  <2> QED
    BY <2>1, <2>2
<1> QED
  BY <1>3, <1>5, <1>6, <1>7

(* SayInMatch and SayOnline.                                               *)
SayStep(g, from, s, to) ==
  /\ \/ from = "say" /\ s = "in_match" /\ to = "play"
     \/ from = "bye" /\ s = "online" /\ to = "over"
  /\ at[g] = from
  /\ Say(Player(g), s) /\ Then(g, to)
  /\ UNCHANGED clients

LEMMA SayStepKeeps ==
  ASSUME IInv, NEW g \in Game, NEW from, NEW s, NEW to, SayStep(g, from, s, to)
  PROVE  IInv'
<1> USE DEF IInv
<1>0. PICK u \in User, k \in 1..2 : u = Player(g) /\ k = turn[g] /\ u = PlayersOf[g][k]
  BY PlayerIsUser DEF Player
<1>1. /\ at[g] = from /\ to \in {"play", "over"} /\ s \in Status
      /\ \/ from = "say" /\ s = "in_match" /\ to = "play"
         \/ from = "bye" /\ s = "online" /\ to = "over"
  BY DEF SayStep, Status
<1>2. /\ at' \in [Game -> {"none", "mark", "say", "play", "clear", "bye", "over"}]
      /\ turn' \in [Game -> 1..2]
      /\ \A h \in Game \ {g} : at'[h] = at[h] /\ turn'[h] = turn[h]
      /\ \/ k = 1 /\ at'[g] = from /\ turn'[g] = 2
         \/ k = 2 /\ at'[g] = to /\ turn'[g] = 1
  BY <1>0, <1>1, ThenGoesOn DEF SayStep
<1>3. UNCHANGED <<stage, entry, inMatch, casts>> /\ Broadcast(u, s) /\ UNCHANGED clients
  BY <1>0 DEF SayStep, Say, clients
<1>4. /\ queued' \in [Conn -> 0..SendCap]
      /\ said' \in [Conn -> [User -> Status \cup {Nothing}]]
      /\ right' \in [Conn -> [User -> BOOLEAN]]
      /\ \A c \in Conn, v \in User : v # u =>
           said'[c][v] = said[c][v] /\ right'[c][v] = right[c][v]
  BY <1>1, <1>3, BroadcastTells
<1>5. /\ HearsOfFriends' /\ EntriesFit'
      /\ \A d \in Conn : entry[Owner[d]] = d /\ said'[d][u] # Nothing =>
           said'[d][u] = s /\ (right'[d][u] => s = Presence(u)')
  BY <1>1, <1>3, BroadcastKeeps
<1>6. TypeOK' /\ GamesSayInMatch' /\ TurnsFit'
  BY <1>1, <1>2, <1>3, <1>4 DEF TypeOK, GamesSayInMatch, TurnsFit
<1>7. MarksFit'
  <2>1. \A h \in Game, i \in 1..2 : Marked(h, i) => Marked(h, i)'
    BY <1>1, <1>2 DEF Marked
  <2> QED
    BY <1>3, <2>1 DEF MarksFit
<1>8. \A h \in Game, i \in 1..2 : PlayersOf[h][i] # u /\ Busy(h, i) => Busy(h, i)'
  BY <1>0, <1>1, <1>2 DEF Busy
<1>9. BeliefsFit'
  <2> SUFFICES ASSUME NEW d \in Conn, NEW v \in User,
                      entry[Owner[d]] = d, said'[d][v] = "in_match"
               PROVE  \E h \in Game, i \in 1..2 : PlayersOf[h][i] = v /\ Busy(h, i)'
    BY <1>3 DEF BeliefsFit
  <2>1. CASE v = u
    <3>1. s = "in_match"
      BY <1>5, <2>1 DEF Nothing
    <3>2. Busy(g, k)'
      BY <1>1, <1>2, <3>1 DEF Busy
    <3> QED
      BY <1>0, <2>1, <3>2
  <2>2. CASE v # u
    <3>1. said[d][v] = "in_match"
      BY <1>4, <2>2
    <3>2. PICK h \in Game, i \in 1..2 : PlayersOf[h][i] = v /\ Busy(h, i)
      BY <3>1 DEF BeliefsFit
    <3> QED
      BY <1>8, <2>2, <3>2
  <2> QED
    BY <2>1, <2>2
<1>10. \A v \in User \ {u} : ToCome(v) => ToCome(v)'
  <2> SUFFICES ASSUME NEW v \in User \ {u}, ToCome(v), ~ \E t \in Status : casts[v][t] > 0
               PROVE  ToCome(v)'
    BY <1>3 DEF ToCome
  <2>1. PICK h \in Game, i \in 1..2 :
          /\ PlayersOf[h][i] = v
          /\ at[h] \in {"mark", "clear"} \/ (at[h] \in {"say", "bye"} /\ i >= turn[h])
    BY DEF ToCome
  <2>2. at'[h] \in {"mark", "clear"} \/ (at'[h] \in {"say", "bye"} /\ i >= turn'[h])
    BY <1>0, <1>1, <1>2, <2>1
  <2> QED
    BY <2>1, <2>2 DEF ToCome
<1>11. NoSilentChange'
  <2> SUFFICES ASSUME NEW d \in Conn, NEW v \in User,
                      entry[Owner[d]] = d, said'[d][v] # Nothing, right'[d][v]
               PROVE  said'[d][v] = Presence(v)' \/ ToCome(v)'
    BY <1>3 DEF NoSilentChange
  <2>1. CASE v = u
    BY <1>5, <2>1
  <2>2. CASE v # u
    <3>1. Presence(v)' = Presence(v) /\ (ToCome(v) => ToCome(v)')
      BY <1>3, <1>10, <2>2, PresenceKept
    <3> QED
      BY <1>4, <2>2, <3>1 DEF NoSilentChange
  <2> QED
    BY <2>1, <2>2
<1> QED
  BY <1>5, <1>6, <1>7, <1>9, <1>11

-----------------------------------------------------------------------------
(* Connections.                                                            *)

LEMMA ListKeeps ==
  ASSUME IInv, NEW c \in Conn, NEW u \in User, List(c, u)
  PROVE  IInv'
<1> USE DEF IInv
<1>1. UNCHANGED <<stage, entry, inMatch, casts, at, turn, queued>>
  BY DEF List, clients, session
<1>2. /\ said' \in [Conn -> [User -> Status \cup {Nothing}]]
      /\ right' \in [Conn -> [User -> BOOLEAN]]
      /\ said'[c][u] = Presence(u)
      /\ \A d \in Conn, v \in User : d # c \/ v # u =>
           said'[d][v] = said[d][v] /\ right'[d][v] = right[d][v]
  <2>1. said[c] \in [User -> Status \cup {Nothing}] /\ right[c] \in [User -> BOOLEAN]
    BY DEF TypeOK
  <2>2. said' = [said EXCEPT ![c] = [said[c] EXCEPT ![u] = Presence(u)]]
    BY DEF List
  <2>3. right' = [right EXCEPT ![c] = [right[c] EXCEPT ![u] = TRUE]]
    BY DEF List
  <2>4. /\ said' \in [Conn -> [User -> Status \cup {Nothing}]]
        /\ said'[c][u] = Presence(u)
        /\ \A d \in Conn, v \in User : d # c \/ v # u => said'[d][v] = said[d][v]
    BY <2>1, <2>2, PresenceType DEF TypeOK
  <2>5. /\ right' \in [Conn -> [User -> BOOLEAN]]
        /\ \A d \in Conn, v \in User : d # c \/ v # u => right'[d][v] = right[d][v]
    BY <2>1, <2>3 DEF TypeOK
  <2> QED
    BY <2>4, <2>5
<1>3. TypeOK' /\ EntriesFit' /\ GamesSayInMatch' /\ TurnsFit'
  BY <1>1, <1>2 DEF TypeOK, EntriesFit, GamesSayInMatch, TurnsFit
<1>4. MarksFit'
  BY <1>1 DEF MarksFit, Marked
<1>5. HearsOfFriends'
  <2>1. stage[c] # "new" /\ Owner[c] \in Friends[u]
    BY PresenceAssumption DEF List
  <2> QED
    BY <1>1, <1>2, <2>1 DEF HearsOfFriends
<1>6. BeliefsFit'
  <2> SUFFICES ASSUME NEW d \in Conn, NEW v \in User,
                      entry[Owner[d]] = d, said'[d][v] = "in_match"
               PROVE  \E g \in Game, i \in 1..2 : PlayersOf[g][i] = v /\ Busy(g, i)
    BY <1>1 DEF BeliefsFit, Busy
  <2>1. CASE d = c /\ v = u
    <3>1. inMatch[u]
      BY <1>2, <2>1 DEF Presence
    <3>2. PICK g \in Game, i \in 1..2 : PlayersOf[g][i] = u /\ Marked(g, i)
      BY <3>1 DEF MarksFit
    <3> QED
      BY <2>1, <3>2 DEF Marked, Busy
  <2>2. CASE d # c \/ v # u
    BY <1>2, <2>2 DEF BeliefsFit
  <2> QED
    BY <2>1, <2>2
<1>7. \A v \in User : Presence(v)' = Presence(v) /\ (ToCome(v) => ToCome(v)')
  BY <1>1, PresenceKept DEF ToCome
<1>8. NoSilentChange'
  <2> SUFFICES ASSUME NEW d \in Conn, NEW v \in User,
                      entry[Owner[d]] = d, said'[d][v] # Nothing, right'[d][v]
               PROVE  said'[d][v] = Presence(v)' \/ ToCome(v)'
    BY <1>1 DEF NoSilentChange
  <2>1. CASE d = c /\ v = u
    BY <1>2, <1>7, <2>1
  <2>2. CASE d # c \/ v # u
    BY <1>2, <1>7, <2>2 DEF NoSilentChange
  <2> QED
    BY <2>1, <2>2
<1> QED
  BY <1>3, <1>4, <1>5, <1>6, <1>8

(* Messages that are taken, and steps that change nothing.                 *)
LEMMA QuietKeeps ==
  ASSUME IInv, queued' \in [Conn -> 0..SendCap],
         UNCHANGED <<stage, entry, inMatch, casts, at, turn, said, right>>
  PROVE  IInv'
<1>1. TypeOK' /\ EntriesFit' /\ HearsOfFriends' /\ GamesSayInMatch' /\ TurnsFit'
  BY DEF IInv, TypeOK, EntriesFit, HearsOfFriends, GamesSayInMatch, TurnsFit
<1>2. MarksFit' /\ BeliefsFit'
  BY DEF IInv, MarksFit, BeliefsFit, Marked, Busy
<1>3. NoSilentChange'
  BY DEF IInv, NoSilentChange, Presence, ToCome
<1> QED
  BY <1>1, <1>2, <1>3 DEF IInv

LEMMA NextPreserves == IInv /\ [Next]_vars => IInv'
<1> SUFFICES ASSUME IInv, [Next]_vars PROVE IInv'
  OBVIOUS
<1>1. ASSUME NEW c \in Conn, Register(c) PROVE IInv'
  <2>1. Entered(c, "online")
    BY <1>1 DEF Register, Entered, Announce, Announced
  <2> QED
    BY <2>1, EnteredKeeps
<1>2. ASSUME NEW c \in Conn, Unregister(c) PROVE IInv'
  <2>1. Entered(c, "offline")
    BY <1>2 DEF Unregister, Entered, Announce, Announced
  <2> QED
    BY <2>1, EnteredKeeps
<1>3. ASSUME NEW c \in Conn, Drain(c) PROVE IInv'
  <2>1. queued' \in [Conn -> 0..SendCap]
    BY <1>3, PresenceAssumption DEF Drain, IInv, TypeOK
  <2> QED
    BY <1>3, <2>1, QuietKeeps DEF Drain, clients, session
<1>4. ASSUME NEW c \in Conn, NEW u \in User, List(c, u) PROVE IInv'
  BY <1>4, ListKeeps
<1>5. ASSUME NEW u \in User, NEW s \in Status, Deliver(u, s) PROVE IInv'
  BY <1>5, DeliverKeeps
<1>6. ASSUME NEW g \in Game, StartGame(g) PROVE IInv'
  <2>1. Entering(g, "none", "mark")
    BY <1>6 DEF StartGame, Entering
  <2> QED
    BY <2>1, EnteringKeeps
<1>7. ASSUME NEW g \in Game, GameEnds(g) PROVE IInv'
  <2>1. Entering(g, "play", "clear")
    BY <1>7 DEF GameEnds, Entering
  <2> QED
    BY <2>1, EnteringKeeps
<1>8. ASSUME NEW g \in Game, MarkPlayer(g) PROVE IInv'
  <2>1. MarkStep(g, "mark", TRUE, "say")
    BY <1>8 DEF MarkPlayer, MarkStep
  <2> QED
    BY <2>1, MarkStepKeeps
<1>9. ASSUME NEW g \in Game, ClearPlayer(g) PROVE IInv'
  <2>1. MarkStep(g, "clear", FALSE, "bye")
    BY <1>9 DEF ClearPlayer, MarkStep
  <2> QED
    BY <2>1, MarkStepKeeps
<1>10. ASSUME NEW g \in Game, SayInMatch(g) PROVE IInv'
  <2>1. SayStep(g, "say", "in_match", "play")
    BY <1>10 DEF SayInMatch, SayStep
  <2> QED
    BY <2>1, SayStepKeeps
<1>11. ASSUME NEW g \in Game, SayOnline(g) PROVE IInv'
  <2>1. SayStep(g, "bye", "online", "over")
    BY <1>11 DEF SayOnline, SayStep
  <2> QED
    BY <2>1, SayStepKeeps
<1>12. CASE UNCHANGED vars
  <2>1. queued' \in [Conn -> 0..SendCap]
    BY <1>12 DEF vars, told, IInv, TypeOK
  <2> QED
    BY <1>12, <2>1, QuietKeeps DEF vars, clients, session, told
<1> QED
  BY <1>1, <1>2, <1>3, <1>4, <1>5, <1>6, <1>7, <1>8, <1>9, <1>10, <1>11, <1>12 DEF Next

-----------------------------------------------------------------------------
(* The theorems.                                                           *)

(* The invariant holds of every behaviour of the hub and its sessions.     *)
THEOREM Invariance == Spec => []IInv
BY InitEstablishes, NextPreserves, PTL DEF Spec

(* Send never holds more than its capacity, and the rest have their types. *)
THEOREM TypeCorrect == Spec => []TypeOK
<1>1. IInv => TypeOK
  BY DEF IInv
<1> QED
  BY <1>1, Invariance, PTL

(* What Run and the sessions broadcast leaves out no change of a presence  *)
(* that a friend was told.                                                 *)
THEOREM ChangesAreAnnounced == Spec => []NoSilentChange
<1>1. IInv => NoSilentChange
  BY DEF IInv
<1> QED
  BY <1>1, Invariance, PTL

(* That a session broadcasts itself, and does not start goroutines to do   *)
(* it, is enough for nobody to be left in a match that is over.            *)
THEOREM MatchesPass == Spec => []InMatchPasses
<1>1. IInv => InMatchPasses
  <2> SUFFICES ASSUME BeliefsFit, NEW c \in Conn, NEW u \in User,
                      entry[Owner[c]] = c, Idle(u), said[c][u] = "in_match"
               PROVE  FALSE
    BY DEF IInv, InMatchPasses
  <2>1. PICK g \in Game, i \in 1..2 : PlayersOf[g][i] = u /\ Busy(g, i)
    BY DEF BeliefsFit
  <2>2. at[g] \in {"none", "over"}
    BY <2>1 DEF Idle
  <2> QED
    BY <2>1, <2>2 DEF Busy
<1> QED
  BY <1>1, Invariance, PTL

=============================================================================
