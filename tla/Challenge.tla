----------------------------- MODULE Challenge -----------------------------
(***************************************************************************)
(* From a challenge to a game, and from a game to the ratings: the hub's   *)
(* handleChallenge and handleChallengeResp, Starter.StartGame, and what    *)
(* the games so started write to the users' ratings when they end.         *)
(*                                                                         *)
(* Each handler runs in the readPump of the connection it serves and is    *)
(* not atomic: it takes *Client pointers from the hub, waits for the       *)
(* database, and uses them afterwards, while connections come and go and   *)
(* other handlers and games run.  Connections are those of module Hub,     *)
(* with registration and unregistration in one step each.                  *)
(***************************************************************************)
EXTENDS Integers, FiniteSets

CONSTANTS
  User,           \* user IDs
  Client,         \* connections
  Owner,          \* the user of each connection
  None,           \* nil
  Makers,         \* bound: clients from which challenges are made
  SendCap,        \* capacity of a client's Send channel
  MaxChallenges,  \* bound: challenges made in all
  Failing,        \* bound: clients whose writePump may stop on a write error
  DBFails,        \* bound: may a database call fail?
  StartRating,    \* the rating of every user to begin with
  Changes         \* rating changes of player 1 that a game may end with

Id == 1..MaxChallenges

ASSUME ChallengeAssumption ==
  /\ Owner \in [Client -> User]
  /\ None \notin Client \cup User
  /\ IsFiniteSet(Client)
  /\ SendCap \in Nat \ {0} /\ MaxChallenges \in Nat
  /\ Makers \subseteq Client /\ Failing \subseteq Client /\ DBFails \in BOOLEAN
  /\ StartRating \in Int /\ Changes \subseteq Int

VARIABLES
  stage,     \* each client: new, reading, or gone
  writing,   \* is the client's writePump running?
  entry,     \* h.clients
  queued,    \* number of messages in each client's Send, open while not gone
  closed,    \* has the hub closed the client's channels?
  task,      \* what the client's readPump is in the middle of
  made,      \* match IDs given to challenges so far
  challenger,\* the challengerID of each challenge made
  pending,   \* the match IDs in h.pendingChallenges
  taker,     \* history: the user whose answer took each challenge out
  games,     \* running game sessions
  starts,    \* history: games started for each ID
  rating,    \* users.rating
  earned,    \* history: the sum of the changes of the user's games
  overlapped \* history: has a game been begun by a player of another?

conns == <<stage, writing, entry, closed>>
scores == <<rating, earned>>
challenges == <<made, challenger, pending, taker>>
vars == <<conns, queued, task, challenges, games, starts, scores, overlapped>>

-----------------------------------------------------------------------------
(* What a readPump is doing: idle, or a step of a handler with what that   *)
(* handler holds in its locals.                                            *)

Idle == [do |-> "idle"]
FindChallenger(opp) == [do |-> "find_challenger", opponent |-> opp]
SendTo(opp, id) == [do |-> "send", opponent |-> opp, id |-> id]
Decline(ch) == [do |-> "decline", challenger |-> ch]
FindPlayer1(ch, id) == [do |-> "find_player1", challenger |-> ch, id |-> id]
FindPlayer2(ch, id, r1) ==
  [do |-> "find_player2", challenger |-> ch, id |-> id, r1 |-> r1]
Start(ch, id, r1, r2) ==
  [do |-> "start", challenger |-> ch, id |-> id, r1 |-> r1, r2 |-> r2]
TellFirst(ch) == [do |-> "tell_first", challenger |-> ch]
TellSecond == [do |-> "tell_second"]

Game(ch, from, id, r1, r2) == [p1 |-> ch, p2 |-> from, id |-> id, r1 |-> r1, r2 |-> r2]

-----------------------------------------------------------------------------
(* Slips a maintainer could make, variants of the definitions below.       *)

TakeChallenge_Kept(id) == UNCHANGED pending
TakeChallenge_AllOfTheirs(id) ==
  pending' = {i \in pending : challenger[i] # challenger[id]}
NewRating_BothGain(g, d) ==
  [rating EXCEPT ![Owner[g.p2]] = g.r2 + d, ![Owner[g.p1]] = g.r1 + d]
Offer_NoDefault(c) == queued' = [queued EXCEPT ![c] = @ + 1]
Closing_TheEntrys(c) == closed' = [closed EXCEPT ![entry[Owner[c]]] = TRUE]
Drains_Newest(c) == writing[c] /\ queued[c] > 0 /\ entry[Owner[c]] = c

-----------------------------------------------------------------------------

(* The arm of a select with a default: a full channel drops the message.   *)
Offer(c) == queued' = [queued EXCEPT ![c] = IF @ < SendCap THEN @ + 1 ELSE @]

(* A bare send needs room.                                                 *)
HasRoom(c) == queued[c] < SendCap

Does(c, what) == stage[c] = "reading" /\ task[c].do = what
Continue(c, t) == task' = [task EXCEPT ![c] = t]

(* sendError to the client being served, and the handler returns.          *)
ReplyError(c) == Offer(c) /\ Continue(c, Idle)

(* The channels that are closed are those of the client that leaves,       *)
(* whoever's the entry is.                                                 *)
Closing(c) == closed' = [closed EXCEPT ![c] = TRUE]

(* A send on a channel the hub has closed panics.  net/http recovers in    *)
(* the goroutine that serves the connection, after readPump's deferred     *)
(* function has unregistered the client.                                   *)
Leaves(c) ==
  /\ stage' = [stage EXCEPT ![c] = "gone"]
  /\ writing' = [writing EXCEPT ![c] = FALSE]
  /\ IF entry[Owner[c]] # None
       THEN entry' = [entry EXCEPT ![Owner[c]] = None] /\ Closing(c)
       ELSE UNCHANGED <<entry, closed>>

HandlerPanics(c) ==
  /\ Leaves(c) /\ Continue(c, Idle)
  /\ UNCHANGED <<queued, challenges, games, starts, scores, overlapped>>

-----------------------------------------------------------------------------
(* handleChallenge.                                                        *)

(* Messages are read while the connection is up: writePump closes it when  *)
(* it stops.                                                               *)
Listens(c) == Does(c, "idle") /\ writing[c]

InMaking == {c \in Client : task[c].do = "find_challenger"}

(* A challenge to a user with an entry is followed up; there is no look at *)
(* whether either of the two is in a match, or at whether they are two.    *)
ReceiveChallenge(c, u) ==
  /\ c \in Makers /\ Listens(c)
  /\ made + Cardinality(InMaking) < MaxChallenges
  /\ IF entry[u] = None THEN ReplyError(c)
                        ELSE Continue(c, FindChallenger(entry[u])) /\ UNCHANGED queued
  /\ UNCHANGED <<conns, challenges, games, starts, scores, overlapped>>

(* With the challenger's profile read the challenge is made pending, under *)
(* a fresh ID.                                                             *)
MakeChallenge(c) ==
  /\ Does(c, "find_challenger")
  /\ \/ /\ made' = made + 1
        /\ challenger' = [challenger EXCEPT ![made + 1] = Owner[c]]
        /\ pending' = pending \cup {made + 1}
        /\ Continue(c, SendTo(task[c].opponent, made + 1))
        /\ UNCHANGED <<taker, queued>>
     \/ DBFails /\ ReplyError(c) /\ UNCHANGED challenges
  /\ UNCHANGED <<conns, games, starts, scores, overlapped>>

(* The opponent's client, as it was found, is sent the challenge; if its   *)
(* channel is full the challenger is told so.                              *)
SendChallenge(c) ==
  /\ Does(c, "send")
  /\ LET opp == task[c].opponent IN
     /\ ~closed[opp]
     /\ IF HasRoom(opp) THEN Offer(opp) /\ Continue(c, Idle) ELSE ReplyError(c)
  /\ UNCHANGED <<conns, challenges, games, starts, scores, overlapped>>

SendChallengePanics(c) ==
  Does(c, "send") /\ closed[task[c].opponent] /\ HandlerPanics(c)

-----------------------------------------------------------------------------
(* handleChallengeResp.                                                    *)

(* The challenge is taken out under its lock, whatever the answer is and   *)
(* whoever gives it: it says who made it, not whom it was sent to.         *)
TakeChallenge(id) == pending' = pending \ {id}

ReceiveResponse(c, id, accepted) ==
  /\ Listens(c)
  /\ IF id \notin pending
       THEN ReplyError(c) /\ UNCHANGED <<pending, taker>>
       ELSE LET ch == entry[challenger[id]] IN
            /\ TakeChallenge(id)
            /\ taker' = [taker EXCEPT ![id] = Owner[c]]
            /\ \/ accepted /\ ch = None /\ ReplyError(c)
               \/ ~accepted /\ ch = None /\ UNCHANGED <<task, queued>>
               \/ accepted /\ ch # None /\ Continue(c, FindPlayer1(ch, id)) /\ UNCHANGED queued
               \/ ~accepted /\ ch # None /\ Continue(c, Decline(ch)) /\ UNCHANGED queued
  /\ UNCHANGED <<conns, made, challenger, games, starts, scores, overlapped>>

SendDecline(c) ==
  /\ Does(c, "decline") /\ ~closed[task[c].challenger]
  /\ Offer(task[c].challenger) /\ Continue(c, Idle)
  /\ UNCHANGED <<conns, challenges, games, starts, scores, overlapped>>

SendDeclinePanics(c) ==
  Does(c, "decline") /\ closed[task[c].challenger] /\ HandlerPanics(c)

(* Has a rating of the user been read for a game that is not over?         *)
Engaged(u) ==
  \/ \E g \in games : u \in {Owner[g.p1], Owner[g.p2]}
  \/ \E c \in Client :
       \/ task[c].do \in {"find_player2", "start"} /\ u = Owner[task[c].challenger]
       \/ task[c].do = "start" /\ u = Owner[c]

(* The two profiles, read one after the other, give the game its ratings;  *)
(* whether either could be read is asked when both have been.              *)
ReadPlayer1(c) ==
  /\ Does(c, "find_player1")
  /\ LET ch == task[c].challenger IN
     /\ Continue(c, FindPlayer2(ch, task[c].id, rating[Owner[ch]]))
     /\ overlapped' = (overlapped \/ Engaged(Owner[ch]))
  /\ UNCHANGED <<conns, queued, challenges, games, starts, scores>>

ReadPlayer2(c) ==
  /\ Does(c, "find_player2")
  /\ \/ LET t == task[c] IN
        /\ Continue(c, Start(t.challenger, t.id, t.r1, rating[Owner[c]]))
        /\ overlapped' = (overlapped \/ Engaged(Owner[c]))
        /\ UNCHANGED queued
     \/ DBFails /\ ReplyError(c) /\ UNCHANGED overlapped
  /\ UNCHANGED <<conns, challenges, games, starts, scores>>

(* The challenger is player 1.                                             *)
Players(c, t) == Game(t.challenger, c, t.id, t.r1, t.r2)

(* StartGame: the category, the questions and the match row, or an error   *)
(* for both players; the session then runs by itself.                      *)
StartGame(c) ==
  /\ Does(c, "start")
  /\ \/ /\ games' = games \cup {Players(c, task[c])}
        /\ starts' = [starts EXCEPT ![task[c].id] = @ + 1]
        /\ Continue(c, Idle)
     \/ DBFails /\ Continue(c, TellFirst(task[c].challenger)) /\ UNCHANGED <<games, starts>>
  /\ UNCHANGED <<conns, queued, challenges, scores, overlapped>>

(* The errors are bare sends, which wait for room: first to player 1.      *)
TellPlayer1(c) ==
  /\ Does(c, "tell_first")
  /\ LET ch == task[c].challenger IN
     /\ ~closed[ch] /\ HasRoom(ch)
     /\ Offer(ch)
  /\ Continue(c, TellSecond)
  /\ UNCHANGED <<conns, challenges, games, starts, scores, overlapped>>

TellPlayer1Panics(c) ==
  Does(c, "tell_first") /\ closed[task[c].challenger] /\ HandlerPanics(c)

(* Then to player 2, whose own readPump this is.                           *)
TellPlayer2(c) ==
  /\ Does(c, "tell_second") /\ HasRoom(c)
  /\ ReplyError(c)
  /\ UNCHANGED <<conns, challenges, games, starts, scores, overlapped>>

-----------------------------------------------------------------------------
(* The games.  A session ends with a result or without one; the result     *)
(* overwrites both ratings with the ones read at the start, changed; of a  *)
(* game with oneself, the CASE of the update writes player 1's.            *)

NewRating(g, d) ==
  [rating EXCEPT ![Owner[g.p2]] = g.r2 - d, ![Owner[g.p1]] = g.r1 + d]

FinishGame(g, d) ==
  /\ games' = games \ {g}
  /\ rating' = NewRating(g, d)
  /\ earned' = [earned EXCEPT ![Owner[g.p1]] = @ + d, ![Owner[g.p2]] = @ - d]
  /\ UNCHANGED <<conns, queued, task, challenges, starts, overlapped>>

GiveUpGame(g) ==
  /\ games' = games \ {g}
  /\ UNCHANGED <<conns, queued, task, challenges, starts, scores, overlapped>>

-----------------------------------------------------------------------------
(* The connections.                                                        *)

Connect(c) ==
  /\ stage[c] = "new"
  /\ stage' = [stage EXCEPT ![c] = "reading"]
  /\ writing' = [writing EXCEPT ![c] = TRUE]
  /\ entry' = [entry EXCEPT ![Owner[c]] = c]
  /\ UNCHANGED <<closed, queued, task, challenges, games, starts, scores, overlapped>>

(* readPump notices that its connection is gone only when it reads.        *)
Disconnect(c) ==
  /\ Does(c, "idle")
  /\ Leaves(c)
  /\ UNCHANGED <<queued, task, challenges, games, starts, scores, overlapped>>

(* writePump takes a message; if a sender waits for room, its message goes *)
(* in at once, before anybody else's.                                      *)
Waiting(c) ==
  {d \in Client : \/ task[d].do = "tell_first" /\ task[d].challenger = c
                  \/ task[d].do = "tell_second" /\ d = c}

Drains(c) == writing[c] /\ queued[c] > 0

WriteOne(c) ==
  /\ Drains(c)
  /\ IF HasRoom(c) \/ Waiting(c) = {}
       THEN queued' = [queued EXCEPT ![c] = @ - 1] /\ UNCHANGED task
       ELSE /\ \E d \in Waiting(c) :
                 Continue(d, IF task[d].do = "tell_first" THEN TellSecond ELSE Idle)
            /\ UNCHANGED queued
  /\ UNCHANGED <<conns, challenges, games, starts, scores, overlapped>>

WriterFails(c) ==
  /\ c \in Failing /\ writing[c]
  /\ writing' = [writing EXCEPT ![c] = FALSE]
  /\ UNCHANGED <<stage, entry, closed, queued, task, challenges, games, starts, scores,
                 overlapped>>

-----------------------------------------------------------------------------

Init ==
  /\ stage = [c \in Client |-> "new"]
  /\ writing = [c \in Client |-> FALSE] /\ closed = [c \in Client |-> FALSE]
  /\ entry = [u \in User |-> None]
  /\ queued = [c \in Client |-> 0]
  /\ task = [c \in Client |-> Idle]
  /\ made = 0
  /\ challenger = [id \in Id |-> None] /\ taker = [id \in Id |-> None]
  /\ pending = {}
  /\ games = {}
  /\ starts = [id \in Id |-> 0]
  /\ rating = [u \in User |-> StartRating]
  /\ earned = [u \in User |-> 0]
  /\ overlapped = FALSE

(* The rest of a handler once it has begun.                                *)
Handle(c) ==
  \/ MakeChallenge(c) \/ SendChallenge(c) \/ SendChallengePanics(c)
  \/ SendDecline(c) \/ SendDeclinePanics(c)
  \/ ReadPlayer1(c) \/ ReadPlayer2(c) \/ StartGame(c)
  \/ TellPlayer1(c) \/ TellPlayer1Panics(c) \/ TellPlayer2(c)

Next ==
  \/ \E c \in Client :
       \/ Connect(c) \/ Disconnect(c) \/ WriteOne(c) \/ WriterFails(c)
       \/ Handle(c)
       \/ \E u \in User : ReceiveChallenge(c, u)
       \/ \E id \in Id, accepted \in BOOLEAN : ReceiveResponse(c, id, accepted)
  \/ \E g \in games : GiveUpGame(g) \/ \E d \in Changes : FinishGame(g, d)

Spec == Init /\ [][Next]_vars

(* A handler's goroutine and a writePump that is running are scheduled.    *)
Fairness == \A c \in Client : WF_vars(Handle(c)) /\ WF_vars(WriteOne(c))

FairSpec == Spec /\ Fairness

-----------------------------------------------------------------------------
(* Properties.                                                             *)

Task ==
  {Idle, TellSecond}
  \cup {FindChallenger(c) : c \in Client} \cup {SendTo(c, id) : c \in Client, id \in Id}
  \cup {Decline(c) : c \in Client} \cup {FindPlayer1(c, id) : c \in Client, id \in Id}
  \cup {TellFirst(c) : c \in Client}
  \cup [do : {"find_player2"}, challenger : Client, id : Id, r1 : Int]
  \cup [do : {"start"}, challenger : Client, id : Id, r1 : Int, r2 : Int]

TypeOK ==
  /\ stage \in [Client -> {"new", "reading", "gone"}]
  /\ writing \in [Client -> BOOLEAN] /\ closed \in [Client -> BOOLEAN]
  /\ entry \in [User -> Client \cup {None}]
  /\ queued \in [Client -> 0..SendCap]
  /\ task \in [Client -> Task]
  /\ made \in 0..MaxChallenges
  /\ challenger \in [Id -> User \cup {None}] /\ taker \in [Id -> User \cup {None}]
  /\ pending \subseteq 1..made
  /\ games \subseteq [p1 : Client, p2 : Client, id : Id, r1 : Int, r2 : Int]
  /\ starts \in [Id -> Nat]
  /\ rating \in [User -> Int] /\ earned \in [User -> Int]
  /\ overlapped \in BOOLEAN

(* However often, from however many connections and whatever the database  *)
(* waits in between, a challenge is answered: it begins at most one game.  *)
StartsOnce == \A id \in Id : starts[id] <= 1

(* A handler that ends its own connection, by a panic, does so because the *)
(* client it sends to is another one that has left since it was looked up; *)
(* never because a newer connection of that user's came or went.           *)
SendsTo(c) ==
  IF task[c].do = "send" THEN task[c].opponent
  ELSE IF task[c].do \in {"decline", "tell_first"} THEN task[c].challenger ELSE c
CutOffByTheGone ==
  [][\A c \in Client :
       task[c].do # "idle" /\ stage[c] = "reading" /\ stage'[c] = "gone"
         => stage[SendsTo(c)] = "gone"]_vars

(* As long as no player began a game in the middle of another, ratings are *)
(* what the player's games have earned: the rating read at the start is    *)
(* still the current one when the result overwrites it.  (A player of a    *)
(* game with oneself does: the rating is read for both sides.)             *)
RatingsAddUp ==
  ~overlapped => \A u \in User : rating[u] = StartRating + earned[u]

(* Connections come and go as the hub has them come and go.                *)
Phase(c) == IF stage[c] = "new" THEN "new"
            ELSE IF stage[c] = "reading" THEN "joined" ELSE "left"
Connections == INSTANCE Registry WITH
  Conn <- Client, NoConn <- None, phase <- [c \in Client |-> Phase(c)]
ImplementsRegistry == Connections!Spec

(* Every way a challenge can go - however its handlers are interleaved,    *)
(* fail or panic, and whichever connections are gone or have been replaced *)
(* by then - is one of the ways module Duels allows: answered once, and    *)
(* then a game of the user who made it with the one who answered.          *)
Fate(id) == IF id > made THEN "none"
            ELSE IF id \in pending THEN "open"
            ELSE IF starts[id] = 0 THEN "answered" ELSE "begun"
DuelOf(g) == [id |-> g.id, one |-> Owner[g.p1], two |-> Owner[g.p2]]
Promised == INSTANCE Duels WITH
  Nobody <- None, from <- challenger, by <- taker, fate <- [id \in Id |-> Fate(id)],
  playing <- {DuelOf(g) : g \in games}
ImplementsDuels == Promised!Spec

(* A handler comes to its end, and its readPump back to reading, unless a  *)
(* Send is left full for ever: by a writePump that failed, or by one that  *)
(* ended with a connection whose channels the hub never closed.            *)
LeftFull(c) == stage[c] # "new" /\ ~writing[c] /\ ~closed[c] /\ ~HasRoom(c)

HandlersFinish ==
  \A c \in Client :
    task[c].do # "idle" ~> task[c].do = "idle" \/ \E d \in Client : LeftFull(d)

=============================================================================
