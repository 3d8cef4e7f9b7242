# A TLA+ model of rapid-server

`rapid-server` is a Go backend for two-player trivia over WebSockets. The modules here model the
part of it in which goroutines, connections and the database interleave; TLC checks them on small
instances, and TLAPS proves what matters most of them for all instances.

## The system

| component | state | operations | interacts through |
|---|---|---|---|
| **hub** (`internal/ws/hub.go`) | `clients`: one entry per *user*, with an `inMatch` mark; `pendingChallenges` | register, unregister, presence, broadcast, `handleChallenge`, `handleChallengeResp` | channels `register`/`unregister`; closes a client's `Send` and `GameCh`; `*Client` pointers it hands out |
| **client** (`internal/ws/client.go`) | one per *connection*: `Send` (256), `GameCh` (16), `rtt`, `pendingPings` | `readPump`, `writePump`, `pingLoop`, `handlePong` | its two channels, filled by the session, the hub and itself |
| **game session** (`internal/game/session.go`) | round, totals, the round's answers and timer | start, ask, await answers, score, persist, complete, leave | reads two `GameCh`, writes two `Send`, marks the hub's entries, writes `match_rounds`, `matches`, `users.rating` |
| **starter** (`internal/game/starter.go`) | none | `StartGame` | runs in the accepting player's `readPump`; starts a session |
| **scoring** (`internal/game/scorer.go`) | none | fair time, points, Elo | called by the session |
| **answer options** (`internal/game/shuffle.go`) | none | shuffle and two mappings | called by the session |
| **accounts** (`internal/user`, `internal/friend`) | tables `users`, `friendships` | register, request, respond; reads | the database; `ListAcceptedFriends` for broadcasts |
| **game store** (`internal/game/store.go`, `handler.go`) | tables `matches`, `match_rounds`; `users.rating` | create, insert a round, complete in a transaction; `GetMatchWithRounds`, `ListUserMatches` | a pool of 25 connections; called by the starter, the session and two HTTP handlers |
| **`main`** (`cmd/server/main.go`) | none | set-up; on a signal `Shutdown`, then the deferred closings | the context of `Hub.Run`; the pool |
| **auth, platform, migrate** | | | |

What is hard in it:

* A user is one key of the hub's map but may have several connections. Channels belong to a
  connection; entries, marks and games outlive it.
* The hub closes channels on which the session, `pingLoop`, handlers and broadcasts send, and a
  send to a closed channel panics. Only the broadcast holds the hub's lock while it sends.
* A session waits for two answers, a timer and two closings at once, and sends to channels that
  drop what does not fit.
* Handlers read (a pointer, a rating, the absence of a row), wait for the database, and act on
  what they read.
* Database writes fail, and the game goes on; the process dies or is told to stop, at any moment.
* What friends are told of a user comes from goroutines that overtake one another.

`PROJECT.json` lists each of these at its line, with the properties that would notice.

## The modules

| module | what it is |
|---|---|
| `Scoring` | the pure functions of `scorer.go` |
| `Match` | what a game promises, without connections or time: a scoreboard that rounds are added to and that is then completed, or is left as it is |
| `GameSession` | one game: `GameSession.Run` between its two players' connections; implements `Match` |
| `Options` | one round's options, in an order of his own for each player: `shuffle.go` and its use in `playRound` |
| `Registry` | what anybody may rely on of connections: whose entry it is, who leaves, whose channels are closed |
| `Hub` | connections and presence: `Hub.Run`, the three pumps of each connection, broadcasts; implements `Registry` |
| `Duels` | what challenges promise: one answer, by anybody; one game, between the user who made the challenge and the one who answered; earnings by games only. Not that it was the challenged who answered, nor that the two are different |
| `Challenge` | from a challenge to a game to the ratings: `handleChallenge`, `handleChallengeResp`, `StartGame`, and the ratings that games overwrite; implements `Duels`, and has connections of `Registry` |
| `Accounts` | the HTTP handlers that write: `Register`, `Request`, `Respond` |
| `Presence` | what a user's app is told of friends: the hub's broadcasts, the sessions', and `GET /friends` |
| `Client` | one websocket from the request to the end of its goroutines: the pumps, the round trips, and the shutdown of the server around them |
| `Results` | what the database promises of finished games, whatever fails: a result once, and both ratings with it |
| `MatchStore` | the statements that write a match and those that read it, with the pool, failures, crashes and shutdowns; implements `Results` |
| `MC...` | small instances for TLC |
| `...Proofs` | theorems and their proofs |

Each module of goroutines sees the others as its environment: `GameSession` has a
client that may be closed at any moment it is connected (`Unregister`) and a user who may open and
close another connection (`NewerJoins`, `NewerLeaves`); `Hub` has sessions that mark their players
(`PlayStarts`, `PlayEnds`); `Challenge` has connections whose registration is one step, and games
that end with a result or without. `Presence` looks at the broadcasts that `Hub` only counts, and
at sessions between two of their steps where `Hub` has one; `Client` looks at one connection of
`Hub`, with its messages; `MatchStore` has of a session its statements, and a result for a set of
points and ratings. `Options` refines what `GameSession` takes for granted, that an
answer is right or not. `Accounts` meets the others only in the friends a broadcast goes to, a
constant of `Hub`.

### GameSession

`pc` is the place in `Run`, `playRound` or `awaitAnswers`; an action is the code from one wait or
send to the next.

| code | action |
|---|---|
| `Run`, first part, `sendGameStart` | `StartSession` |
| `playRound`, the question; `questionSendTime`, `awaitAnswers` begins | `SendQuestion`; `StartTimer` |
| the arms of `awaitAnswers`: an envelope; a closed channel; the timer | `ReceiveAnswer`; `SeeClosed`; `TimerFires`, `BothAnswered` |
| scoring and `round_result` | `ScoreRound` |
| `InsertMatchRound`, the end of `playRound`, the loop of `Run` | `PersistRound` |
| `completeGame` | `CompleteGame` |
| `Run`'s deferred function | `LeaveSession` |
| `send`, one message of several | `SendNext`, or `SendPanics` on a closed channel |

Around it: `QueueAnswer` (`readPump`), `WriteOne` (`writePump`), `OtherTraffic` (pings and
presence), `Unregister`, `NewerJoins`, `NewerLeaves` (`Hub.Run`), `Tick`. A message in `send` is its
kind, its round and its two totals; an answer is the round it names, whether its choice is right,
and which game's question it is an answer to, which the code cannot see. `match_rounds` is the
points of each round. The arm for a cancelled context is left out: `StartGame` is given
`context.Background()`, which never is.

### Options

`shuffle` is `p1Map` and `p2Map`, `choice` what was taken from each player, `told` the positions in
the two `round_result`s. A Go map gives 0 for a key that it does not have, so that a choice that is
none of the options is taken for the first one in canonical order, and is right if that one is,
while the player is shown his choice as he sent it; `VerdictFits` says of which answers the result
fits together. `match_rounds` keeps the choice in the player's own order, which is not kept
anywhere: `GetMatchWithRounds` returns it beside the options in canonical order and their
`correct_index`, with which it cannot be compared.

### Hub

`stage` is where `HandleWebSocket` is for a connection: before registering, reading, about to
unregister, unregistered, returned. `entry` is `h.clients`, `open` whether the connection's channels
are not closed, `queued` how many messages `Send` holds. `Unregister` is the `unregister` arm of
`Hub.Run`, `ReaderStops` and `HandlerReturns` the two halves of `readPump`'s end, `DeliverCast` a
whole `BroadcastPresence`, which holds the read lock from first to last send. A panic in `pingLoop`
or a broadcast ends the process, and with it the behaviour. Challenges are in the next module; what
a reader does otherwise, as far as the hub is concerned, is to reply to its own client
(`ReadAndReply`).

### Challenge

`task` is what a connection's `readPump` is in the middle of, with the handler's locals: the
pointers and ratings that it holds across a database call are in it. A connection comes and goes in
one step each (`Connect`, `Disconnect`), closing channels as `Hub.Run` does. `rating` is the column
of `users`; a game carries the ratings it was started with, and `FinishGame` is `CompleteMatchTx`
(of a game with oneself, the rating of player 1).
`WriteOne` hands the room it makes to a sender that waits for it, as Go's channels do. A handler
that panics is ended by `net/http`, after `readPump`'s deferred function. `pendingChallenges` has
no addressee: any client may answer any pending ID (`ReceiveResponse`), and `handleChallenge` asks
only that the opponent has an entry, so that a user may challenge himself (`ReceiveChallenge`).
History variables: `starts`, `earned`, `overlapped`, and `taker`, who answered.

Two abstractions are shown to fit. For `Duels` a challenge's `Fate` is read off `made`, `pending` and
`starts`, its two ends off `challenger` and `taker`, and a duel is a game with its clients replaced by
their users. For `Registry` a connection is new, joined or left; `Hub` takes several steps from one
to the next (`Phase`), `Challenge` one, and that both implement it is why `Challenge` may.

### Accounts

`call` is what a handler is about to write after its reads. Reads before the last one are of rows
that are never removed, so that they are one step with it. `crossed` is history: the users about
whom two handlers were in flight at once.

### Presence

`entry` and `inMatch` are `h.clients`; `casts` the goroutines that `Hub.Run` has started to
broadcast; `at` and `turn` the place of each session in its two marks, two broadcasts, and the same
at its end, which `Run` makes itself, one after the other. `Broadcast` reaches the friends that have
an entry and room in `Send`, or nobody, if `ListAcceptedFriendIDs` fails. `said` is history: what a
connection was last told about a user, `Nothing` if a message about that user was dropped or never
sent since; `right`, whether it was so when it was told. What such a friend goes on showing is
therefore not a subject of the properties: it may be any earlier status, "in_match" included. The
answer of `GET /friends` is taken to arrive when the status is read. Friendships are constant.

### Client

`stage` is where `HandleWebSocket` is, from the request (`Ask`) through the look-up of the user
(`Accept`) and the send to `h.register` (`Register`) to its return. `send` is `Send`, with the pings
in it; `pending` is `pendingPings`, `arrived` the pings the app has got and may answer as often as
it likes, `samples` history. `Blend` allows every result that rounding `0.3` and `0.7` in floating
point may give. `other` is another connection of the user, that may take the entry or take it away.
`Signal`, `HubReturns` and `Exit` are `main`: `Shutdown` waits for requests that are still HTTP, not
for websockets. A send to a closed `Send` panics and ends the behaviour, as in `Hub`.

### MatchStore

`session` and `round` are what the store sees of each game, `tx` the statements its transaction has
executed, `others` how many connections other queries of the server have, the other variables the
columns they change. `Begin` to `Commit` are `CompleteMatchTx`;
`Fail` is any of its errors, with the deferred `Rollback`. `HasConn` is the pool, `Locked` the row
locks of `UpdateBothRatings`. `Crash` ends the process and rolls back what was not committed;
`ClosePool` and `Exit` are the end of `main` after a signal. A rating is the match that wrote it;
`stamp`, the order of the transactions' beginnings, is `completed_at`. `ReadMatch` and `ReadRounds`
are the two queries of `GetMatchWithRounds`; `NextPage` is `ListMatches` with the offset an app
uses that asks for what follows all it was given.

## What is checked

| run | instance | shows |
|---|---|---|
| `play` | two rounds; player 1 may send right answers to either, player 2 to the first, in time or late; player 2's `GameCh` is empty or has a right answer of an earlier game; both may leave; database writes fail; instants are 0 and the limit, at which the clock stops; a round trip is 0 or longer than the limit; with fairness | the game's bookkeeping: whose answer, which round, what is stored; termination; `Match` is implemented |
| `players` | two rounds that time out at once; `Send` of capacity 2, player 1's shared with other traffic; player 1 may send what cannot be parsed, player 2 right answers to the first round; player 2 may open and close another connection; database writes fail | delivery: what is told, in which order, and until when |
| `stops_early` | one round | disagreement with a comment, below |
| `options` | four options, the first one right, in every two orders; every choice, the two next to the options, or none | what the players are shown |
| `hub` | a user with two connections who plays, a friend with one | the hub's entries, closings and marks |
| `hub_ghost` | a user with two connections | disagreement, below |
| `challenge` | two users, one of whom has two connections and a `writePump` that may fail; two challenges from this connection, to anybody, answered by anybody; database failures; with fairness | challenges, ratings, handlers that panic or block; `Duels` is implemented |
| `accounts` | two users and usernames, three handlers | registration and friendships |
| `friends_twice` | the same | disagreement, below |
| `presence` | two friends, one with two connections, and a game between them; `Send` of capacity 1 | what friends are told |
| `client` | one connection, two pings, five instants, another connection of the user, a signal; with fairness | round trips; goroutines stop; the shutdown ends |
| `store` | two games of two rounds between the same players, a pool of two connections, one of which other queries may hold, pages of one match, one restart; with fairness | results are whole, through failures and crashes; what is read of them; games that end wait for a connection and for each other's rows, and none for ever |

The bounds and why they are enough:

* `Rounds = 2`: the first round, a round that follows another, and the last one. A round interacts
  with its neighbours only, through what is left in the channels.
* `SendCap` 1 or 2 for 256, `GameCap` 1 or 2 for 16: full and empty channels, and for order two
  messages, are met in a few steps.
* `Answers`: what a player may send. Wrong answers score like none and are left out where points
  matter; an answer to the other round, or to none, stands for every late or premature one. In
  `play` both players may answer the first round and player 1 alone the second, in which player 2's
  answers are late and his side ends by the timer.
* `MaxElapsed`, `TickMs`: instants are "at once" and "at the limit", at which an answer and the timer
  compete. With ticks of 15 s the unclamped points would be negative; an answer after the limit is
  one that comes in a later round, as `awaitAnswers` has returned.
* `RTTs`: with 0 an answer at the limit is worth nothing, with 16 s more than its whole time is
  taken off it. Either may be measured in each round.
* `Leftovers`: one answer of an earlier game, in one player's channel, is enough to be taken; it may
  name either round.
* `Noisy`, `Returning`, `Gamers`, `Failing`: one actor of each kind; they do not need one another.
* `MaxCasts` bounds in `Hub` the presence broadcasts a game may add to those in flight, and in
  `Presence` those of one status about one user (`presence` was also run by hand with 2, 2.2 million
  states); `MaxChallenges = 2`
  is the least at which two handlers, or two games, cross. `Makers` is one client, as each client more
  has four times as many states: its user may be challenged himself, may have been replaced by his
  other connection, and has both challenges to answer. By hand all clients were makers (1.9 million
  states) for all properties but `HandlersFinish`, and for that one both of two clients.
* `Changes = {1}`: one rating change tells a lost one.
* `MaxPings = 2`, `MaxTime = 4`: two pings are needed for one to overtake, be dropped for, or be
  answered after the other, and for the estimate to be blended, once (three were run by hand, 3
  million states; that many blends do not drift is the theorem's to say).
* Two matches with the same players meet in the rows they lock and on the pages; `PageLimit = 1` has
  a page end between them. With `MaxOthers = 1` a game waits for a connection when another game and
  another query hold the pool's two. `MaxStarts = 1` is a life before and after a crash or
  a shutdown; the theorems are for any number.

Deadlock is checked except in `Challenge` and `Presence`, where a system whose connections have all
gone does stop, and in `Options`, which ends when its round has been scored.

### Fairness

* `GameSession`: the session goroutine runs, time passes, and the timer's arm is not passed over for
  ever, as `select` picks among ready arms at random. Nothing is assumed of players, `writePump`s or
  the hub, and none is needed: the timer bounds each round, and no send blocks.
* `Client`: goroutines that can go on do. The database answers a look-up, a write ends within
  `writeTimeout`, `Hub.Run`'s `select` and the queue of senders blocked on `unregister` let each
  departure through, `main` returns from `Shutdown`. Nothing is assumed of a handler that is blocked
  on a hub that has returned, of the app, or of the network.
* `MatchStore`: a transaction that can go on does; PostgreSQL serves those that wait in turn, and so
  does the pool, so that a `Begin` that is possible again and again is not for ever overtaken by
  other queries (strong fairness); other queries return. Statements need not succeed. A process that
  went down is started again.
* `Challenge`: a handler that can go on does, and so does a `writePump` that has not stopped.

### What does not hold

* `StopsEarlyOnlyByBoth`: one player leaving ends a game, either by a send that panics on the closed
  channel - and stops the process - or because `awaitAnswers` returns at one closed `GameCh` and
  both answers are nil. The comment there says "Both disconnected or context cancelled".
* `OfflineMeansDisconnected`: the departure of an old connection removes the new one's entry.
* `FriendshipIsUnique`: two requests in opposite directions pass the check together.

Other properties are stated so that they hold, and say by that what does not. `AnswersForThisRound`:
`GameCh` outlives a game and an answer names a round only, so that an answer to an abandoned game is
taken by the same round of the next one. `RatingsAddUp`: ratings are read when a game starts and
overwritten when it ends, and nothing stops a player from having two games; one change is then lost.
`NoSilentChange` and `InMatchPasses`: a broadcast that is dropped or fails is not repeated; of two
that overtake each other the older one may be believed, though never for "in_match"; and a session
says "online" at its end of a player who has left. An announcement that is dropped counts as made:
friends of whom the last message was lost may go on showing "in_match" after the game.
`ImplementsResults`: a match whose process died stays 'active'. `ToldIsStored`: scores and rating
changes are sent whether or not they could be written, so that after a failed `InsertMatchRound` or
`CompleteMatchTx` players have been told what was never stored. `CastsAndRepliesAreSafe` is about
broadcasts and a `readPump`'s replies only: a ping between the hub's closing of `Send` and the end
of its context does panic (`pingLoop` is not told), and so do the sends of sessions (`SendPanics` of
`GameSession`) and of handlers (`SendChallengePanics`, `SendDeclinePanics`, `TellPlayer1Panics` of
`Challenge`), which hold clients that the hub may have closed. `CutOffByTheGone` says of those of
handlers what they need to happen; `HandlersFinish` counts a panic as an end. It also excuses every
handler while any `Send` is left full for ever, as a handler can be stuck in `StartGame`'s bare
sends when a `writePump` has stopped. `OneFriendshipBetween` and `AnswerStands` except handlers
about the same pair that are in flight together: of two crossing answers to a request the later one
stays. `ImplementsDuels` does not say who may answer a challenge, as anybody may.

## What is proved

For every value of the constants, from the named assumptions on them (`SizesAssumption`,
`RatingAssumption`, `AnswersAssumption`, `LeftoversAssumption`, `OptionsAssumption`, `HubAssumption`,
`ChallengeAssumption`, `AccountsAssumption`, `PresenceAssumption`, `ClientAssumption`,
`StoreAssumption`):

* **`GameSessionProofs`**: `TypeCorrect`, `AnswersAreForThisRound`, `TotalsAreBounded`,
  `CompletionIsEarned`, `GameImplementsMatch`, from one inductive invariant. Beyond the
  properties it says what a location of `Run` knows of the locals: the points of the round being
  played are bounded by `MaxPoints` and set only between scoring and persisting, the round is at
  most `Rounds` until the last was persisted, a match is completed only after that. `ComputeELO`
  rounds the two changes apart from one another; that they cancel is `ChangesCancel`, as the
  unrounded ones do (`DeltasCancel`) and rounding halves away from zero is odd (`RoundingIsOdd`). The
  expected score is a constant function, exact in the model, where the code's is a `float64` (for
  differences of up to 10000 the rounded changes were compared by hand: there too they cancel).
  `ScoresBounded` is part of this invariant, and of `Match`.

  Four more invariants are proved on top of it, each by a strengthening of its own:
  * `EarlyEndsHaveALeaver` (`LeftForACause`): `Run` gets on its way out before the last round only
    where a channel has been closed, and a closed channel stays closed (`ClosedStays`).
  * `TablesAgree` (`RowsFit`): a row is whole or missing, and missing from the current round on. It
    needs that a sum over the rounds changes by what one round changes by
    (`AddsUpExists`, `PartialSums`, `SumGrows`), an induction. The library's induction theorem takes
    the formula as a parameter; `SetInduction` has the numbers for which it holds as a set instead,
    and proves that they are all, by the least one that is not (`WFMin`).
  * `PlayersAreToldWhatIsStored` (`SaidInTime`, `EarlierFits`): a result of the round being played
    has been composed only when the round is about to be persisted, and a final score only when the
    game is over; a result that is older than that fits the rows up to its round. It has the
    invariant of `TablesAgree` under it, which makes the totals the sums of the rows if none was lost
    (`SumsToNow`), and rows of earlier rounds do not change (`SumsStay`).
  * `QueuesAreInOrder` (`RankedSoFar`, `OneEach`, `QueuedFirst`, `Ordered`): each location of `Run` has
    a level that only grows (`LevelGrows`); no message is ranked above it, one at most is on its way
    to each player, and what is queued for the player ranks below it.

  `LatencyIsCompensated` is about the pure functions of `Scoring`, for all times and round trips.

  `AnswersAreFirst` is an action property, of the steps that touch an answer.
* **`OptionsProofs`**: `PlayersSeeTheSameOption`, `VerdictsFit`, for any number of options. The
  invariant is `TypeOK` and that what was told is computed from the answers taken; the argument,
  that an order that shows no option twice leaves none out (`EverythingShown`, by the library's
  counting of injections), so that each option has one position in each order.
* **`HubProofs`**: `TypeCorrect`, `EntriesAreConnected`, `NeitherCastsNorRepliesPanic`,
  `MatchMarksAreTrue`. The invariant adds that a connection's channels are open until it has been
  unregistered, which is why neither a broadcast nor a reader's reply can be to a closed one.
  `HubImplementsRegistry`: `Register` and `Unregister` are the steps of `Registry`, and every other
  step of the hub stutters there.
* **`ChallengeProofs`**: `TypeCorrect`, `ChallengesStartOnce`, `RatingsAreEarned`,
  `ChallengesImplementDuels`, `HandlersAreCutOffByTheGone`, `ConnectionsAreTheHubs`, for any number
  of users, connections and challenges. The invariant has three parts. `Shape`: an entry of the hub
  is a connection of its user, and every challenge being made will find an ID. `Whereabouts`: an ID
  has not been made (`NotMade`), or waits in `pendingChallenges` and nobody has it
  (`PendingIsFree`), or is in the hand of the one `readPump` that took it (`TakenOnce`), or its game
  has begun, of which there is one (`GamesFit`). In that hand it is with its maker's client and was
  taken by the hand's own user, which is why a second answer or a replaced connection does no harm.
  `Ratings`: unless games overlapped, no user's rating has been read twice, be it for both sides of
  a game (`NobodyTwice`), and what was read is current (`ReadsAreCurrent`). Steps that take nothing
  (`NothingTaken`) and read nothing (`NothingRead`) are proved together; the others one by one
  (`Taken`, `Started`, `ReadFirst` and so on). The refinement of `Duels` sorts the steps by what
  they do to challenges, games and earnings (`Effects`). That of `Registry` needs that a
  connection's channels are open until it leaves (`OpenThroughout`), and so does
  `HandlersAreCutOffByTheGone`: a connection ends in the middle of a handler only by a panic
  (`GoesForACause`), on a client that is closed and therefore gone. The two refinements of
  `Registry` were also model-checked by hand, on the instances of `challenge` and `hub`.
* **`AccountsProofs`**: `TypeCorrect`, `FriendshipsAreSingle`, `AnswersStand`, `NamesStay`. The
  invariant adds that between users whose handlers never crossed only one handler is at work, and
  that what it has read is still so.

* **`MatchStoreProofs`**: `TypeCorrect`, `StoreImplementsResults`, `DetailsAreWhole`,
  `PagesMissNothing`, for any matches, rounds, pool and page size, and any number of crashes. The
  invariant: a session has one transaction at most, and only while it completes (`SessionFits`),
  from which a completed match is never completed again nor given another round; no two
  transactions have the same time (`StampsDiffer`); a match read as completed is (`DetailFits`); what
  is still to be shown of a history is not before the next offset (`PagingFits`). Paging rests on
  counting: the places of a user's matches are 0, 1, 2, ... without a gap (`NoPlaceIsEmpty`), and a
  match that is completed moves others back, never forth.
* **`ClientProofs`**: `TypeCorrect`, `NoPingIsSampledTwice`, `EstimateStaysBetween`. A pending ping
  was made and is not in the future (`PendingFits`); a sampled one is not pending (`SamplesFit`). That
  rounding does not add up over many samples is arithmetic on one of them (`BlendIsBetween`): an
  estimate that is two less than a sample and than what the last one was near would be too far from
  three tenths of the one and seven of the other.
* **`PresenceProofs`**: `TypeCorrect`, `ChangesAreAnnounced`, `MatchesPass`. The invariant: entries
  are of open connections and carry the marks (`EntriesFit`); only friends hear, and a new
  connection has heard nothing (`HearsOfFriends`); a mark or a friend's belief in a match is backed by
  a session that has not yet ended for that player (`MarksFit`, `BeliefsFit`), as the hub's own
  goroutines never say "in_match" (`GamesSayInMatch`).

Every invariant and action property that a passing run checks is thereby a theorem. Only
model-checked is liveness (`SessionEnds`, `HandlersFinish`, `NothingLeaks`, `TransactionsEnd`,
`ShutdownEnds`): it rests on fairness and on `ENABLED`, which are out of the prover's reach.

## What is not modelled

* **Single reads** (`Search`, `Me`, `ListCategories`, pending requests): one query that changes
  nothing. **Authentication** is a check per request; the models start behind it.
* **Ties** of `completed_at`, which PostgreSQL keeps in microseconds; a database that notices late
  that its client has died; two `UPDATE`s that lock the rows of the same two players in different
  orders, one of which PostgreSQL would end with an error, as `Fail` does.
* **An answer of `GET /friends`** that is on its way while a broadcast overtakes it: what an app then
  shows is up to the app, which is not in the repository.
* **The text** of messages, names and categories; JSON; metrics, traces and logs.
* **`UpdateLastSeen`**, whose column no decision reads, and the pause the hub makes for it.
* **A game with oneself** inside `GameSession`, whose two clients are different ones (`Challenge` lets
  it begin and end).
* **`GetPresence`'s unlocked read** of `inMatch`: `Hub` and `Presence` read entry and mark in one step.
* **The expected score** of Elo, a power of ten.
* **Generated code, platform clients, deployment**.

## Plan

1. *Composition.* `GameSession`'s and `Presence`'s connections are like those of `Registry`; both
   would need its history (a connection that rejoins, channels that are closed) to implement it.
   `Presence` with friendships that are made while users are connected, of which nobody is told.
2. *Migrations*: failing between two statements.
3. *Proofs.* A refinement of `Accounts`, as `Duels` is for `Challenge`.
