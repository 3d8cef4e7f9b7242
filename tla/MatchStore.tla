----------------------------- MODULE MatchStore -----------------------------
(***************************************************************************)
(* The matches in the database: what StartGame and a game session write of *)
(* them, statement by statement, with a pool of connections, statements    *)
(* that fail, and a process that crashes or is shut down; and the two HTTP *)
(* handlers that read them, GetMatch and ListMatches.                      *)
(*                                                                         *)
(* A rating is the match that wrote it, a round row its number, a          *)
(* completed_at the order in which the transactions began: now() is the    *)
(* time of BEGIN.  Two transactions lock the rows of the same two players  *)
(* in the same order, so that neither waits for the other.                 *)
(***************************************************************************)
EXTENDS Integers, FiniteSets

CONSTANTS
  User, Match, PlayersOf, NoMatch,   \* as in Results
  Rounds,     \* rounds of a game (totalRounds)
  PoolSize,   \* connections of the pool
  PageLimit,  \* the limit of a page of ListMatches
  MaxOthers,  \* bound: other queries in progress at once
  MaxStarts   \* bound: how often the process is started again

ASSUME StoreAssumption ==
  /\ IsFiniteSet(Match)
  /\ PlayersOf \in [Match -> SUBSET User]
  /\ NoMatch \notin Match
  /\ Rounds \in Nat /\ MaxOthers \in Nat /\ MaxStarts \in Nat
  /\ PoolSize \in Nat \ {0} /\ PageLimit \in Nat \ {0}

VARIABLES
  server,     \* the process: up, its pool closing, or down
  starts,     \* how often it was started again
  session,    \* where each match's GameSession is
  round,      \* the rounds it has played
  tx,         \* the statements executed by its open transaction
  status,     \* matches.status; "none" before the row exists
  rows,       \* match_rounds: the round numbers stored
  stamp,      \* matches.completed_at, as written by its transaction
  ratedBy,    \* users.rating
  detail,     \* a GET /matches/{id}
  others,     \* connections that other queries of the server hold
  paging      \* a user's app reading GET /matches page by page

games == <<session, round, tx>>
tables == <<status, rows, stamp, ratedBy>>
readers == <<detail, paging, others>>
vars == <<server, starts, games, tables, readers>>

NoDetail == [pc |-> "idle"]
NoPaging == [pc |-> "idle"]

-----------------------------------------------------------------------------
(* Slips a maintainer could make, variants of the definitions below.       *)

RoundsLeft_OneMore(m) == session[m] = "playing" /\ round[m] <= Rounds
Written_Outside(m) == ratedBy' = [u \in User |-> IF u \in PlayersOf[m] THEN m ELSE ratedBy[u]]
RolledBack_NotAfterCommit(m) == IF tx[m] = "rated" THEN tx[m] ELSE "none"
Queries_Swapped == <<"rounds", "match">>
Offset_OneMore(shown) == shown + 1

-----------------------------------------------------------------------------
(* The pool and the transaction.                                           *)

Open == {m \in Match : tx[m] # "none"}
HasConn == server = "up" /\ Cardinality(Open) + others < PoolSize

(* What others see of the ratings once UpdateBothRatings has run in qtx.   *)
Written(m) == UNCHANGED ratedBy

(* The deferred tx.Rollback: the connection goes back, the locks go.       *)
RolledBack(m) == "none"

(* The rows of both players are locked until the transaction ends.         *)
Locked(m) == \E n \in Match \ {m} : tx[n] = "rated" /\ PlayersOf[n] \cap PlayersOf[m] # {}

-----------------------------------------------------------------------------
(* A match and its session.                                                *)

(* StartGame: the row, and the session's goroutine.                        *)
CreateMatch(m) ==
  /\ HasConn /\ status[m] = "none"
  /\ status' = [status EXCEPT ![m] = "active"]
  /\ session' = [session EXCEPT ![m] = "playing"]
  /\ UNCHANGED <<server, starts, round, tx, rows, stamp, ratedBy, readers>>

(* The loop over the rounds has not ended.                                 *)
RoundsLeft(m) == session[m] = "playing" /\ round[m] < Rounds

(* The end of a round: its row is inserted, or that fails and it goes on.  *)
PlayRound(m) ==
  /\ server # "down" /\ RoundsLeft(m)
  /\ round' = [round EXCEPT ![m] = @ + 1]
  /\ \/ HasConn /\ rows' = [rows EXCEPT ![m] = @ \cup {round[m] + 1}]
     \/ UNCHANGED rows
  /\ UNCHANGED <<server, starts, session, tx, status, stamp, ratedBy, readers>>

(* Run returns without a result.                                           *)
Abandon(m) ==
  /\ server # "down" /\ RoundsLeft(m)
  /\ session' = [session EXCEPT ![m] = "over"]
  /\ UNCHANGED <<server, starts, round, tx, tables, readers>>

(* completeGame enters CompleteMatchTx.                                    *)
FinishGame(m) ==
  /\ server # "down" /\ session[m] = "playing" /\ round[m] = Rounds
  /\ session' = [session EXCEPT ![m] = "completing"]
  /\ UNCHANGED <<server, starts, round, tx, tables, readers>>

(* now() for the transaction of m; no two are the same.                    *)
StampOf(m) == 1 + Cardinality({n \in Match : stamp[n] > 0})

Begin(m) ==
  /\ HasConn /\ session[m] = "completing" /\ tx[m] = "none"
  /\ tx' = [tx EXCEPT ![m] = "begun"]
  /\ stamp' = [stamp EXCEPT ![m] = StampOf(m)]
  /\ UNCHANGED <<server, starts, session, round, status, rows, ratedBy, readers>>

(* Seen by nobody else before the commit.                                  *)
CompleteMatch(m) ==
  /\ tx[m] = "begun"
  /\ tx' = [tx EXCEPT ![m] = "completed"]
  /\ UNCHANGED <<server, starts, session, round, tables, readers>>

UpdateBothRatings(m) ==
  /\ tx[m] = "completed" /\ ~Locked(m)
  /\ tx' = [tx EXCEPT ![m] = "rated"]
  /\ Written(m)
  /\ UNCHANGED <<server, starts, session, round, status, rows, stamp, readers>>

(* Whether or not the session hears of it: it only logs an error.          *)
Commit(m) ==
  /\ tx[m] = "rated" /\ session[m] = "completing"
  /\ tx' = [tx EXCEPT ![m] = "none"]
  /\ session' = [session EXCEPT ![m] = "over"]
  /\ status' = [status EXCEPT ![m] = "completed"]
  /\ ratedBy' = [u \in User |-> IF u \in PlayersOf[m] THEN m ELSE ratedBy[u]]
  /\ UNCHANGED <<server, starts, round, rows, stamp, readers>>

(* Begin or a statement returns an error, and so does CompleteMatchTx.     *)
Fail(m) ==
  /\ server # "down" /\ session[m] = "completing"
  /\ session' = [session EXCEPT ![m] = "over"]
  /\ tx' = [tx EXCEPT ![m] = RolledBack(m)]
  /\ UNCHANGED <<server, starts, round, tables, readers>>

-----------------------------------------------------------------------------
(* The process.                                                            *)

Lost ==
  /\ server' = "down"
  /\ session' = [m \in Match |-> IF session[m] = "none" THEN "none" ELSE "over"]
  /\ tx' = [m \in Match |-> "none"]
  /\ detail' = NoDetail /\ others' = 0
  /\ UNCHANGED <<starts, round, tables, paging>>

(* It dies; the database rolls back what was not committed.                *)
Crash == server # "down" /\ starts < MaxStarts /\ Lost

(* main after a signal: Shutdown waits for plain requests, of which a GET  *)
(* of a match is one, but for no game; then main returns and its deferred  *)
(* pool.Close refuses new connections and waits for those in use.          *)
ClosePool ==
  /\ server = "up" /\ starts < MaxStarts /\ detail.pc # "half"
  /\ server' = "closing"
  /\ UNCHANGED <<starts, games, tables, readers>>

Exit == server = "closing" /\ Open = {} /\ others = 0 /\ Lost

(* Nothing looks for the matches that were left 'active'.                  *)
Start ==
  /\ server = "down"
  /\ server' = "up" /\ starts' = starts + 1
  /\ UNCHANGED <<games, tables, readers>>

-----------------------------------------------------------------------------
(* The readers.                                                            *)

(* The pool is the whole server's: each query of any handler, or of the    *)
(* hub, has one of its connections until it returns.                       *)
OtherQuery ==
  /\ HasConn /\ others < MaxOthers
  /\ others' = others + 1
  /\ UNCHANGED <<server, starts, games, tables, detail, paging>>

OtherReturns ==
  /\ others > 0
  /\ others' = others - 1
  /\ UNCHANGED <<server, starts, games, tables, detail, paging>>

(* GetMatchWithRounds makes two queries, outside of any transaction.       *)
Queries == <<"match", "rounds">>

Read(d, query) ==
  IF query = "match" THEN [d EXCEPT !.status = status[d.match]]
                     ELSE [d EXCEPT !.rows = rows[d.match]]

ReadMatch(m) ==
  /\ HasConn /\ detail.pc # "half" /\ status[m] # "none"
  /\ detail' = Read([pc |-> "half", match |-> m, status |-> "none", rows |-> {}], Queries[1])
  /\ UNCHANGED <<server, starts, games, tables, paging, others>>

(* The second query, and then the answer if the caller is a participant.   *)
ReadRounds(u) ==
  /\ HasConn /\ detail.pc = "half"
  /\ detail' = IF u \in PlayersOf[detail.match]
                 THEN [Read(detail, Queries[2]) EXCEPT !.pc = "shown"] ELSE NoDetail
  /\ UNCHANGED <<server, starts, games, tables, paging, others>>

(* ListUserMatches: the completed matches of a user, newest first.         *)
Listed(u) == {m \in Match : status[m] = "completed" /\ u \in PlayersOf[m]}
Newer(u, m) == Cardinality({n \in Listed(u) : stamp[n] > stamp[m]})
Page(u, offset) == {m \in Listed(u) : Newer(u, m) \in offset..(offset + PageLimit - 1)}

(* The rows a page leaves out, by what the app has been shown before it.   *)
Offset(shown) == shown

(* An app begins to page; "due" is history: what it should see by the end. *)
StartPaging(u) ==
  /\ paging.pc # "reading"
  /\ paging' = [pc |-> "reading", user |-> u, shown |-> 0, seen |-> {}, due |-> Listed(u)]
  /\ UNCHANGED <<server, starts, games, tables, detail, others>>

(* It asks for what comes after all that it was given, until that is       *)
(* nothing.                                                                *)
NextPage ==
  /\ HasConn /\ paging.pc = "reading"
  /\ LET page == Page(paging.user, Offset(paging.shown))
     IN paging' = IF page = {} THEN [paging EXCEPT !.pc = "done"]
                  ELSE [paging EXCEPT !.shown = @ + Cardinality(page), !.seen = @ \cup page]
  /\ UNCHANGED <<server, starts, games, tables, detail, others>>

-----------------------------------------------------------------------------

Init ==
  /\ server = "up" /\ starts = 0
  /\ session = [m \in Match |-> "none"]
  /\ round = [m \in Match |-> 0]
  /\ tx = [m \in Match |-> "none"]
  /\ status = [m \in Match |-> "none"]
  /\ rows = [m \in Match |-> {}]
  /\ stamp = [m \in Match |-> 0]
  /\ ratedBy = [u \in User |-> NoMatch]
  /\ detail = NoDetail /\ paging = NoPaging /\ others = 0

Transact(m) == Begin(m) \/ CompleteMatch(m) \/ UpdateBothRatings(m) \/ Commit(m)

Next ==
  \/ \E m \in Match :
       CreateMatch(m) \/ PlayRound(m) \/ Abandon(m) \/ FinishGame(m) \/ Transact(m)
         \/ Fail(m) \/ ReadMatch(m)
  \/ \E u \in User : ReadRounds(u) \/ StartPaging(u)
  \/ NextPage \/ OtherQuery \/ OtherReturns
  \/ Crash \/ ClosePool \/ Exit \/ Start

Spec == Init /\ [][Next]_vars

(* A session goes on with its transaction when it can: the pool serves in  *)
(* turn those that wait for a connection, and so is not for ever taken by  *)
(* others first; queries return.  A closed pool and a process that may     *)
(* exit do not wait, and a stopped one is started again.                   *)
Fairness ==
  /\ \A m \in Match :
       WF_vars(Transact(m)) /\ SF_vars(Begin(m)) /\ WF_vars(server = "closing" /\ Fail(m))
  /\ WF_vars(OtherReturns) /\ WF_vars(Exit) /\ WF_vars(Start)

FairSpec == Spec /\ Fairness

-----------------------------------------------------------------------------
(* Properties.                                                             *)

TypeOK ==
  /\ server \in {"up", "closing", "down"} /\ starts \in Nat
  /\ session \in [Match -> {"none", "playing", "completing", "over"}]
  /\ round \in [Match -> 0..Rounds]
  /\ tx \in [Match -> {"none", "begun", "completed", "rated"}]
  /\ status \in [Match -> {"none", "active", "completed"}]
  /\ rows \in [Match -> SUBSET (1..Rounds)]
  /\ stamp \in [Match -> Nat]
  /\ ratedBy \in [User -> Match \cup {NoMatch}]
  /\ others \in 0..MaxOthers
  /\ detail \in {NoDetail} \cup
       [pc : {"half", "shown"}, match : Match, status : {"none", "active", "completed"},
        rows : SUBSET (1..Rounds)]
  /\ paging \in {NoPaging} \cup
       [pc : {"reading", "done"}, user : User, shown : Nat, seen : SUBSET Match,
        due : SUBSET Match]

(* Through failing statements, crashes and shutdowns a match is completed  *)
(* in the same instant in which both ratings change, and neither is taken  *)
(* back: "CompleteMatchTx atomically completes a match and updates both    *)
(* players' ratings".                                                      *)
Abstract == INSTANCE Results WITH recorded <- {m \in Match : status[m] = "completed"}
ImplementsResults == Abstract!Spec

(* Though GetMatch reads a match and its rounds at two moments while the   *)
(* game goes on, a match it shows as completed is shown with every round   *)
(* that will ever be stored of it.                                         *)
WholeDetail ==
  detail.pc = "shown" /\ detail.status = "completed" => detail.rows = rows[detail.match]

(* An app that pages through its history with limit and offset, while      *)
(* games are completed, sees every match that was completed when it began. *)
PagingMissesNothing == paging.pc = "done" => paging.due \subseteq paging.seen

(* No session waits for ever for a connection, though other games that end *)
(* and other queries take them, or for rows that another one has locked,   *)
(* whatever failed in between.                                             *)
TransactionsEnd ==
  \A m \in Match : session[m] = "completing" ~> session[m] = "over"

=============================================================================
