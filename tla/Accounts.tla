------------------------------- MODULE Accounts -------------------------------
(***************************************************************************)
(* The HTTP handlers that write: user.Handler.Register and the friend      *)
(* handlers Request and Respond, over the tables users and friendships.    *)
(*                                                                         *)
(* Each handler first reads and then writes, in two statements outside any *)
(* transaction, so that another handler may write between the two.  What   *)
(* then stands between them are the tables' UNIQUE constraints.            *)
(***************************************************************************)
EXTENDS Naturals

CONSTANTS
  Uid,        \* identities, by firebase_uid, and so users
  Username,   \* the usernames they ask for
  Handler,    \* requests being handled, at most one by each
  None        \* no row

ASSUME AccountsAssumption == None \notin Username

VARIABLES
  username,   \* users: the username of each identity's row
  status,     \* friendships: the status by requester and addressee
  call,       \* what each handler is about to write
  crossed     \* history: the users about whom two handlers were in flight

vars == <<username, status, call, crossed>>

Pair == {p \in Uid \X Uid : p[1] # p[2]}
Mirror(p) == <<p[2], p[1]>>
Users(p) == {p[1], p[2]}

Idle == [do |-> "idle"]
Insert(u, name) == [do |-> "create_user", uid |-> u, name |-> name]
Befriend(p) == [do |-> "create_friendship", pair |-> p]
Answer(p, accepted) == [do |-> "update_status", pair |-> p, accepted |-> accepted]

-----------------------------------------------------------------------------
(* Slips a maintainer could make, variants of the definitions below.       *)

TakesName_OrReplaces(u, name) == \A v \in Uid \ {u} : username[v] # name
Between_OneWay(p) == status[p]
Answerable_Always(p) == status[p] # "none"
NewStatus_Rejected(accepted) == IF accepted THEN "accepted" ELSE "rejected"

-----------------------------------------------------------------------------

(* The INSERT violates neither UNIQUE (firebase_uid) nor UNIQUE (username). *)
TakesName(u, name) == username[u] = None /\ \A v \in Uid : username[v] # name

(* FindByFirebaseUID and FindByID.                                         *)
Known(u) == username[u] # None

(* FindBetween looks both ways.                                            *)
Between(p) == IF status[p] # "none" THEN status[p] ELSE status[Mirror(p)]

(* Request goes on only between two users, with nothing between them.      *)
MayAsk(p) == Known(p[1]) /\ Known(p[2]) /\ Between(p) = "none"

(* Respond goes on only with a friendship that is still pending.           *)
Answerable(p) == status[p] = "pending"

NewStatus(accepted) == IF accepted THEN "accepted" ELSE "declined"

Free(h) == call[h] = Idle
Continue(h, c) == call' = [call EXCEPT ![h] = c]
Reply(h) == Continue(h, Idle)

(* Is a handler about these two users in flight?                           *)
InFlight(p) ==
  \E h \in Handler :
    call[h].do \in {"create_friendship", "update_status"} /\ Users(call[h].pair) = Users(p)
Cross(p) == crossed' = IF InFlight(p) THEN crossed \cup {Users(p)} ELSE crossed

-----------------------------------------------------------------------------

(* Register: an identity that has a user is refused.                       *)
Register(h, u, name) ==
  /\ Free(h)
  /\ IF Known(u) THEN Reply(h) ELSE Continue(h, Insert(u, name))
  /\ UNCHANGED <<username, status, crossed>>

(* The row goes in, or a constraint refuses it and so does the handler.    *)
CreateUser(h) ==
  /\ call[h].do = "create_user"
  /\ username' = IF TakesName(call[h].uid, call[h].name)
                   THEN [username EXCEPT ![call[h].uid] = call[h].name]
                   ELSE username
  /\ Reply(h)
  /\ UNCHANGED <<status, crossed>>

(* Request, from one user to another, is refused unless both are known and *)
(* FindBetween finds nothing.                                              *)
Request(h, p) ==
  /\ Free(h)
  /\ IF MayAsk(p)
       THEN Continue(h, Befriend(p)) /\ Cross(p)
       ELSE Reply(h) /\ UNCHANGED crossed
  /\ UNCHANGED <<username, status>>

(* UNIQUE (requester_id, addressee_id) looks one way only.                 *)
CreateFriendship(h) ==
  /\ call[h].do = "create_friendship"
  /\ status' = IF status[call[h].pair] = "none"
                 THEN [status EXCEPT ![call[h].pair] = "pending"]
                 ELSE status
  /\ Reply(h)
  /\ UNCHANGED <<username, crossed>>

(* Respond, by the addressee of a friendship, which was found by its ID.   *)
Respond(h, p, accepted) ==
  /\ Free(h) /\ status[p] # "none"
  /\ IF Answerable(p)
       THEN Continue(h, Answer(p, accepted)) /\ Cross(p)
       ELSE Reply(h) /\ UNCHANGED crossed
  /\ UNCHANGED <<username, status>>

(* The update has no condition on the status it replaces.                  *)
UpdateStatus(h) ==
  /\ call[h].do = "update_status"
  /\ status' = [status EXCEPT ![call[h].pair] = NewStatus(call[h].accepted)]
  /\ Reply(h)
  /\ UNCHANGED <<username, crossed>>

(* The statement fails, or the client is gone and its context done.        *)
WriteFails(h) ==
  /\ ~Free(h) /\ Reply(h)
  /\ UNCHANGED <<username, status, crossed>>

-----------------------------------------------------------------------------

Init ==
  /\ username = [u \in Uid |-> None]
  /\ status = [p \in Pair |-> "none"]
  /\ call = [h \in Handler |-> Idle]
  /\ crossed = {}

Next ==
  \E h \in Handler :
    \/ \E u \in Uid, name \in Username : Register(h, u, name)
    \/ \E p \in Pair : Request(h, p)
    \/ \E p \in Pair, accepted \in BOOLEAN : Respond(h, p, accepted)
    \/ CreateUser(h) \/ CreateFriendship(h) \/ UpdateStatus(h) \/ WriteFails(h)

Spec == Init /\ [][Next]_vars

-----------------------------------------------------------------------------
(* Properties.                                                             *)

Call ==
  {Idle}
  \cup [do : {"create_user"}, uid : Uid, name : Username]
  \cup [do : {"create_friendship"}, pair : Pair]
  \cup [do : {"update_status"}, pair : Pair, accepted : BOOLEAN]

TypeOK ==
  /\ username \in [Uid -> Username \cup {None}]
  /\ status \in [Pair -> {"none", "pending", "accepted", "declined"}]
  /\ call \in [Handler -> Call]
  /\ crossed \subseteq {Users(p) : p \in Pair}

(* However many registrations of one identity are in flight, the first     *)
(* that is written stays: nobody's username is ever changed, nor shared.   *)
FirstNameStays ==
  [][\A u \in Uid : Known(u) =>
       /\ username'[u] = username[u]
       /\ \A v \in Uid \ {u} : username'[v] # username[u]]_vars

(* Two users have one friendship between them, whoever asked, as long as   *)
(* no two handlers about them were in flight together: FindBetween stands  *)
(* in for the constraint that the table does not have.                     *)
OneFriendshipBetween ==
  \A p \in Pair : Users(p) \notin crossed =>
    status[p] = "none" \/ status[Mirror(p)] = "none"

(* An answer to a request is final, as long as no other answer was on its  *)
(* way when it was given.                                                  *)
AnswerStands ==
  [][\A p \in Pair :
       Users(p) \notin crossed' /\ status[p] \in {"accepted", "declined"}
         => status'[p] = status[p]]_vars

(* "friendship already exists", Request answers to whoever asks a user     *)
(* with whom there is a friendship, whichever of the two asked first.      *)
FriendshipIsUnique ==
  \A p \in Pair : status[p] = "none" \/ status[Mirror(p)] = "none"

=============================================================================
