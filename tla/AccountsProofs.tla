--------------------------- MODULE AccountsProofs ---------------------------
(***************************************************************************)
(* What is proved of Accounts for any users, usernames and handlers.       *)
(***************************************************************************)
EXTENDS Accounts, TLAPS

About(h, p) ==
  /\ call[h].do \in {"create_friendship", "update_status"}
  /\ Users(call[h].pair) = Users(p)

(* A friendship is only ever about to be made between registered users.    *)
AskedAreUsers ==
  \A h \in Handler : call[h].do = "create_friendship" =>
    Known(call[h].pair[1]) /\ Known(call[h].pair[2])

(* Of users about whom handlers never met, at most one handler is at work, *)
(* and what it read before it is still so.                                 *)
OneAtWork ==
  \A h, g \in Handler : \A p \in Pair :
    Users(p) \notin crossed /\ About(h, p) /\ About(g, p) => h = g

StillAsRead ==
  \A h \in Handler :
    /\ call[h].do = "create_friendship" /\ Users(call[h].pair) \notin crossed
         => status[call[h].pair] = "none" /\ status[Mirror(call[h].pair)] = "none"
    /\ call[h].do = "update_status" => status[call[h].pair] # "none"
    /\ call[h].do = "update_status" /\ Users(call[h].pair) \notin crossed
         => status[call[h].pair] = "pending"

(* Whatever is in flight, only registered users are asked to be friends.   *)
FriendsAreUsers == \A p \in Pair : status[p] # "none" => Known(p[1]) /\ Known(p[2])

(* The UNIQUE constraint on usernames.                                     *)
Shared(u, v) == u # v /\ Known(u) /\ username[u] = username[v]
NoneShared == \A u, v \in Uid : ~Shared(u, v)

IInv ==
  /\ TypeOK
  /\ NoneShared
  /\ FriendsAreUsers
  /\ AskedAreUsers
  /\ OneAtWork
  /\ StillAsRead
  /\ OneFriendshipBetween

-----------------------------------------------------------------------------

LEMMA MirrorIsPair ==
  ASSUME NEW p \in Pair
  PROVE  /\ Mirror(p) \in Pair /\ Mirror(Mirror(p)) = p
         /\ Users(Mirror(p)) = Users(p)
BY DEF Pair, Mirror, Users

(* Two pairs of the same users are the same or mirror one another.         *)
LEMMA SameUsers ==
  ASSUME NEW p \in Pair, NEW q \in Pair, Users(p) = Users(q)
  PROVE  q = p \/ q = Mirror(p)
<1>1. /\ p = <<p[1], p[2]>> /\ q = <<q[1], q[2]>>
      /\ p[1] # p[2] /\ q[1] # q[2]
  BY DEF Pair
<1>2. {p[1], p[2]} = {q[1], q[2]}
  BY DEF Users
<1>3. (q[1] = p[1] /\ q[2] = p[2]) \/ (q[1] = p[2] /\ q[2] = p[1])
  BY <1>1, <1>2
<1> QED
  BY <1>1, <1>3 DEF Mirror

(* What a busy handler is about to write is one of three things.           *)
LEMMA CallTypes ==
  ASSUME TypeOK, NEW h \in Handler
  PROVE  /\ call[h].do = "create_user" => call[h].uid \in Uid /\ call[h].name \in Username
         /\ call[h].do \in {"create_friendship", "update_status"} => call[h].pair \in Pair
         /\ call[h].do = "update_status" => call[h].accepted \in BOOLEAN
         /\ call[h].do \in {"idle", "create_user", "create_friendship", "update_status"}
BY DEF TypeOK, Call, Idle

LEMMA InitEstablishes == Init => IInv
<1> SUFFICES ASSUME Init PROVE IInv
  OBVIOUS
<1>1. TypeOK
  BY DEF Init, TypeOK, Call
<1> QED
  BY <1>1 DEF Init, IInv, NoneShared, Shared, Known, FriendsAreUsers, AskedAreUsers, OneAtWork, About,
       StillAsRead, OneFriendshipBetween, Idle

-----------------------------------------------------------------------------

(* A handler that replies leaves the others where they were.               *)
LEMMA ReplyPreserves ==
  ASSUME IInv, NEW h \in Handler, Reply(h), UNCHANGED <<status, crossed>>,
         \A u \in Uid : Known(u) => Known(u)'
  PROVE  FriendsAreUsers' /\ AskedAreUsers' /\ OneAtWork' /\ StillAsRead'
         /\ OneFriendshipBetween'
<1> USE DEF IInv, Reply, Continue
<1>1. /\ call'[h].do = "idle"
      /\ \A g \in Handler : g # h => call'[g] = call[g]
  BY DEF TypeOK, Idle
<1>2. AskedAreUsers'
  <2> SUFFICES ASSUME NEW g \in Handler, call'[g].do = "create_friendship"
               PROVE  Known(call[g].pair[1])' /\ Known(call[g].pair[2])'
    BY DEF AskedAreUsers
  <2>1. g # h /\ call'[g] = call[g]
    BY <1>1
  <2>2. Known(call[g].pair[1]) /\ Known(call[g].pair[2])
    BY <2>1 DEF AskedAreUsers
  <2>3. call[g].pair \in Pair
    BY <2>1, CallTypes
  <2>4. call[g].pair[1] \in Uid /\ call[g].pair[2] \in Uid
    BY <2>3 DEF Pair
  <2> QED
    BY <2>1, <2>2, <2>4
<1>3. OneAtWork'
  BY <1>1 DEF OneAtWork, About
<1>4. StillAsRead'
  BY <1>1 DEF StillAsRead
<1>5. FriendsAreUsers'
  BY DEF FriendsAreUsers, Pair
<1> QED
  BY <1>2, <1>3, <1>4, <1>5 DEF OneFriendshipBetween

(* A handler that starts on a friendship with users whom nobody else is at *)
(* work on, or has crossed them.                                           *)
LEMMA CrossPreserves ==
  ASSUME IInv, NEW h \in Handler, Free(h), NEW p \in Pair, NEW c,
         c.do \in {"create_friendship", "update_status"}, c.pair = p,
         Continue(h, c), Cross(p)
  PROVE  OneAtWork' /\ crossed \subseteq crossed'
<1> USE DEF IInv, Continue, Cross
<1>1. call'[h] = c /\ \A g \in Handler : g # h => call'[g] = call[g]
  BY DEF TypeOK
<1>2. crossed \subseteq crossed'
  OBVIOUS
<1>3. ASSUME NEW f \in Handler, NEW g \in Handler, NEW q \in Pair,
             Users(q) \notin crossed', About(f, q)', About(g, q)'
      PROVE  f = g
  <2>1. CASE f # h /\ g # h
    BY <1>1, <1>2, <1>3, <2>1 DEF OneAtWork, About
  <2>2. ASSUME NEW k \in Handler, k # h, About(h, q)', About(k, q)' PROVE FALSE
    <3>1. Users(p) = Users(q)
      BY <1>1, <2>2 DEF About
    <3>2. InFlight(p)
      BY <1>1, <2>2, <3>1 DEF About, InFlight
    <3> QED
      BY <1>3, <3>1, <3>2
  <2> QED
    BY <1>3, <2>1, <2>2
<1> QED
  BY <1>2, <1>3 DEF OneAtWork

-----------------------------------------------------------------------------

LEMMA NextPreserves == IInv /\ [Next]_vars => IInv'
<1> SUFFICES ASSUME IInv, [Next]_vars PROVE IInv'
  OBVIOUS
<1> USE DEF IInv
<1>1. ASSUME NEW h \in Handler, NEW u \in Uid, NEW name \in Username,
             Register(h, u, name)
      PROVE  IInv'
  <2>1. CASE Known(u)
    <3>1. Reply(h) /\ UNCHANGED <<username, status, crossed>>
      BY <1>1, <2>1 DEF Register
    <3>2. TypeOK'
      BY <3>1 DEF TypeOK, Call, Reply, Continue
    <3> QED
      BY <3>1, <3>2, ReplyPreserves DEF Known, NoneShared, Shared
  <2>2. CASE ~Known(u)
    <3>1. Continue(h, Insert(u, name)) /\ UNCHANGED <<username, status, crossed>>
      BY <1>1, <2>2 DEF Register
    <3>2. TypeOK'
      BY <3>1 DEF TypeOK, Call, Continue, Insert
    <3>3. /\ call'[h].do = "create_user"
          /\ \A g \in Handler : g # h => call'[g] = call[g]
      BY <3>1 DEF TypeOK, Continue, Insert
    <3>4. OneAtWork' /\ StillAsRead'
      BY <3>1, <3>3 DEF OneAtWork, About, StillAsRead
    <3>5. AskedAreUsers' /\ FriendsAreUsers' /\ OneFriendshipBetween'
      BY <3>1, <3>3 DEF AskedAreUsers, FriendsAreUsers, OneFriendshipBetween, Known
    <3>6. NoneShared'
      BY <3>1 DEF NoneShared, Shared, Known
    <3> QED
      BY <3>2, <3>4, <3>5, <3>6
  <2> QED
    BY <2>1, <2>2
<1>2. ASSUME NEW h \in Handler, CreateUser(h) PROVE IInv'
  <2>1. Reply(h) /\ UNCHANGED <<status, crossed>>
    BY <1>2 DEF CreateUser
  <2>2. call[h].uid \in Uid /\ call[h].name \in Username
    BY <1>2, CallTypes DEF CreateUser
  <2>3. TypeOK'
    BY <1>2, <2>2 DEF CreateUser, TypeOK, Call, Reply, Continue
  <2>4. \A u \in Uid : Known(u) => Known(u)'
    BY <1>2, <2>2, AccountsAssumption DEF CreateUser, TakesName, Known, TypeOK
  <2>5. NoneShared'
    BY <1>2, <2>2, AccountsAssumption
       DEF CreateUser, TakesName, NoneShared, Shared, Known, TypeOK
  <2> QED
    BY <2>1, <2>3, <2>4, <2>5, ReplyPreserves
<1>3. ASSUME NEW h \in Handler, NEW p \in Pair, Request(h, p) PROVE IInv'
  <2>1. CASE MayAsk(p)
    <3>1. /\ Free(h) /\ Continue(h, Befriend(p)) /\ Cross(p)
          /\ UNCHANGED <<username, status>>
      BY <1>3, <2>1 DEF Request
    <3>2. OneAtWork' /\ crossed \subseteq crossed'
      BY <3>1, CrossPreserves DEF Befriend
    <3>3. TypeOK'
      BY <3>1 DEF TypeOK, Call, Continue, Befriend, Cross
    <3>4. /\ call'[h] = Befriend(p)
          /\ \A g \in Handler : g # h => call'[g] = call[g]
      BY <3>1 DEF TypeOK, Continue
    <3>5. status[p] = "none" /\ status[Mirror(p)] = "none"
      BY <2>1 DEF MayAsk, Between
    <3>6. StillAsRead'
      BY <3>1, <3>2, <3>4, <3>5 DEF StillAsRead, Befriend
    <3>7. AskedAreUsers' /\ FriendsAreUsers' /\ OneFriendshipBetween'
      BY <2>1, <3>1, <3>2, <3>4
         DEF MayAsk, AskedAreUsers, FriendsAreUsers, OneFriendshipBetween, Known, Befriend
    <3> QED
      BY <3>1, <3>2, <3>3, <3>6, <3>7 DEF NoneShared, Shared, Known
  <2>2. CASE ~MayAsk(p)
    <3>1. Reply(h) /\ UNCHANGED <<username, status, crossed>>
      BY <1>3, <2>2 DEF Request
    <3>2. TypeOK'
      BY <3>1 DEF TypeOK, Call, Reply, Continue
    <3> QED
      BY <3>1, <3>2, ReplyPreserves DEF Known, NoneShared, Shared
  <2> QED
    BY <2>1, <2>2
<1>4. ASSUME NEW h \in Handler, CreateFriendship(h) PROVE IInv'
  <2> DEFINE p == call[h].pair
  <2>1. call[h].do = "create_friendship" /\ p \in Pair
    BY <1>4, CallTypes DEF CreateFriendship
  <2>2. Reply(h) /\ UNCHANGED <<username, crossed>>
    BY <1>4 DEF CreateFriendship
  <2>3. CASE status[p] # "none"
    <3>1. UNCHANGED status
      BY <1>4, <2>3 DEF CreateFriendship
    <3>2. TypeOK'
      BY <2>2, <3>1 DEF TypeOK, Call, Reply, Continue
    <3> QED
      BY <2>2, <3>1, <3>2, ReplyPreserves DEF Known, NoneShared, Shared
  <2>4. CASE status[p] = "none"
    <3>1. status' = [status EXCEPT ![p] = "pending"]
      BY <1>4, <2>4 DEF CreateFriendship
    <3>2. TypeOK'
      BY <2>2, <3>1 DEF TypeOK, Call, Reply, Continue
    <3>3. /\ call'[h].do = "idle"
          /\ \A g \in Handler : g # h => call'[g] = call[g]
      BY <2>2 DEF TypeOK, Reply, Continue, Idle
    <3>4. AskedAreUsers' /\ FriendsAreUsers'
      BY <2>1, <2>2, <3>1, <3>3 DEF AskedAreUsers, FriendsAreUsers, Known, TypeOK
    <3>5. OneAtWork'
      BY <2>2, <3>3 DEF OneAtWork, About
    <3>6. StillAsRead'
      <4> SUFFICES ASSUME NEW g \in Handler, g # h
                   PROVE  /\ call[g].do = "create_friendship"
                             /\ Users(call[g].pair) \notin crossed
                               => status'[call[g].pair] = "none"
                                  /\ status'[Mirror(call[g].pair)] = "none"
                          /\ call[g].do = "update_status" => status'[call[g].pair] # "none"
                          /\ call[g].do = "update_status"
                             /\ Users(call[g].pair) \notin crossed
                               => status'[call[g].pair] = "pending"
        BY <2>2, <3>3 DEF StillAsRead
      <4>1. call[g].do \in {"create_friendship", "update_status"} => call[g].pair \in Pair
        BY CallTypes
      <4>2. call[g].do = "create_friendship" /\ Users(call[g].pair) \notin crossed
              => call[g].pair # p /\ Mirror(call[g].pair) # p
        BY <2>1, <4>1, MirrorIsPair DEF OneAtWork, About
      <4> QED
        BY <3>1, <4>1, <4>2, MirrorIsPair DEF StillAsRead, TypeOK
    <3>7. OneFriendshipBetween'
      <4> SUFFICES ASSUME NEW q \in Pair, Users(q) \notin crossed
                   PROVE  status'[q] = "none" \/ status'[Mirror(q)] = "none"
        BY <2>2 DEF OneFriendshipBetween
      <4>1. CASE q # p /\ Mirror(q) # p
        BY <3>1, <4>1, MirrorIsPair DEF OneFriendshipBetween, TypeOK
      <4>2. CASE q = p \/ Mirror(q) = p
        <5>1. Users(p) \notin crossed /\ Mirror(p) # p
          BY <2>1, <4>2, MirrorIsPair DEF Pair, Mirror
        <5>2. status[Mirror(p)] = "none"
          BY <2>1, <5>1 DEF StillAsRead
        <5>3. status'[Mirror(p)] = "none"
          BY <2>1, <3>1, <5>1, <5>2, MirrorIsPair DEF TypeOK
        <5> QED
          BY <4>2, <5>3, MirrorIsPair
      <4> QED
        BY <4>1, <4>2
    <3> QED
      BY <2>2, <3>2, <3>4, <3>5, <3>6, <3>7 DEF NoneShared, Shared, Known
  <2> QED
    BY <2>3, <2>4
<1>5. ASSUME NEW h \in Handler, NEW p \in Pair, NEW accepted \in BOOLEAN,
             Respond(h, p, accepted)
      PROVE  IInv'
  <2>1. CASE Answerable(p)
    <3>1. /\ Free(h) /\ Continue(h, Answer(p, accepted)) /\ Cross(p)
          /\ UNCHANGED <<username, status>>
      BY <1>5, <2>1 DEF Respond
    <3>2. OneAtWork' /\ crossed \subseteq crossed'
      BY <3>1, CrossPreserves DEF Answer
    <3>3. TypeOK'
      BY <3>1 DEF TypeOK, Call, Continue, Answer, Cross
    <3>4. /\ call'[h] = Answer(p, accepted)
          /\ \A g \in Handler : g # h => call'[g] = call[g]
      BY <3>1 DEF TypeOK, Continue
    <3>5. StillAsRead'
      BY <2>1, <3>1, <3>2, <3>4 DEF StillAsRead, Answer, Answerable
    <3>6. AskedAreUsers' /\ FriendsAreUsers' /\ OneFriendshipBetween'
      BY <3>1, <3>2, <3>4
         DEF AskedAreUsers, FriendsAreUsers, OneFriendshipBetween, Known, Answer
    <3> QED
      BY <3>1, <3>2, <3>3, <3>5, <3>6 DEF NoneShared, Shared, Known
  <2>2. CASE ~Answerable(p)
    <3>1. Reply(h) /\ UNCHANGED <<username, status, crossed>>
      BY <1>5, <2>2 DEF Respond
    <3>2. TypeOK'
      BY <3>1 DEF TypeOK, Call, Reply, Continue
    <3> QED
      BY <3>1, <3>2, ReplyPreserves DEF Known, NoneShared, Shared
  <2> QED
    BY <2>1, <2>2
<1>6. ASSUME NEW h \in Handler, UpdateStatus(h) PROVE IInv'
  <2> DEFINE p == call[h].pair
  <2>1. call[h].do = "update_status" /\ p \in Pair /\ call[h].accepted \in BOOLEAN
    BY <1>6, CallTypes DEF UpdateStatus
  <2>2. /\ Reply(h) /\ UNCHANGED <<username, crossed>>
        /\ status' = [status EXCEPT ![p] = NewStatus(call[h].accepted)]
    BY <1>6 DEF UpdateStatus
  <2>3. /\ NewStatus(call[h].accepted) \in {"accepted", "declined"}
        /\ status[p] # "none"
    BY <2>1 DEF NewStatus, StillAsRead
  <2>4. \A q \in Pair : status'[q] = "none" <=> status[q] = "none"
    BY <2>1, <2>2, <2>3 DEF TypeOK
  <2>5. TypeOK'
    BY <2>1, <2>2, <2>3 DEF TypeOK, Call, Reply, Continue
  <2>6. /\ call'[h].do = "idle"
        /\ \A g \in Handler : g # h => call'[g] = call[g]
    BY <2>2 DEF TypeOK, Reply, Continue, Idle
  <2>7. AskedAreUsers' /\ FriendsAreUsers'
    BY <2>2, <2>4, <2>6 DEF AskedAreUsers, FriendsAreUsers, Known
  <2>8. OneAtWork'
    BY <2>2, <2>6 DEF OneAtWork, About
  <2>9. StillAsRead'
    <3> SUFFICES ASSUME NEW g \in Handler, g # h,
                        call[g].do \in {"create_friendship", "update_status"}
                 PROVE  /\ call[g].do = "create_friendship"
                           /\ Users(call[g].pair) \notin crossed
                             => status'[call[g].pair] = "none"
                                /\ status'[Mirror(call[g].pair)] = "none"
                        /\ call[g].do = "update_status" => status'[call[g].pair] # "none"
                        /\ call[g].do = "update_status"
                           /\ Users(call[g].pair) \notin crossed
                             => status'[call[g].pair] = "pending"
      BY <2>2, <2>6 DEF StillAsRead
    <3>1. call[g].pair \in Pair /\ Mirror(call[g].pair) \in Pair
      BY CallTypes, MirrorIsPair
    <3>2. Users(call[g].pair) \notin crossed => call[g].pair # p
      BY <2>1, <3>1 DEF OneAtWork, About
    <3> QED
      BY <2>1, <2>2, <2>4, <3>1, <3>2 DEF StillAsRead, TypeOK
  <2>10. OneFriendshipBetween'
    BY <2>2, <2>4, MirrorIsPair DEF OneFriendshipBetween
  <2> QED
    BY <2>2, <2>5, <2>7, <2>8, <2>9, <2>10 DEF NoneShared, Shared, Known
<1>7. ASSUME NEW h \in Handler, WriteFails(h) PROVE IInv'
  <2>1. Reply(h) /\ UNCHANGED <<username, status, crossed>>
    BY <1>7 DEF WriteFails
  <2>2. TypeOK'
    BY <2>1 DEF TypeOK, Call, Reply, Continue
  <2> QED
    BY <2>1, <2>2, ReplyPreserves DEF Known, NoneShared, Shared
<1>8. CASE UNCHANGED vars
  BY <1>8 DEF vars, TypeOK, FriendsAreUsers, AskedAreUsers, OneAtWork, About,
       StillAsRead, OneFriendshipBetween, NoneShared, Shared, Known
<1> QED
  BY <1>1, <1>2, <1>3, <1>4, <1>5, <1>6, <1>7, <1>8 DEF Next

-----------------------------------------------------------------------------

(* The invariant holds of every state any handlers can reach.              *)
THEOREM Invariance == Spec => []IInv
BY InitEstablishes, NextPreserves, PTL DEF Spec

(* The rows of both tables and what every handler has in hand keep their   *)
(* type, for any users, names and handlers.                                *)
THEOREM TypeCorrect == Spec => []TypeOK
<1>1. IInv => TypeOK
  BY DEF IInv
<1> QED
  BY <1>1, Invariance, PTL

(* Whichever of two users asks first, and however many other handlers are  *)
(* at work, they have one friendship between them unless handlers about    *)
(* the two of them were in flight together.                                *)
THEOREM FriendshipsAreSingle == Spec => []OneFriendshipBetween
<1>1. IInv => OneFriendshipBetween
  BY DEF IInv
<1> QED
  BY <1>1, Invariance, PTL

(* No handler, whatever others write meanwhile, changes or shares the      *)
(* username of a registered user: Register and its constraints at work.    *)
THEOREM NamesStay == Spec => FirstNameStays
<1>1. ASSUME IInv, [Next]_vars, NEW u \in Uid, Known(u)
      PROVE  username' = username
             \/ /\ username'[u] = username[u]
                /\ \A v \in Uid \ {u} : username'[v] # username[u]
  <2>1. ASSUME NEW h \in Handler, CreateUser(h)
        PROVE  username' = username
               \/ /\ username'[u] = username[u]
                  /\ \A v \in Uid \ {u} : username'[v] # username[u]
    <3>1. CASE ~TakesName(call[h].uid, call[h].name)
      BY <2>1, <3>1 DEF CreateUser
    <3>2. CASE TakesName(call[h].uid, call[h].name)
      <4>1. username' = [username EXCEPT ![call[h].uid] = call[h].name]
        BY <2>1, <3>2 DEF CreateUser
      <4>2. call[h].uid # u /\ call[h].name # username[u]
        BY <1>1, <3>2 DEF TakesName, Known
      <4>3. \A v \in Uid : username[v] = username[u] => v = u
        BY <1>1 DEF IInv, NoneShared, Shared
      <4> QED
        BY <1>1, <4>1, <4>2, <4>3 DEF IInv, TypeOK
    <3> QED
      BY <3>1, <3>2
  <2> QED
    BY <1>1, <2>1 DEF Next, vars, Register, Request, CreateFriendship, Respond,
         UpdateStatus, WriteFails
<1>2. IInv /\ [Next]_vars =>
        [\A u \in Uid : Known(u) =>
           /\ username'[u] = username[u]
           /\ \A v \in Uid \ {u} : username'[v] # username[u]]_vars
  BY <1>1 DEF IInv, NoneShared, Shared
<1> QED
  BY <1>2, Invariance, PTL DEF Spec, FirstNameStays

(* An answer to a friend request is final, however many handlers run,      *)
(* unless handlers about the two users were in flight together.            *)
THEOREM AnswersStand == Spec => AnswerStands
<1>1. ASSUME IInv, [Next]_vars, NEW p \in Pair, Users(p) \notin crossed',
             status[p] \in {"accepted", "declined"}
      PROVE  status'[p] = status[p]
  <2>1. ASSUME NEW h \in Handler, UpdateStatus(h) PROVE status'[p] = status[p]
    <3>1. call[h].pair \in Pair /\ call[h].pair # p
      BY <1>1, <2>1, CallTypes DEF IInv, UpdateStatus, StillAsRead
    <3> QED
      BY <1>1, <2>1, <3>1 DEF IInv, UpdateStatus, TypeOK
  <2>2. ASSUME NEW h \in Handler, CreateFriendship(h) PROVE status'[p] = status[p]
    BY <1>1, <2>2 DEF IInv, CreateFriendship, TypeOK
  <2> QED
    BY <1>1, <2>1, <2>2 DEF Next, vars, Register, CreateUser, Request, Respond, WriteFails
<1>2. IInv /\ [Next]_vars =>
        [\A p \in Pair :
           Users(p) \notin crossed' /\ status[p] \in {"accepted", "declined"}
             => status'[p] = status[p]]_vars
  BY <1>1
<1> QED
  BY <1>2, Invariance, PTL DEF Spec, AnswerStands

=============================================================================
