----------------------------- MODULE HubProofs -----------------------------
(***************************************************************************)
(* What is proved of Hub for any users, connections and friendships.       *)
(***************************************************************************)
EXTENDS Hub, TLAPS

(* Channels are closed by the unregistration of their own client only, so  *)
(* they are open until then.                                               *)
OpenUntilLetGo == \A c \in Conn : stage[c] \in {"new", "reading", "leaving"} => open[c]

IInv ==
  /\ TypeOK
  /\ EntryIsConnected
  /\ OpenUntilLetGo
  /\ CastsAndRepliesAreSafe
  /\ ShownInMatchIsPlaying

LEMMA InitEstablishes == Init => IInv
<1> SUFFICES ASSUME Init PROVE IInv
  OBVIOUS
<1>1. TypeOK
  BY HubAssumption DEF Init, TypeOK
<1> QED
  BY <1>1 DEF Init, IInv, EntryIsConnected, OpenUntilLetGo, CastsAndRepliesAreSafe,
       ShownInMatchIsPlaying, Presence

(* A message offered to a channel keeps it within its capacity.            *)
LEMMA OfferedFits == ASSUME NEW n \in 0..SendCap PROVE Offered(n) \in 0..SendCap
BY HubAssumption DEF Offered

LEMMA NextPreserves == IInv /\ [Next]_vars => IInv'
<1> SUFFICES ASSUME IInv, [Next]_vars PROVE IInv'
  OBVIOUS
<1>0. /\ SendCap \in Nat /\ NoConn \notin Conn
      /\ \A c \in Conn : Owner[c] \in User
  BY HubAssumption
<1> USE <1>0 DEF IInv, CastAbout
<1>1. ASSUME NEW c \in Conn, Register(c) PROVE IInv'
  <2>1. TypeOK'
    BY <1>1 DEF Register, TypeOK
  <2>2. EntryIsConnected' /\ OpenUntilLetGo'
    BY <1>1 DEF Register, TypeOK, EntryIsConnected, OpenUntilLetGo
  <2>3. ShownInMatchIsPlaying'
    BY <1>1 DEF Register, TypeOK, ShownInMatchIsPlaying, Presence
  <2> QED
    BY <1>1, <2>1, <2>2, <2>3 DEF Register, CastsAndRepliesAreSafe
<1>2. ASSUME NEW c \in Conn, Unregister(c) PROVE IInv'
  <2> DEFINE u == Owner[c]
  <2>1. CASE entry[u] # NoConn
    <3>1. TypeOK'
      <4>1. open' \in [Conn -> BOOLEAN]
        BY <1>2, <2>1 DEF Unregister, Closing, TypeOK
      <4>2. entry' \in [User -> Conn \cup {NoConn}]
        BY <1>2, <2>1 DEF Unregister, Forget, TypeOK
      <4>3. casts' \in [User -> Nat]
        BY <1>2 DEF Unregister, TypeOK
      <4> QED
        BY <1>2, <4>1, <4>2, <4>3 DEF Unregister, TypeOK
    <3>2. EntryIsConnected'
      BY <1>2, <2>1 DEF Unregister, Forget, TypeOK, EntryIsConnected
    <3>3. OpenUntilLetGo'
      BY <1>2, <2>1 DEF Unregister, Closing, TypeOK, OpenUntilLetGo
    <3>4. ShownInMatchIsPlaying'
      BY <1>2, <2>1 DEF Unregister, Forget, TypeOK, ShownInMatchIsPlaying, Presence
    <3> QED
      BY <1>2, <3>1, <3>2, <3>3, <3>4 DEF Unregister, CastsAndRepliesAreSafe
  <2>2. CASE entry[u] = NoConn
    <3>1. TypeOK'
      BY <1>2, <2>2 DEF Unregister, TypeOK
    <3>2. EntryIsConnected' /\ OpenUntilLetGo'
      BY <1>2, <2>2 DEF Unregister, TypeOK, EntryIsConnected, OpenUntilLetGo
    <3> QED
      BY <1>2, <2>2, <3>1, <3>2 DEF Unregister, CastsAndRepliesAreSafe, ShownInMatchIsPlaying, Presence
  <2> QED
    BY <2>1, <2>2
<1>3. ASSUME NEW c \in Conn, ReadAndReply(c) PROVE IInv'
  <2>1. open[c]
    BY <1>3 DEF ReadAndReply, OpenUntilLetGo
  <2>2. queued' = [queued EXCEPT ![c] = Offered(@)] /\ UNCHANGED panic
    BY <1>3, <2>1 DEF ReadAndReply
  <2>3. queued' \in [Conn -> 0..SendCap]
    BY <2>2, OfferedFits DEF TypeOK
  <2> QED
    BY <1>3, <2>2, <2>3 DEF ReadAndReply, TypeOK, EntryIsConnected, OpenUntilLetGo,
         CastsAndRepliesAreSafe, ShownInMatchIsPlaying, Presence
<1>4. ASSUME NEW c \in Conn, ReaderStops(c) \/ HandlerReturns(c) PROVE IInv'
  <2>1. TypeOK'
    BY <1>4 DEF ReaderStops, HandlerReturns, TypeOK
  <2>2. EntryIsConnected' /\ OpenUntilLetGo'
    BY <1>4 DEF ReaderStops, HandlerReturns, TypeOK, EntryIsConnected, OpenUntilLetGo
  <2> QED
    BY <1>4, <2>1, <2>2 DEF ReaderStops, HandlerReturns, CastsAndRepliesAreSafe,
         ShownInMatchIsPlaying, Presence
<1>5. ASSUME NEW c \in Conn,
             Write(c) \/ WriterStops(c) \/ PingerStops(c) \/ WireBreaks(c)
      PROVE  IInv'
  <2>1. queued' \in [Conn -> 0..SendCap]
    <3>1. CASE Write(c)
      BY <3>1 DEF Write, TypeOK
    <3>2. CASE WriterStops(c) \/ PingerStops(c) \/ WireBreaks(c)
      BY <3>2 DEF WriterStops, PingerStops, WireBreaks, TypeOK
    <3> QED
      BY <1>5, <3>1, <3>2
  <2>2. TypeOK'
    BY <1>5, <2>1 DEF Write, WriterStops, PingerStops, WireBreaks, TypeOK
  <2> QED
    BY <1>5, <2>2 DEF Write, WriterStops, PingerStops, WireBreaks, EntryIsConnected,
         OpenUntilLetGo, CastsAndRepliesAreSafe, ShownInMatchIsPlaying, Presence
<1>6. ASSUME NEW c \in Conn, Ping(c) PROVE IInv'
  <2>1. queued' \in [Conn -> 0..SendCap] /\ panic' \in {"ping", panic}
    BY <1>6, OfferedFits DEF Ping, TypeOK
  <2> QED
    BY <1>6, <2>1 DEF Ping, TypeOK, EntryIsConnected, OpenUntilLetGo,
         CastsAndRepliesAreSafe, ShownInMatchIsPlaying, Presence
<1>7. ASSUME NEW u \in User, DeliverCast(u) PROVE IInv'
  <2>1. \A c \in Listeners(u) : open[c]
    BY DEF Listeners, EntryIsConnected, OpenUntilLetGo
  <2>2. /\ queued' = [c \in Conn |-> IF c \in Listeners(u) THEN Offered(queued[c])
                                                           ELSE queued[c]]
        /\ UNCHANGED panic
    BY <1>7, <2>1 DEF DeliverCast
  <2>3. queued' \in [Conn -> 0..SendCap]
    BY <2>2, OfferedFits DEF TypeOK
  <2>4. casts' \in [User -> Nat]
    BY <1>7 DEF DeliverCast, TypeOK
  <2>5. UNCHANGED <<stage, wire, writer, pinger, open, entry, inMatch, playing, panic>>
    BY <1>7, <2>2 DEF DeliverCast
  <2>6. TypeOK'
    BY <2>3, <2>4, <2>5 DEF TypeOK
  <2> QED
    BY <2>5, <2>6 DEF EntryIsConnected, OpenUntilLetGo, CastsAndRepliesAreSafe,
         ShownInMatchIsPlaying, Presence
<1>8. ASSUME NEW u \in User, PlayStarts(u) \/ PlayEnds(u) PROVE IInv'
  <2>1. UNCHANGED <<stage, wire, writer, pinger, open, queued, entry, panic>>
    BY <1>8 DEF PlayStarts, PlayEnds
  <2>2. inMatch' \in [User -> BOOLEAN] /\ playing' \in [User -> BOOLEAN]
    <3>1. inMatch \in [User -> BOOLEAN] /\ playing \in [User -> BOOLEAN]
      BY DEF TypeOK
    <3>2. CASE PlayStarts(u)
      BY <3>1, <3>2 DEF PlayStarts, Mark
    <3>3. CASE PlayEnds(u)
      BY <3>1, <3>3 DEF PlayEnds, Mark, ClearMark
    <3> QED
      BY <1>8, <3>2, <3>3
  <2>3. casts' \in [User -> Nat]
    <3>1. casts' = [casts EXCEPT ![u] = @ + 1]
      BY <1>8 DEF PlayStarts, PlayEnds
    <3> QED
      BY <3>1 DEF TypeOK
  <2>4. TypeOK'
    BY <2>1, <2>2, <2>3 DEF TypeOK
  <2>5. ASSUME NEW v \in User, entry[v] # NoConn, inMatch'[v] PROVE playing'[v]
    <3>1. entry[v] # NoConn /\ inMatch[v] => playing[v]
      BY DEF ShownInMatchIsPlaying, Presence
    <3>2. CASE PlayStarts(u)
      BY <2>5, <3>1, <3>2 DEF PlayStarts, Mark, TypeOK
    <3>3. CASE PlayEnds(u)
      BY <2>5, <3>1, <3>3 DEF PlayEnds, Mark, ClearMark, TypeOK
    <3> QED
      BY <1>8, <3>2, <3>3
  <2>6. ShownInMatchIsPlaying'
    BY <2>1, <2>5 DEF ShownInMatchIsPlaying, Presence
  <2> QED
    BY <2>1, <2>4, <2>6 DEF EntryIsConnected, OpenUntilLetGo, CastsAndRepliesAreSafe
<1>9. CASE UNCHANGED vars
  BY <1>9 DEF vars, TypeOK, EntryIsConnected, OpenUntilLetGo, CastsAndRepliesAreSafe,
       ShownInMatchIsPlaying, Presence
<1> QED
  BY <1>1, <1>2, <1>3, <1>4, <1>5, <1>6, <1>7, <1>8, <1>9
     DEF Next, ConnStep, UserStep, Stopped

(* IInv is an invariant of the specification.                              *)
THEOREM Invariance == Spec => []IInv
<1>1. Init => IInv
  BY InitEstablishes
<1>2. IInv /\ [Next]_vars => IInv'
  BY NextPreserves
<1> QED
  BY <1>1, <1>2, PTL DEF Spec

(* Every variable keeps its type: an entry of h.clients is a connection or  *)
(* nothing, and a connection and a user's session are where the code can   *)
(* be, for any users and connections.                                      *)
THEOREM TypeCorrect == Spec => []TypeOK
BY Invariance, PTL DEF IInv

(* The hub never keeps an entry for a client it has let go of.             *)
THEOREM EntriesAreConnected == Spec => []EntryIsConnected
BY Invariance, PTL DEF IInv

(* No presence broadcast ever sends on a channel the hub closed, and no    *)
(* readPump replies on its own when it is.                                 *)
THEOREM NeitherCastsNorRepliesPanic == Spec => []CastsAndRepliesAreSafe
BY Invariance, PTL DEF IInv

(* A user shown as in a match is playing one.                              *)
THEOREM MatchMarksAreTrue == Spec => []ShownInMatchIsPlaying
BY Invariance, PTL DEF IInv

-----------------------------------------------------------------------------
(* The hub implements Registry.                                            *)

Phases == [c \in Conn |-> Phase(c)]
Closed == [c \in Conn |-> ~open[c]]

(* Steps that neither let a connection in nor let one go.                  *)
LEMMA OthersStutter ==
  ASSUME TypeOK, [Next]_vars,
         ~\E c \in Conn : Register(c) \/ Unregister(c)
  PROVE  UNCHANGED <<Phases, entry, Closed>>
<1>1. ASSUME NEW c \in Conn,
             \/ ReadAndReply(c) \/ Write(c) \/ WriterStops(c)
             \/ Ping(c) \/ PingerStops(c) \/ WireBreaks(c)
      PROVE  UNCHANGED <<stage, entry, open>>
  BY <1>1 DEF ReadAndReply, Write, WriterStops, Ping, PingerStops, WireBreaks
<1>2. ASSUME NEW u \in User, UserStep(u) PROVE UNCHANGED <<stage, entry, open>>
  BY <1>2 DEF UserStep, DeliverCast, PlayStarts, PlayEnds
<1>3. ASSUME NEW c \in Conn, ReaderStops(c) \/ HandlerReturns(c)
      PROVE  UNCHANGED <<Phases, entry, Closed>>
  <2>1. ASSUME NEW d \in Conn PROVE Phase(d)' = Phase(d)
    <3>1. \/ stage'[d] = stage[d]
          \/ (stage[d] = "reading" /\ stage'[d] = "leaving")
          \/ (stage[d] = "closing" /\ stage'[d] = "gone")
      BY <1>3 DEF ReaderStops, HandlerReturns, TypeOK
    <3> QED
      BY <3>1 DEF Phase
  <2> QED
    BY <1>3, <2>1 DEF ReaderStops, HandlerReturns, Phases, Closed
<1>4. UNCHANGED <<stage, entry, open>> => UNCHANGED <<Phases, entry, Closed>>
  BY DEF Phases, Phase, Closed
<1> QED
  BY <1>1, <1>2, <1>3, <1>4 DEF Next, ConnStep, Stopped, vars

LEMMA Joins ==
  ASSUME TypeOK, NEW c \in Conn, Register(c)
  PROVE  Connections!Join(c)
<1>1. stage[c] = "new" /\ stage'[c] = "reading"
  BY DEF Register, TypeOK
<1>2. Phase(c) = "new" /\ Phase(c)' = "joined"
  BY <1>1 DEF Phase
<1>3. \A d \in Conn : d # c => Phase(d)' = Phase(d)
  BY DEF Register, TypeOK, Phase
<1>4. Phases[c] = "new" /\ Phases' = [Phases EXCEPT ![c] = "joined"]
  BY <1>2, <1>3 DEF Phases
<1> QED
  BY <1>4 DEF Register, Connections!Join, Phases

(* It is here that it matters that only a connection's own leaving closes  *)
(* its channels: one without an entry leaves with its channels open.       *)
LEMMA LeavesOnce ==
  ASSUME TypeOK, OpenUntilLetGo, NEW c \in Conn, Unregister(c)
  PROVE  Connections!Leave(c)
<1> DEFINE u == Owner[c]
<1>0. u \in User
  BY HubAssumption
<1>1. stage[c] = "leaving" /\ stage'[c] = "closing" /\ open[c]
  BY DEF Unregister, TypeOK, OpenUntilLetGo
<1>2. Phase(c) = "joined" /\ Phase(c)' = "left"
  BY <1>1 DEF Phase
<1>3. \A d \in Conn : d # c => Phase(d)' = Phase(d)
  BY DEF Unregister, TypeOK, Phase
<1>4. Phases[c] = "joined" /\ Phases' = [Phases EXCEPT ![c] = "left"]
  BY <1>2, <1>3 DEF Phases
<1>5. entry' = [entry EXCEPT ![u] = NoConn]
  <2>1. CASE entry[u] # NoConn
    BY <2>1 DEF Unregister, Forget
  <2>2. CASE entry[u] = NoConn
    BY <1>0, <2>2 DEF Unregister, TypeOK
  <2> QED
    BY <2>1, <2>2
<1>6. Closed' = [Closed EXCEPT ![c] = entry[u] # NoConn]
  <2>1. \A d \in Conn : d # c => open'[d] = open[d]
    BY DEF Unregister, Closing, TypeOK
  <2>2. open'[c] = (entry[u] = NoConn)
    BY <1>1 DEF Unregister, Closing, TypeOK
  <2> QED
    BY <2>1, <2>2 DEF Closed
<1> QED
  BY <1>4, <1>5, <1>6 DEF Connections!Leave, Phases, Closed

(* Whatever its goroutines do in between, the hub lets connections in and  *)
(* lets them go as Registry says, which is what other parts rely on.       *)
THEOREM HubImplementsRegistry == Spec => ImplementsRegistry
<1>1. Init => Connections!Init
  <2> SUFFICES ASSUME Init PROVE Connections!Init
    OBVIOUS
  <2>1. Phases = [c \in Conn |-> "new"] /\ Closed = [c \in Conn |-> FALSE]
    BY DEF Init, Phases, Phase, Closed
  <2> QED
    BY <2>1 DEF Init, Connections!Init, Phases, Closed
<1>2. IInv /\ [Next]_vars => [Connections!Next]_Connections!vars
  <2> SUFFICES ASSUME IInv, [Next]_vars PROVE [Connections!Next]_Connections!vars
    OBVIOUS
  <2>1. ASSUME NEW c \in Conn, Register(c) PROVE Connections!Next
    BY <2>1, Joins DEF IInv, Connections!Next
  <2>2. ASSUME NEW c \in Conn, Unregister(c) PROVE Connections!Next
    BY <2>2, LeavesOnce DEF IInv, Connections!Next
  <2>3. CASE ~\E c \in Conn : Register(c) \/ Unregister(c)
    <3>1. UNCHANGED <<Phases, entry, Closed>>
      BY <2>3, OthersStutter DEF IInv
    <3> QED
      BY <3>1 DEF Connections!vars, Phases, Closed
  <2> QED
    BY <2>1, <2>2, <2>3
<1> QED
  BY <1>1, <1>2, Invariance, PTL DEF Spec, ImplementsRegistry, Connections!Spec

=============================================================================
