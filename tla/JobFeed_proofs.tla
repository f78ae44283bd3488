----------------------------- MODULE JobFeed_proofs -----------------------------
(* What a browser tab shows of a job, for every size of a subscriber's queue, *)
(* every number of writes and every number of faults.                         *)
EXTENDS JobFeed, TLAPS

\* A transaction that claims holds a pending row.
ClaimInv == txPc # "none" /\ txTo = "running" => status = "pending"

\* Nobody polls for a job that is not there.
LoopInv == loop \in {"wait", "asked"} => status # "none"

\* Without Redis nothing is published there, and the worker writes nothing.
ChannelInv == ~useQueue => redis = <<>> /\ bridge = "off" /\ txPc # "redis" /\ txBy = "web"

\* The row has ended, or the transaction that ends it is open.
EndKnown == status \in Ended \/ (txPc # "none" /\ txTo \in Ended)

\* No announcement of an end is on its way before there is one.
NoEnd(s) == \A i \in 1..Len(s) : s[i] \notin Ended

EndInv ==
  ~missed /\ ~EndKnown => shown \notin Ended /\ NoEnd(redis) /\ NoEnd(queue)

\* The last status in a sequence of messages, of which steps say nothing.
LastIs(s, x) == \E i \in 1..Len(s) : s[i] = x /\ \A j \in (i + 1)..Len(s) : s[j] = "step"
NoWord(s) == \A i \in 1..Len(s) : s[i] = "step"

\* What the tab will show when all that is on its way has arrived.
WillShow(x) ==
  \/ LastIs(redis, x)
  \/ NoWord(redis) /\ (LastIs(queue, x) \/ (NoWord(queue) /\ shown = x))

WordInv ==
  ~missed =>
    /\ txPc = "none" /\ status \in Ended => WillShow(status)
    /\ txPc = "commit" /\ txTo \in Ended => WillShow(txTo)

\* The inductive invariant.
FeedInv == TypeOK /\ ClaimInv /\ LoopInv /\ ChannelInv /\ EndInv /\ WordInv

-------------------------------------------------------------------------------
(* Sequences of messages.                                                     *)

LEMMA AppendWord ==
  ASSUME NEW s \in Seq(Messages), NEW m \in Messages
  PROVE  LastIs(Append(s, m), m)
<1>1. Append(s, m)[Len(Append(s, m))] = m /\ Len(Append(s, m)) \in Nat \ {0}
  OBVIOUS
<1>2. QED
  BY <1>1 DEF LastIs

LEMMA AppendStep ==
  ASSUME NEW s \in Seq(Messages), NEW x
  PROVE  /\ LastIs(s, x) => LastIs(Append(s, "step"), x)
         /\ NoWord(s) => NoWord(Append(s, "step"))
<1>1. Len(Append(s, "step")) = Len(s) + 1 /\ Len(s) \in Nat
  OBVIOUS
<1>2. \A i \in 1..Len(s) : Append(s, "step")[i] = s[i]
  OBVIOUS
<1>3. Append(s, "step")[Len(s) + 1] = "step"
  OBVIOUS
<1>4. ASSUME NEW i \in 1..Len(s), s[i] = x, \A j \in (i + 1)..Len(s) : s[j] = "step"
      PROVE  \A j \in (i + 1)..(Len(s) + 1) : Append(s, "step")[j] = "step"
  BY <1>1, <1>2, <1>3, <1>4
<1>5. LastIs(s, x) => LastIs(Append(s, "step"), x)
  BY <1>1, <1>2, <1>4 DEF LastIs
<1>6. NoWord(s) => NoWord(Append(s, "step"))
  BY <1>1, <1>2, <1>3 DEF NoWord
<1>7. QED
  BY <1>5, <1>6

\* The first message is handled: it was the last status, or that is still to come.
LEMMA TailWord ==
  ASSUME NEW s \in Seq(Messages), s # <<>>, NEW x
  PROVE  /\ LastIs(s, x) => LastIs(Tail(s), x) \/ (Head(s) = x /\ NoWord(Tail(s)))
         /\ NoWord(s) => Head(s) = "step" /\ NoWord(Tail(s))
<1>1. Len(s) \in Nat \ {0} /\ Len(Tail(s)) = Len(s) - 1 /\ Head(s) = s[1]
  OBVIOUS
<1>2. \A i \in 1..(Len(s) - 1) : Tail(s)[i] = s[i + 1]
  OBVIOUS
<1>3. ASSUME NEW i \in 1..Len(s), s[i] = x, \A j \in (i + 1)..Len(s) : s[j] = "step"
      PROVE  LastIs(Tail(s), x) \/ (Head(s) = x /\ NoWord(Tail(s)))
  <2>1. CASE i = 1
    BY <1>1, <1>2, <1>3, <2>1 DEF NoWord
  <2>2. CASE i # 1
    <3>1. i - 1 \in 1..Len(Tail(s)) /\ Tail(s)[i - 1] = x
      BY <1>1, <1>2, <1>3, <2>2
    <3>2. \A j \in i..Len(Tail(s)) : Tail(s)[j] = "step"
      BY <1>1, <1>2, <1>3, <2>2
    <3>3. QED
      BY <3>1, <3>2 DEF LastIs
  <2>3. QED
    BY <2>1, <2>2
<1>4. NoWord(s) => Head(s) = "step" /\ NoWord(Tail(s))
  BY <1>1, <1>2 DEF NoWord
<1>5. QED
  BY <1>3, <1>4 DEF LastIs

LEMMA EndsMoved ==
  ASSUME NEW s \in Seq(Messages), NoEnd(s)
  PROVE  /\ \A m \in Messages : m \notin Ended => NoEnd(Append(s, m))
         /\ s # <<>> => Head(s) \notin Ended /\ NoEnd(Tail(s))
  BY DEF NoEnd

LEMMA EmptySays == NoWord(<<>>) /\ NoEnd(<<>>) /\ \A x : ~LastIs(<<>>, x)
  BY DEF NoWord, NoEnd, LastIs

-------------------------------------------------------------------------------
(* Types and the open transaction.                                            *)

LEMMA TypesKept == ASSUME TypeOK, LoopInv, [Next]_vars PROVE TypeOK'
<1> USE FeedAssumption DEF TypeOK, Messages, Active, Ended
<1>1. ASSUME NEW m \in Messages, Broadcast(m)
      PROVE  queue' \in Seq(Messages) /\ Len(queue') <= QueueLimit
  BY <1>1 DEF Broadcast, Accepts
<1>2. CASE Insert
  BY <1>2 DEF Insert, txVars, hubVars, pollVars
<1>3. CASE FlushAgain
  <2>1. txPc' \in {"none", "local", "redis", "commit"} /\ txTo' = "failed" /\ txLeft' \in 1..2
    <3>1. txTo' = "failed" /\ txPc' = Announce(txBy) /\ txLeft' = Announcements("failed")
      BY <1>3 DEF FlushAgain
    <3>2. QED
      BY <3>1 DEF Announce, Announcements
  <2>2. moves' \in 0..MaxMoves /\ missed' \in BOOLEAN
    <3>1. moves < MaxMoves /\ moves' = moves + 1
      BY <1>3 DEF FlushAgain
    <3>2. missed' \in BOOLEAN
      BY <1>3, Zenon DEF FlushAgain
    <3>3. QED
      BY <3>1, <3>2
  <2>3. UNCHANGED <<useQueue, status, txBy, sock, shown, faults, redis, bridge, queue>>
    BY <1>3 DEF FlushAgain, hubVars
  <2>4. UNCHANGED <<query, answer, loop, loopAnswer, panel>>
    BY <1>3 DEF FlushAgain, pollVars
  <2>5. QED
    BY <2>1, <2>2, <2>3, <2>4
<1>4. CASE Commit
  BY <1>4 DEF Commit, EndTransaction, hubVars, pollVars
<1>5. ASSUME NEW by \in {"web", "worker"}, PublishStep(by) PROVE TypeOK'
  <2>1. queue' \in Seq(Messages) /\ Len(queue') <= QueueLimit
    BY <1>1, <1>5 DEF PublishStep
  <2>2. redis' \in Seq(Messages)
    BY <1>5 DEF PublishStep
  <2>3. QED
    BY <1>5, <2>1, <2>2 DEF PublishStep, txVars, pollVars
<1>6. ASSUME NEW by \in {"web", "worker"}, NEW to \in {"running"} \cup Ended, Flush(by, to)
      PROVE  TypeOK'
  BY <1>6 DEF Flush, Announce, Announcements, hubVars, pollVars
<1>7. CASE PublishLocal
  <2>1. queue' \in Seq(Messages) /\ Len(queue') <= QueueLimit
    BY <1>1, <1>7 DEF PublishLocal
  <2>2. txPc' \in {"local", "redis", "commit"} /\ txLeft' \in 1..2
    BY <1>7 DEF PublishLocal, NextAnnouncement, Announce
  <2>3. missed' \in BOOLEAN
    BY <1>7 DEF PublishLocal
  <2>4. QED
    BY <1>7, <2>1, <2>2, <2>3 DEF PublishLocal, pollVars
<1>8. CASE PublishRedis
  <2>1. redis' \in Seq(Messages)
    BY <1>8 DEF PublishRedis
  <2>2. QED
    BY <1>8, <2>1 DEF PublishRedis, NextAnnouncement, Announce, pollVars
<1>9. CASE BridgeStarted
  BY <1>9 DEF BridgeStarted, txVars, pollVars
<1>10. CASE BridgeForward
  <2>1. queue' \in Seq(Messages) /\ Len(queue') <= QueueLimit
    BY <1>1, <1>10 DEF BridgeForward
  <2>2. redis' \in Seq(Messages)
    BY <1>10 DEF BridgeForward
  <2>3. QED
    BY <1>10, <2>1, <2>2 DEF BridgeForward, txVars, pollVars
<1>11. CASE Connect \/ Subscribe
  BY <1>11 DEF Connect, Subscribe, txVars, hubVars, pollVars
<1>12. CASE Receive
  <2>1. queue' \in Seq(Messages) /\ Len(queue') <= QueueLimit /\ Head(queue) \in Messages
    BY <1>12 DEF Receive
  <2>2. shown' \in {None} \cup Active \cup Ended /\ missed' \in BOOLEAN
    BY <1>12, <2>1 DEF Receive, UpdateStep, Patch
  <2>3. QED
    BY <1>12, <2>1, <2>2 DEF Receive, txVars, pollVars
<1>13. CASE QueryAsk
  BY <1>13 DEF QueryAsk, txVars, hubVars
<1>14. CASE QueryAnswer
  BY <1>14 DEF QueryAnswer, txVars, hubVars
<1>15. CASE Register
  BY <1>15 DEF Register, Overwrite, txVars, hubVars
<1>16. CASE LoopAsk \/ LoopGivesUp
  BY <1>16 DEF LoopInv, LoopAsk, LoopGivesUp, txVars, hubVars
<1>17. CASE LoopAnswer
  BY <1>17 DEF LoopAnswer, Overwrite, txVars, hubVars
<1>18. CASE PanelAsk
  BY <1>18 DEF PanelAsk, txVars, hubVars
<1>19. CASE PanelAnswer
  BY <1>19 DEF PanelAnswer, Overwrite, txVars, hubVars
<1>20. CASE RedisFails
  BY <1>20 DEF RedisFails, Fault, NextAnnouncement, Announce, hubVars, pollVars
<1>21. CASE Rollback
  BY <1>21 DEF Rollback, Fault, EndTransaction, hubVars, pollVars
<1>22. CASE BridgeCrash
  <2>1. faults' \in 0..MaxFaults /\ redis' = <<>> /\ bridge' = "off" /\ missed' \in BOOLEAN
    BY <1>22 DEF BridgeCrash, Fault
  <2>2. QED
    BY <1>22, <2>1 DEF BridgeCrash, txVars, pollVars
<1>23. CASE Disconnect
  <2>1. faults' \in 0..MaxFaults /\ queue' = <<>> /\ sock' = "closed" /\ missed' \in BOOLEAN
    BY <1>23 DEF Disconnect, Fault
  <2>2. QED
    BY <1>23, <2>1 DEF Disconnect, txVars, pollVars
<1>24. CASE Reload
  <2>1. faults' \in 0..MaxFaults /\ queue' = <<>> /\ sock' = "closed" /\ missed' \in BOOLEAN
    BY <1>24 DEF Reload, Fault
  <2>2. /\ query' = "new" /\ answer' = None /\ loopAnswer' = None /\ panel' = None
        /\ loop' \in {"off", "new", "wait", "asked", "done", "gaveup"}
    BY <1>24 DEF Reload
  <2>3. QED
    BY <1>24, <2>1, <2>2 DEF Reload, txVars
<1>25. CASE UNCHANGED vars
  BY <1>25 DEF vars, txVars, hubVars, pollVars
<1>26. QED
  BY <1>2, <1>3, <1>4, <1>5, <1>6, <1>7, <1>8, <1>9, <1>10, <1>11, <1>12, <1>13, <1>14, <1>15,
     <1>16, <1>17, <1>18, <1>19, <1>20, <1>21, <1>22, <1>23, <1>24, <1>25
  DEF Next, Write, Transport, Tab, Faults


LEMMA RulesKept ==
  ASSUME TypeOK, ClaimInv, LoopInv, ChannelInv, [Next]_vars
  PROVE  ClaimInv' /\ LoopInv' /\ ChannelInv'
<1> USE DEF ClaimInv, LoopInv, ChannelInv, TypeOK, Active, Ended
<1>1. CASE Insert
  BY <1>1 DEF Insert, txVars, hubVars, pollVars
<1>2. CASE FlushAgain
  <2>1. /\ txPc' = Announce(txBy) /\ txTo' = "failed"
        /\ UNCHANGED <<useQueue, status, txBy, loop, redis, bridge>>
    BY <1>2 DEF FlushAgain, hubVars, pollVars
  <2>2. QED
    BY <2>1 DEF Announce
<1>3. CASE Commit
  BY <1>3 DEF Commit, EndTransaction, hubVars, pollVars
<1>4. ASSUME NEW by \in {"web", "worker"}, PublishStep(by)
      PROVE  ClaimInv' /\ LoopInv' /\ ChannelInv'
  BY <1>4 DEF PublishStep, txVars, pollVars
<1>5. ASSUME NEW by \in {"web", "worker"}, NEW to \in {"running"} \cup Ended, Flush(by, to)
      PROVE  ClaimInv' /\ LoopInv' /\ ChannelInv'
  <2>1. /\ txPc' = Announce(by) /\ txBy' = by /\ txTo' = to /\ MayWrite(by, to)
        /\ by = "worker" => useQueue
        /\ UNCHANGED <<useQueue, status, redis, bridge, loop>>
    BY <1>5 DEF Flush, hubVars, pollVars
  <2>2. to = "running" => status = "pending"
    BY <2>1 DEF MayWrite
  <2>3. QED
    BY <2>1, <2>2 DEF Announce
<1>6. CASE PublishLocal
  BY <1>6 DEF PublishLocal, NextAnnouncement, Announce, pollVars
<1>7. CASE PublishRedis \/ RedisFails
  BY <1>7 DEF PublishRedis, RedisFails, NextAnnouncement, Announce, hubVars, pollVars
<1>8. CASE BridgeStarted \/ BridgeForward \/ BridgeCrash
  BY <1>8 DEF BridgeStarted, BridgeForward, BridgeCrash, txVars, pollVars
<1>9. CASE Connect \/ Subscribe \/ Disconnect
  BY <1>9 DEF Connect, Subscribe, Disconnect, txVars, hubVars, pollVars
<1>10. CASE Receive \/ QueryAsk \/ QueryAnswer
  BY <1>10 DEF Receive, QueryAsk, QueryAnswer, txVars, hubVars, pollVars
<1>11. CASE Register \/ LoopAsk \/ LoopAnswer \/ LoopGivesUp
  BY <1>11 DEF Register, LoopAsk, LoopAnswer, LoopGivesUp, txVars, hubVars
<1>12. CASE PanelAsk \/ PanelAnswer
  BY <1>12 DEF PanelAsk, PanelAnswer, txVars, hubVars
<1>13. CASE Rollback
  BY <1>13 DEF Rollback, EndTransaction, hubVars, pollVars
<1>14. CASE Reload
  BY <1>14 DEF Reload, txVars
<1>15. CASE UNCHANGED vars
  BY <1>15 DEF vars, txVars, hubVars, pollVars
<1>16. QED
  BY <1>1, <1>2, <1>3, <1>4, <1>5, <1>6, <1>7, <1>8, <1>9, <1>10, <1>11, <1>12, <1>13, <1>14, <1>15
  DEF Next, Write, Transport, Tab, Faults

-------------------------------------------------------------------------------
(* What is on its way and what is shown.                                      *)

LEMMA EndsKept ==
  ASSUME TypeOK, ClaimInv, EndInv, [Next]_vars
  PROVE  EndInv'
<1> SUFFICES ASSUME ~missed', ~EndKnown'
             PROVE  shown' \notin Ended /\ NoEnd(redis') /\ NoEnd(queue')
  BY DEF EndInv, NoEnd
<1>t. /\ redis \in Seq(Messages) /\ queue \in Seq(Messages) /\ "step" \notin Ended
      /\ Ended \subseteq Messages /\ "step" \in Messages /\ txTo \in Messages
  BY DEF TypeOK, Messages, Active, Ended
<1>a. ASSUME NEW m \in Messages, m \notin Ended, Broadcast(m), NoEnd(queue)
      PROVE  NoEnd(queue')
  BY <1>a, <1>t, EndsMoved DEF Broadcast
<1>b. ASSUME UNCHANGED <<redis, queue>>, ~missed, ~EndKnown, shown' \notin Ended
      PROVE  shown' \notin Ended /\ NoEnd(redis') /\ NoEnd(queue')
  BY <1>b DEF EndInv
<1>c. ASSUME UNCHANGED <<redis, queue, shown, status, txPc, txTo, missed>>
      PROVE  shown' \notin Ended /\ NoEnd(redis') /\ NoEnd(queue')
  BY <1>c DEF EndInv, EndKnown
<1>1. CASE Insert
  <2>1. ~missed /\ ~EndKnown /\ UNCHANGED <<redis, queue, shown>>
    BY <1>1 DEF Insert, EndKnown, txVars, hubVars, Ended
  <2>2. QED
    BY <2>1 DEF EndInv
<1>2. CASE FlushAgain
  <2>1. txPc' = Announce(txBy) /\ txTo' = "failed"
    BY <1>2 DEF FlushAgain
  <2>2. QED
    BY <2>1 DEF EndKnown, Announce, Ended
<1>3. CASE Commit
  <2>1. txPc = "commit" /\ status' = txTo /\ UNCHANGED <<redis, queue, shown, missed>>
    BY <1>3 DEF Commit, hubVars
  <2>2. txTo = "running"
    BY <2>1 DEF EndKnown, TypeOK
  <2>3. ~EndKnown
    BY <2>1, <2>2 DEF ClaimInv, EndKnown, Ended
  <2>4. QED
    BY <2>1, <2>3 DEF EndInv
<1>4. ASSUME NEW by \in {"web", "worker"}, PublishStep(by)
      PROVE  shown' \notin Ended /\ NoEnd(redis') /\ NoEnd(queue')
  <2>1. UNCHANGED <<status, txPc, txTo, shown, missed>>
    BY <1>4 DEF PublishStep, txVars
  <2>2. shown \notin Ended /\ NoEnd(redis) /\ NoEnd(queue)
    BY <2>1 DEF EndInv, EndKnown
  <2>3. NoEnd(redis')
    BY <1>4, <2>2, <1>t, EndsMoved DEF PublishStep
  <2>4. Broadcast("step") \/ UNCHANGED queue
    BY <1>4 DEF PublishStep
  <2>5. NoEnd(queue')
    BY <2>2, <2>4, <1>a, <1>t
  <2>6. QED
    BY <2>1, <2>2, <2>3, <2>5
<1>5. ASSUME NEW by \in {"web", "worker"}, NEW to \in {"running"} \cup Ended, Flush(by, to)
      PROVE  shown' \notin Ended /\ NoEnd(redis') /\ NoEnd(queue')
  <2>1. /\ txPc = "none" /\ txPc' = Announce(by) /\ txTo' = to
        /\ missed' = (missed /\ to \notin Ended)
        /\ UNCHANGED <<status, redis, queue, shown>>
    BY <1>5 DEF Flush, hubVars
  <2>2. to \notin Ended /\ ~EndKnown
    BY <2>1 DEF EndKnown, Announce
  <2>3. ~missed
    BY <2>1, <2>2
  <2>4. QED
    BY <2>1, <2>2, <2>3 DEF EndInv
<1>6. CASE PublishLocal
  <2>1. txPc = "local" /\ Broadcast(txTo) /\ UNCHANGED <<status, txTo, redis, shown>>
    BY <1>6 DEF PublishLocal
  <2>2. txPc' # "none"
    BY <1>6 DEF PublishLocal, NextAnnouncement, Announce
  <2>3. ~EndKnown /\ txTo \notin Ended
    BY <2>1, <2>2 DEF EndKnown
  <2>4. ~missed
    BY <1>6 DEF PublishLocal
  <2>5. QED
    BY <2>1, <2>3, <2>4, <1>a, <1>t DEF EndInv
<1>7. CASE PublishRedis
  <2>1. txPc = "redis" /\ UNCHANGED <<status, txTo, queue, shown>>
    BY <1>7 DEF PublishRedis
  <2>2. txPc' # "none"
    BY <1>7 DEF PublishRedis, NextAnnouncement, Announce
  <2>3. ~EndKnown /\ txTo \notin Ended
    BY <2>1, <2>2 DEF EndKnown
  <2>4. ~missed /\ redis' \in {redis, Append(redis, txTo)}
    BY <1>7 DEF PublishRedis
  <2>5. shown \notin Ended /\ NoEnd(redis) /\ NoEnd(queue)
    BY <2>3, <2>4 DEF EndInv
  <2>6. QED
    BY <2>1, <2>3, <2>4, <2>5, <1>t, EndsMoved
<1>8. CASE BridgeStarted \/ Connect \/ Subscribe
  BY <1>8, <1>c DEF BridgeStarted, Connect, Subscribe, txVars, hubVars
<1>9. CASE BridgeForward
  <2>1. ~missed /\ ~EndKnown
    BY <1>9 DEF BridgeForward, EndKnown, txVars
  <2>2. shown \notin Ended /\ NoEnd(redis) /\ NoEnd(queue)
    BY <2>1 DEF EndInv
  <2>3. redis # <<>> /\ redis' = Tail(redis) /\ Broadcast(Head(redis)) /\ UNCHANGED shown
    BY <1>9 DEF BridgeForward
  <2>4. NoEnd(redis') /\ Head(redis) \notin Ended /\ Head(redis) \in Messages
    BY <2>2, <2>3, <1>t, EndsMoved
  <2>5. QED
    BY <2>2, <2>3, <2>4, <1>a
<1>10. CASE Receive
  <2>1. UNCHANGED <<status, txPc, txTo, redis>> /\ queue # <<>> /\ queue' = Tail(queue)
    BY <1>10 DEF Receive, txVars
  <2>2. ~missed /\ ~EndKnown
    <3>1. UNCHANGED missed \/ missed' = (missed \/ shown = None)
      BY <1>10 DEF Receive, Patch
    <3>2. ~missed
      BY <3>1
    <3>3. QED
      BY <2>1, <3>2 DEF EndKnown
  <2>3. shown \notin Ended /\ NoEnd(redis) /\ NoEnd(queue)
    BY <2>2 DEF EndInv
  <2>4. Head(queue) \notin Ended /\ NoEnd(queue')
    BY <2>1, <2>3, <1>t, EndsMoved
  <2>5. shown' \notin Ended
    BY <1>10, <2>3, <2>4 DEF Receive, Patch, UpdateStep, Ended
  <2>6. QED
    BY <2>1, <2>3, <2>4, <2>5
<1>11. CASE QueryAsk \/ LoopAsk \/ LoopGivesUp \/ PanelAsk
  BY <1>11, <1>c DEF QueryAsk, LoopAsk, LoopGivesUp, PanelAsk, txVars, hubVars
<1>12. CASE QueryAnswer
  <2>1. UNCHANGED <<redis, queue, status, txPc, txTo, missed>>
    BY <1>12 DEF QueryAnswer, txVars, hubVars
  <2>2. ~missed /\ ~EndKnown
    BY <2>1 DEF EndKnown
  <2>3. answer # None => answer \notin Ended
    BY DEF TypeOK, Active, Ended
  <2>4. shown' \notin Ended
    BY <1>12, <2>2, <2>3 DEF QueryAnswer, EndInv
  <2>5. QED
    BY <1>b, <2>1, <2>2, <2>4
<1>13. CASE Register \/ LoopAnswer \/ PanelAnswer
  <2>1. UNCHANGED <<redis, queue, status, txPc, txTo>>
    BY <1>13 DEF Register, LoopAnswer, PanelAnswer, txVars, hubVars
  <2>2. PICK snapshot : Overwrite(snapshot)
    BY <1>13 DEF Register, LoopAnswer, PanelAnswer
  <2>3. ~missed /\ shown' = status
    BY <2>2 DEF Overwrite
  <2>4. ~EndKnown
    BY <2>1 DEF EndKnown
  <2>5. QED
    BY <1>b, <2>1, <2>3, <2>4 DEF EndKnown
<1>14. CASE RedisFails \/ Rollback
  BY <1>14 DEF RedisFails, Rollback
<1>15. CASE BridgeCrash \/ Disconnect \/ Reload
  <2>1. UNCHANGED <<status, txPc, txTo, shown>> /\ ~missed
    BY <1>15 DEF BridgeCrash, Disconnect, Reload, txVars
  <2>2. redis' \in {redis, <<>>} /\ queue' \in {queue, <<>>}
    BY <1>15 DEF BridgeCrash, Disconnect, Reload
  <2>3. QED
    BY <2>1, <2>2, EmptySays DEF EndInv, EndKnown
<1>16. CASE UNCHANGED vars
  BY <1>16, <1>c DEF vars, txVars, hubVars
<1>17. QED
  BY <1>1, <1>2, <1>3, <1>4, <1>5, <1>6, <1>7, <1>8, <1>9, <1>10, <1>11, <1>12, <1>13, <1>14,
     <1>15, <1>16
  DEF Next, Write, Transport, Tab, Faults

LEMMA WordsKept ==
  ASSUME TypeOK, ChannelInv, WordInv, [Next]_vars
  PROVE  WordInv'
<1> SUFFICES ASSUME ~missed' PROVE WordInv'
  BY DEF WordInv
<1>t. /\ redis \in Seq(Messages) /\ queue \in Seq(Messages) /\ "step" \notin Ended
      /\ Ended \subseteq Messages /\ "step" \in Messages /\ txTo \in Messages
  BY DEF TypeOK, Messages, Active, Ended
\* The messages and what is shown stand still.
<1>a. ASSUME UNCHANGED <<redis, queue, shown, status, txPc, txTo, missed>> PROVE WordInv'
  BY <1>a DEF WordInv, WillShow
\* What the tab will show is kept for every status that has ended.
<1>b. ASSUME ~missed, UNCHANGED <<status, txPc, txTo>>,
             \A x \in Ended : WillShow(x) => WillShow(x)'
      PROVE  WordInv'
  <2>1. txPc = "none" /\ status \in Ended => WillShow(status)'
    BY <1>b DEF WordInv, WillShow
  <2>2. txPc = "commit" /\ txTo \in Ended => WillShow(txTo)'
    BY <1>b DEF WordInv, WillShow
  <2>3. QED
    BY <1>b, <2>1, <2>2 DEF WordInv
<1>1. CASE Insert
  BY <1>1, <1>t DEF Insert, txVars, hubVars, Ended, WordInv, WillShow
<1>2. CASE FlushAgain
  <2>1. txPc' = Announce(txBy)
    BY <1>2 DEF FlushAgain
  <2>2. QED
    BY <2>1 DEF Announce, WordInv
<1>3. CASE Commit
  <2>1. /\ txPc = "commit" /\ status' = txTo /\ txPc' = "none"
        /\ UNCHANGED <<redis, queue, shown, missed>>
    BY <1>3 DEF Commit, EndTransaction, hubVars
  <2>2. QED
    BY <2>1 DEF WordInv, WillShow
<1>4. ASSUME NEW by \in {"web", "worker"}, PublishStep(by) PROVE WordInv'
  <2>1. UNCHANGED <<status, txPc, txTo, shown, missed>>
    BY <1>4 DEF PublishStep, txVars
  <2>2. redis' \in {redis, Append(redis, "step")} /\ queue' \in {queue, Append(queue, "step")}
    BY <1>4 DEF PublishStep, Broadcast
  <2>3. /\ \A x : LastIs(redis, x) => LastIs(redis', x)
        /\ NoWord(redis) => NoWord(redis')
    BY <2>2, <1>t, AppendStep
  <2>4. /\ \A x : LastIs(queue, x) => LastIs(queue', x)
        /\ NoWord(queue) => NoWord(queue')
    BY <2>2, <1>t, AppendStep
  <2>5. \A x \in Ended : WillShow(x) => WillShow(x)'
    BY <2>1, <2>3, <2>4 DEF WillShow
  <2>6. QED
    BY <1>b, <2>1, <2>5
<1>5. ASSUME NEW by \in {"web", "worker"}, NEW to \in {"running"} \cup Ended, Flush(by, to)
      PROVE  WordInv'
  <2>1. txPc' = Announce(by)
    BY <1>5 DEF Flush
  <2>2. QED
    BY <2>1 DEF Announce, WordInv
<1>6. CASE PublishLocal
  <2>1. CASE useQueue
    BY <1>6, <2>1 DEF PublishLocal, WordInv
  <2>2. CASE ~useQueue /\ txLeft = 2
    BY <1>6, <2>2 DEF PublishLocal, NextAnnouncement, Announce, WordInv
  <2>3. CASE ~useQueue /\ txLeft # 2
    <3>1. txPc' = "commit" /\ UNCHANGED <<txTo, redis>>
      BY <1>6, <2>3 DEF PublishLocal, NextAnnouncement
    <3>2. Accepts /\ queue' = Append(queue, txTo)
      BY <1>6, <2>3 DEF PublishLocal, Broadcast
    <3>3. redis' = <<>>
      BY <2>3, <3>1 DEF ChannelInv
    <3>4. LastIs(queue', txTo)
      BY <3>2, <1>t, AppendWord
    <3>5. WillShow(txTo)'
      BY <3>1, <3>3, <3>4, EmptySays DEF WillShow
    <3>6. QED
      BY <3>1, <3>5 DEF WordInv
  <2>4. QED
    BY <2>1, <2>2, <2>3
<1>7. CASE PublishRedis
  <2>1. redis' = Append(redis, txTo) /\ UNCHANGED txTo
    BY <1>7 DEF PublishRedis
  <2>2. LastIs(redis', txTo)
    BY <2>1, <1>t, AppendWord
  <2>3. txPc' # "none"
    BY <1>7 DEF PublishRedis, NextAnnouncement, Announce
  <2>4. QED
    BY <2>1, <2>2, <2>3 DEF WordInv, WillShow
<1>8. CASE BridgeStarted \/ Connect \/ Subscribe
  BY <1>8, <1>a DEF BridgeStarted, Connect, Subscribe, txVars, hubVars
<1>9. CASE BridgeForward
  <2>1. UNCHANGED <<status, txPc, txTo, shown>> /\ ~missed
    BY <1>9 DEF BridgeForward, txVars
  <2>2. redis # <<>> /\ redis' = Tail(redis) /\ Broadcast(Head(redis))
    BY <1>9 DEF BridgeForward
  <2>3. Head(redis) = "step" \/ Accepts
    BY <1>9 DEF BridgeForward
  <2>h. Head(redis) \in Messages
    BY <2>2, <1>t
  <2>4. ASSUME NEW x \in Ended, LastIs(redis, x) PROVE WillShow(x)'
    <3>1. CASE LastIs(redis', x)
      BY <3>1 DEF WillShow
    <3>2. CASE Head(redis) = x /\ NoWord(redis')
      <4>1. queue' = Append(queue, x)
        BY <2>2, <2>3, <3>2, <1>t DEF Broadcast
      <4>2. LastIs(queue', x)
        BY <4>1, <1>t, AppendWord
      <4>3. QED
        BY <3>2, <4>2 DEF WillShow
    <3>3. QED
      BY <2>2, <2>4, <3>1, <3>2, <1>t, TailWord
  <2>5. ASSUME NEW x \in Ended, NoWord(redis), LastIs(queue, x) \/ (NoWord(queue) /\ shown = x)
        PROVE  WillShow(x)'
    <3>1. Head(redis) = "step" /\ NoWord(redis')
      BY <2>2, <2>5, <1>t, TailWord
    <3>2. queue' \in {queue, Append(queue, "step")}
      BY <2>2, <3>1 DEF Broadcast
    <3>3. LastIs(queue', x) \/ (NoWord(queue') /\ shown' = x)
      BY <2>1, <2>5, <3>2, <1>t, AppendStep
    <3>4. QED
      BY <3>1, <3>3 DEF WillShow
  <2>6. \A x \in Ended : WillShow(x) => WillShow(x)'
    BY <2>4, <2>5 DEF WillShow
  <2>7. QED
    BY <1>b, <2>1, <2>6
<1>10. CASE Receive
  <2>1. UNCHANGED <<status, txPc, txTo, redis>> /\ queue # <<>> /\ queue' = Tail(queue)
    BY <1>10 DEF Receive, txVars
  <2>2. \/ Head(queue) = "step" /\ UpdateStep /\ UNCHANGED missed
        \/ Head(queue) # "step" /\ shown # None /\ shown' = Head(queue) /\ ~missed
    BY <1>10 DEF Receive, Patch
  <2>3. ~missed
    BY <2>2
  <2>4. ASSUME NEW x \in Ended, NoWord(redis), LastIs(queue, x)
        PROVE  LastIs(queue', x) \/ (NoWord(queue') /\ shown' = x)
    <3>1. LastIs(queue', x) \/ (Head(queue) = x /\ NoWord(queue'))
      BY <2>1, <2>4, <1>t, TailWord
    <3>2. Head(queue) = x => shown' = x
      BY <2>2, <1>t
    <3>3. QED
      BY <3>1, <3>2
  <2>5. ASSUME NEW x \in Ended, NoWord(redis), NoWord(queue), shown = x
        PROVE  NoWord(queue') /\ shown' = x
    <3>1. Head(queue) = "step" /\ NoWord(queue')
      BY <2>1, <2>5, <1>t, TailWord
    <3>2. shown # None
      BY <2>5, FeedAssumption DEF Ended
    <3>3. QED
      BY <2>2, <2>5, <3>1, <3>2 DEF UpdateStep
  <2>6. \A x \in Ended : WillShow(x) => WillShow(x)'
    BY <2>1, <2>4, <2>5 DEF WillShow
  <2>7. QED
    BY <1>b, <2>1, <2>3, <2>6
<1>11. CASE QueryAsk \/ LoopAsk \/ LoopGivesUp \/ PanelAsk
  BY <1>11, <1>a DEF QueryAsk, LoopAsk, LoopGivesUp, PanelAsk, txVars, hubVars
<1>12. CASE QueryAnswer
  <2>1. UNCHANGED <<redis, queue, status, txPc, txTo, missed>>
    BY <1>12 DEF QueryAnswer, txVars, hubVars
  <2>2. shown \in Ended => UNCHANGED shown
    BY <1>12 DEF QueryAnswer
  <2>3. \A x \in Ended : WillShow(x) => WillShow(x)'
    BY <2>1, <2>2 DEF WillShow
  <2>4. QED
    BY <1>b, <2>1, <2>3
<1>13. CASE Register \/ LoopAnswer \/ PanelAnswer
  <2>1. UNCHANGED <<redis, queue, status, txPc, txTo>>
    BY <1>13 DEF Register, LoopAnswer, PanelAnswer, txVars, hubVars
  <2>2. PICK snapshot : Overwrite(snapshot)
    BY <1>13 DEF Register, LoopAnswer, PanelAnswer
  <2>3. ~missed /\ shown' = status /\ txPc = "none"
    BY <2>2 DEF Overwrite
  <2>4. status \in Ended => WillShow(status)
    BY <2>3 DEF WordInv
  <2>5. status \in Ended => WillShow(status)'
    BY <2>1, <2>3, <2>4 DEF WillShow
  <2>6. QED
    BY <2>1, <2>3, <2>5 DEF WordInv
<1>14. CASE RedisFails \/ Rollback
  BY <1>14 DEF RedisFails, Rollback
<1>15. CASE BridgeCrash \/ Disconnect \/ Reload
  <2>1. UNCHANGED <<status, txPc, txTo, shown, redis, queue>> /\ ~missed
    BY <1>15 DEF BridgeCrash, Disconnect, Reload, txVars
  <2>2. QED
    BY <2>1, <1>b DEF WillShow
<1>16. CASE UNCHANGED vars
  BY <1>16, <1>a DEF vars, txVars, hubVars
<1>17. QED
  BY <1>1, <1>2, <1>3, <1>4, <1>5, <1>6, <1>7, <1>8, <1>9, <1>10, <1>11, <1>12, <1>13, <1>14,
     <1>15, <1>16
  DEF Next, Write, Transport, Tab, Faults

-------------------------------------------------------------------------------
LEMMA FeedInit == Init => FeedInv
<1> SUFFICES ASSUME Init PROVE FeedInv
  OBVIOUS
<1> USE FeedAssumption DEF Init
<1>1. TypeOK
  <2>1. <<>> \in Seq(Messages) /\ Len(<<>>) <= QueueLimit
    OBVIOUS
  <2>2. moves \in 0..MaxMoves /\ faults \in 0..MaxFaults /\ txLeft \in 1..2
    OBVIOUS
  <2>3. query \in {None, "new"} \cup Active /\ loop \in {"off", "new"} /\ missed \in BOOLEAN
    BY Zenon
  <2>4. QED
    BY <2>1, <2>2, <2>3 DEF TypeOK, Active, Ended
<1>2. ClaimInv /\ LoopInv /\ ChannelInv
  BY DEF ClaimInv, LoopInv, ChannelInv
<1>3. EndInv
  BY EmptySays DEF EndInv, Ended
<1>4. WordInv
  BY DEF WordInv, Ended
<1>5. QED
  BY <1>1, <1>2, <1>3, <1>4 DEF FeedInv

LEMMA FeedStep == FeedInv /\ [Next]_vars => FeedInv'
  BY TypesKept, RulesKept, EndsKept, WordsKept DEF FeedInv

LEMMA FeedInductive == Spec => []FeedInv
  BY FeedInit, FeedStep, PTL DEF Spec

\* Type correctness: the subscriber's queue never holds more than its maxsize, and the
\* task log, the poll loop and the query hold only what the API can answer.
THEOREM FeedTypes == Spec => []TypeOK
<1>1. FeedInv => TypeOK
  BY DEF FeedInv
<1>2. QED
  BY <1>1, FeedInductive, PTL

\* A tab that has missed nothing shows an end only if the row has ended or the transaction
\* that ends it is open, however the announcements of Redis and of the own hub, the polls
\* and the panel's lists are interleaved.
THEOREM EndShownHolds == Spec => []EndShownIsEnd
<1>1. FeedInv => EndShownIsEnd
  BY DEF FeedInv, EndInv, EndKnown, EndShownIsEnd
<1>2. QED
  BY <1>1, FeedInductive, PTL

\* When nothing is on its way any more, a tab that has missed nothing shows the end that
\* the row has: the last announcement of the last writer is the last that arrives.
THEOREM LastWordHolds == Spec => []LastWordAgrees
<1>1. ASSUME FeedInv, Quiet, ~missed, status \in Ended PROVE shown \in {None, status}
  <2>1. WillShow(status)
    BY <1>1 DEF FeedInv, WordInv, Quiet
  <2>2. redis = <<>> /\ queue = <<>>
    BY <1>1 DEF Quiet
  <2>3. QED
    BY <2>1, <2>2, EmptySays DEF WillShow
<1>2. FeedInv => LastWordAgrees
  BY <1>1 DEF LastWordAgrees
<1>3. QED
  BY <1>2, FeedInductive, PTL

=============================================================================
