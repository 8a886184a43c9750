------------------------ MODULE SignalRoutingProofs ------------------------
(***************************************************************************)
(* Proofs about SignalRouting, for every finite set of cameras, every set  *)
(* of use cases, every assignment and every batch size.                    *)
(***************************************************************************)
EXTENDS SignalRouting, DataLemmas

\* Which of the worker's local variables are empty at which point of its loop.
Shape ==
    \A u \in UseCases :
        /\ cur[u] # None <=> pc[u] = "read"
        /\ pc[u] \in {"check", "first", "infer", "write", "exited"} =>
              batch[u] = <<>>
        /\ pc[u] \in {"check", "first", "collect", "exited"} =>
              frames[u] = <<>>
        /\ pc[u] \in {"infer", "write"} => frames[u] # <<>>

\* Type correctness holds initially and every step keeps it; Shape is what
\* makes the heads of batch and frames well typed.
LEMMA TypeInit == Init => TypeOK /\ Shape
  <1>1. zero \in PerCamera
    BY DEF zero, PerCamera
  <1>2. Init => TypeOK
    <2> SUFFICES ASSUME Init PROVE TypeOK
      OBVIOUS
    <2>1. /\ raw \in [Cameras -> Nat]
          /\ todo \in [Cameras -> SUBSET UseCases]
          /\ \A c \in Cameras : \A u \in todo[c] : c \in Assigned[u]
          /\ pending \in [UseCases -> SUBSET Cameras]
          /\ cur \in [UseCases -> Cameras \cup {None}]
      BY DEF Init
    <2>2. /\ queue \in [UseCases -> Seq(Cameras)]
          /\ batch \in [UseCases -> Seq(Cameras)]
          /\ frames \in [UseCases -> Seq(Cameras \X Nat)]
      BY DEF Init
    <2>3. /\ stopped \in BOOLEAN
          /\ pc \in [UseCases -> {"check", "first", "collect", "clear", "read",
                                 "infer", "write", "exited"}]
      BY DEF Init
    <2> QED BY <1>1, <2>1, <2>2, <2>3 DEF Init, TypeOK
  <1>3. Init => Shape
    BY DEF Init, Shape
  <1> QED BY <1>2, <1>3

\* Every step keeps the types; one proof step per action.
LEMMA TypeStep == TypeOK /\ Shape /\ [Next]_vars => TypeOK'
  <1> SUFFICES ASSUME TypeOK, Shape, [Next]_vars
               PROVE  TypeOK'
    OBVIOUS
  <1> USE AssignedAssumption DEF TypeOK
  <1>1. ASSUME NEW c \in Cameras, Capture(c) PROVE TypeOK'
    <2>1. raw' \in [Cameras -> Nat] /\ todo' \in [Cameras -> SUBSET UseCases]
      BY <1>1 DEF Capture, Watchers
    <2>2. \A d \in Cameras : \A u \in todo'[d] : d \in Assigned[u]
      BY <1>1 DEF Capture, Watchers
    <2> QED BY <1>1, <2>1, <2>2 DEF Capture, Watchers, signalVars, workVars, resultVars
  <1>2. ASSUME NEW c \in Cameras, NEW u \in UseCases, Publish(c, u)
        PROVE  TypeOK'
    <2>1. todo' \in [Cameras -> SUBSET UseCases]
      BY <1>2 DEF Publish
    <2>2. \A d \in Cameras : \A v \in todo'[d] : d \in Assigned[v]
      BY <1>2 DEF Publish
    <2>3. CASE UNCHANGED signalVars
      BY <1>2, <2>1, <2>2, <2>3 DEF Publish, signalVars, workVars, resultVars
    <2>4. CASE /\ queue' = [queue EXCEPT ![u] = Append(@, c)]
               /\ pending' = [pending EXCEPT ![u] = @ \cup {c}]
               /\ UNCHANGED dropped
      <3>1. pending' \in [UseCases -> SUBSET Cameras]
        BY <2>4
      <3>2. queue' \in [UseCases -> Seq(Cameras)]
        BY <2>4
      <3> QED BY <1>2, <2>1, <2>2, <2>4, <3>1, <3>2 DEF Publish, workVars, resultVars
    <2>5. CASE /\ dropped' = [dropped EXCEPT ![u][c] = @ + 1]
               /\ UNCHANGED <<queue, pending>>
      <3>1. dropped' \in PerCamera
        BY <2>5 DEF PerCamera
      <3> QED BY <1>2, <2>1, <2>2, <2>5, <3>1 DEF Publish, workVars, resultVars
    <2> QED BY <1>2, <2>3, <2>4, <2>5 DEF Publish
  <1>3. CASE Stop
    BY <1>3 DEF Stop, camVars, signalVars, workVars, resultVars
  <1>4. ASSUME NEW u \in UseCases, LoopHead(u) PROVE TypeOK'
    BY <1>4 DEF LoopHead, Goto, camVars, signalVars, workVars, resultVars
  <1>5. ASSUME NEW u \in UseCases, TakeFirst(u) PROVE TypeOK'
    <2>1. batch' \in [UseCases -> Seq(Cameras)] /\ queue' \in [UseCases -> Seq(Cameras)]
      BY <1>5 DEF TakeFirst
    <2>2. pc' \in [UseCases -> {"check", "first", "collect", "clear", "read",
                                "infer", "write", "exited"}]
      BY <1>5 DEF TakeFirst, Goto
    <2> QED BY <1>5, <2>1, <2>2 DEF TakeFirst, camVars, resultVars
  <1>6. ASSUME NEW u \in UseCases, FirstTimeout(u) PROVE TypeOK'
    BY <1>6 DEF FirstTimeout, Goto, camVars, signalVars, workVars, resultVars
  <1>7. ASSUME NEW u \in UseCases, TakeMore(u) PROVE TypeOK'
    <2>1. batch' \in [UseCases -> Seq(Cameras)] /\ queue' \in [UseCases -> Seq(Cameras)]
      BY <1>7 DEF TakeMore
    <2> QED BY <1>7, <2>1 DEF TakeMore, camVars, resultVars
  <1>8. ASSUME NEW u \in UseCases, CloseBatch(u) PROVE TypeOK'
    BY <1>8 DEF CloseBatch, Goto, camVars, signalVars, workVars, resultVars
  <1>9. ASSUME NEW u \in UseCases, ClearPending(u) PROVE TypeOK'
    <2>1. Head(batch[u]) \in Cameras /\ Tail(batch[u]) \in Seq(Cameras)
      BY <1>9 DEF ClearPending
    <2>2. cur' \in [UseCases -> Cameras \cup {None}]
      BY <1>9, <2>1 DEF ClearPending
    <2>3. batch' \in [UseCases -> Seq(Cameras)]
      BY <1>9, <2>1 DEF ClearPending
    <2>4. pending' \in [UseCases -> SUBSET Cameras]
      BY <1>9 DEF ClearPending
    <2>5. pc' \in [UseCases -> {"check", "first", "collect", "clear", "read",
                                "infer", "write", "exited"}]
      BY <1>9 DEF ClearPending, Goto
    <2> QED
      BY <1>9, <2>2, <2>3, <2>4, <2>5 DEF ClearPending, camVars, resultVars
  <1>10. ASSUME NEW u \in UseCases, ReadSlot(u) PROVE TypeOK'
    <2>1. cur[u] \in Cameras /\ raw[cur[u]] \in Nat
      BY <1>10 DEF ReadSlot, Goto, Shape
    <2>2. frames' \in [UseCases -> Seq(Cameras \X Nat)]
      BY <1>10, <2>1 DEF ReadSlot
    <2>3. seen' \in PerCamera
      BY <1>10, <2>1 DEF ReadSlot, PerCamera
    <2>4. cur' \in [UseCases -> Cameras \cup {None}]
      BY <1>10 DEF ReadSlot
    <2>5. pc' \in [UseCases -> {"check", "first", "collect", "clear", "read",
                                "infer", "write", "exited"}]
      BY <1>10 DEF ReadSlot, Goto
    <2> QED
      BY <1>10, <2>2, <2>3, <2>4, <2>5 DEF ReadSlot, camVars, signalVars, resultVars
  <1>11. ASSUME NEW u \in UseCases, BatchRead(u) PROVE TypeOK'
    BY <1>11 DEF BatchRead, Goto, camVars, signalVars, workVars, resultVars
  <1>12. ASSUME NEW u \in UseCases, Infer(u) PROVE TypeOK'
    BY <1>12 DEF Infer, Goto, camVars, signalVars, workVars, resultVars
  <1>13. ASSUME NEW u \in UseCases, StaleDrop(u) PROVE TypeOK'
    <2>1. stale' \in PerCamera
      <3> DEFINE row == [c \in Cameras |->
                            IF \E f \in Range(frames[u]) : f[1] = c
                            THEN stale[u][c] + 1 ELSE stale[u][c]]
      <3>1. stale \in PerCamera /\ stale[u] \in [Cameras -> Nat]
        BY DEF TypeOK, PerCamera
      <3>2. row \in [Cameras -> Nat]
        BY <3>1
      <3>3. stale' = [stale EXCEPT ![u] = row]
        BY <1>13 DEF StaleDrop, StaleCounted
      <3> HIDE DEF row
      <3> QED BY <3>1, <3>2, <3>3 DEF PerCamera
    <2>2. frames' \in [UseCases -> Seq(Cameras \X Nat)]
      BY <1>13 DEF StaleDrop, StaleCounted
    <2>3. pc' \in [UseCases -> {"check", "first", "collect", "clear", "read",
                                "infer", "write", "exited"}]
      BY <1>13 DEF StaleDrop, StaleCounted, Goto
    <2> QED BY <1>13, <2>1, <2>2, <2>3 DEF StaleDrop, StaleCounted, camVars, signalVars
  <1>14. ASSUME NEW u \in UseCases, WorkerFails(u) PROVE TypeOK'
    <2>1. frames' \in [UseCases -> Seq(Cameras \X Nat)]
      BY <1>14 DEF WorkerFails
    <2>2. pc' \in [UseCases -> {"check", "first", "collect", "clear", "read",
                                "infer", "write", "exited"}]
      BY <1>14 DEF WorkerFails, Goto
    <2> QED BY <1>14, <2>1, <2>2 DEF WorkerFails, camVars, signalVars, resultVars
  <1>15. ASSUME NEW u \in UseCases, WriteResult(u) PROVE TypeOK'
    <2>1. frames[u] # <<>> /\ frames[u] \in Seq(Cameras \X Nat)
      BY <1>15 DEF WriteResult, Shape
    <2>2. Head(frames[u]) \in Cameras \X Nat /\ Tail(frames[u]) \in Seq(Cameras \X Nat)
      BY <2>1
    <2>3. Head(frames[u])[1] \in Cameras /\ Head(frames[u])[2] \in Nat
      BY <2>2
    <2>4. inference' \in PerCamera
      BY <1>15, <2>3 DEF WriteResult, PerCamera
    <2>5. inferred' \in PerCamera
      <3>1. inferred[u][Head(frames[u])[1]] + 1 \in Nat
        <4>1. inferred[u] \in [Cameras -> Nat]
          BY DEF PerCamera
        <4> QED BY <2>3, <4>1
      <3> QED BY <1>15, <2>3, <3>1 DEF WriteResult, PerCamera
    <2>6. frames' \in [UseCases -> Seq(Cameras \X Nat)]
      BY <1>15, <2>2 DEF WriteResult
    <2>7. pc' \in [UseCases -> {"check", "first", "collect", "clear", "read",
                                "infer", "write", "exited"}]
      BY <1>15 DEF WriteResult
    <2> QED
      BY <1>15, <2>4, <2>5, <2>6, <2>7 DEF WriteResult, camVars, signalVars
  <1>16. CASE UNCHANGED vars
    BY <1>16 DEF vars, camVars, signalVars, workVars, resultVars
  <1> QED
    BY <1>1, <1>2, <1>3, <1>4, <1>5, <1>6, <1>7, <1>8, <1>9, <1>10, <1>11,
       <1>12, <1>13, <1>14, <1>15, <1>16 DEF Next, WorkerStep

\* Every step keeps the shape: only TakeFirst leaves "first" and it puts a camera
\* into the batch; a worker infers and writes only with frames in hand.
LEMMA ShapeStep == TypeOK /\ Shape /\ [Next]_vars => Shape'
  <1> SUFFICES ASSUME TypeOK, Shape, [Next]_vars
               PROVE  Shape'
    OBVIOUS
  <1> USE AssignedAssumption DEF TypeOK, Shape
  <1>1. ASSUME NEW c \in Cameras, Capture(c) PROVE Shape'
    BY <1>1 DEF Capture, Watchers, signalVars, workVars, resultVars
  <1>2. ASSUME NEW c \in Cameras, NEW u \in UseCases, Publish(c, u)
        PROVE  Shape'
    BY <1>2 DEF Publish, signalVars, workVars, resultVars
  <1>3. CASE Stop
    BY <1>3 DEF Stop, camVars, signalVars, workVars, resultVars
  <1>4. ASSUME NEW u \in UseCases, LoopHead(u) PROVE Shape'
    BY <1>4 DEF LoopHead, Goto, camVars, signalVars, workVars, resultVars
  <1>5. ASSUME NEW u \in UseCases, TakeFirst(u) PROVE Shape'
    BY <1>5 DEF TakeFirst, Goto, camVars, resultVars
  <1>6. ASSUME NEW u \in UseCases, FirstTimeout(u) PROVE Shape'
    BY <1>6 DEF FirstTimeout, Goto, camVars, signalVars, workVars, resultVars
  <1>7. ASSUME NEW u \in UseCases, TakeMore(u) PROVE Shape'
    BY <1>7 DEF TakeMore, camVars, resultVars
  <1>8. ASSUME NEW u \in UseCases, CloseBatch(u) PROVE Shape'
    BY <1>8 DEF CloseBatch, Goto, camVars, signalVars, workVars, resultVars
  <1>9. ASSUME NEW u \in UseCases, ClearPending(u) PROVE Shape'
    BY <1>9 DEF ClearPending, Goto, camVars, resultVars
  <1>10. ASSUME NEW u \in UseCases, ReadSlot(u) PROVE Shape'
    BY <1>10 DEF ReadSlot, Goto, camVars, signalVars, resultVars
  <1>11. ASSUME NEW u \in UseCases, BatchRead(u) PROVE Shape'
    BY <1>11 DEF BatchRead, Goto, camVars, signalVars, workVars, resultVars
  <1>12. ASSUME NEW u \in UseCases, Infer(u) PROVE Shape'
    BY <1>12 DEF Infer, Goto, camVars, signalVars, workVars, resultVars
  <1>13. ASSUME NEW u \in UseCases, StaleDrop(u) PROVE Shape'
    BY <1>13 DEF StaleDrop, StaleCounted, Goto, camVars, signalVars
  <1>14. ASSUME NEW u \in UseCases, WorkerFails(u) PROVE Shape'
    BY <1>14 DEF WorkerFails, Goto, camVars, signalVars, resultVars
  <1>15. ASSUME NEW u \in UseCases, WriteResult(u) PROVE Shape'
    <2>1. frames[u] # <<>> /\ frames[u] \in Seq(Cameras \X Nat)
      BY <1>15 DEF WriteResult
    <2>2. Len(frames[u]) = 1 <=> Tail(frames[u]) = <<>>
      BY <2>1, TailEmpty
    <2>4. frames'[u] = Tail(frames[u])
      BY <1>15 DEF WriteResult
    <2>5. pc'[u] = IF Len(frames[u]) = 1 THEN "check" ELSE "write"
      BY <1>15 DEF WriteResult
    <2>6. \A v \in UseCases \ {u} : frames'[v] = frames[v] /\ pc'[v] = pc[v]
      BY <1>15 DEF WriteResult
    <2>7. cur' = cur /\ batch' = batch /\ pc[u] = "write"
      BY <1>15 DEF WriteResult
    <2> QED BY <2>2, <2>4, <2>5, <2>6, <2>7
  <1>16. CASE UNCHANGED vars
    BY <1>16 DEF vars, camVars, signalVars, workVars, resultVars
  <1> QED
    BY <1>1, <1>2, <1>3, <1>4, <1>5, <1>6, <1>7, <1>8, <1>9, <1>10, <1>11,
       <1>12, <1>13, <1>14, <1>15, <1>16 DEF Next, WorkerStep

\* Every reachable state is well typed: in particular publish_frame only visits
\* use cases the camera is assigned to.
THEOREM TypeCorrect == Spec => [](TypeOK /\ Shape)
  <1> QED BY TypeInit, TypeStep, ShapeStep, PTL DEF Spec
-----------------------------------------------------------------------------
(* signal_pending, the queue and the batch.                                *)

\* Only cameras of the use case are ever signalled to it.
OnlyAssigned == \A u \in UseCases : pending[u] \subseteq Assigned[u]

SignalInv == PendingIsOwed /\ NoDroppedSignal /\ OnlyAssigned

\* No signal is under way initially.
LEMMA SignalInit == Init => SignalInv
  <1> SUFFICES ASSUME Init PROVE SignalInv
    OBVIOUS
  <1>1. \A u \in UseCases : Owed(u) = <<>> /\ pending[u] = {}
    BY DEF Init, Owed
  <1>2. PendingIsOwed
    BY <1>1 DEF PendingIsOwed, IsInjective, Range
  <1>3. NoDroppedSignal
    BY DEF Init, NoDroppedSignal, zero
  <1> QED BY <1>1, <1>2, <1>3 DEF SignalInv, OnlyAssigned

\* Every step keeps the signals; publish_frame finds room because the cameras in
\* the queue are distinct and the one it adds is not among them.
LEMMA SignalStep == TypeOK /\ Shape /\ SignalInv /\ [Next]_vars => SignalInv'
  <1> SUFFICES ASSUME TypeOK, Shape, SignalInv, [Next]_vars
               PROVE  SignalInv'
    OBVIOUS
  <1> DEFINE OwedOK(u) == IsInjective(Owed(u)) /\ Range(Owed(u)) = pending[u]
  <1>a. /\ \A u \in UseCases : OwedOK(u)
        /\ \A u \in UseCases : /\ queue[u] \in Seq(Cameras)
                               /\ batch[u] \in Seq(Cameras)
                               /\ Owed(u) \in Seq(Cameras)
                               /\ pending[u] \subseteq Cameras
    BY DEF SignalInv, PendingIsOwed, TypeOK, Owed
  <1>1. CASE UNCHANGED <<batch, queue, pending, dropped>>
    BY <1>1 DEF SignalInv, PendingIsOwed, NoDroppedSignal, OnlyAssigned, Owed
  <1>2. ASSUME NEW c \in Cameras, NEW u \in UseCases, Publish(c, u)
        PROVE  SignalInv'
    <2>1. CASE c \in pending[u]
      BY <1>1, <1>2, <2>1 DEF Publish, signalVars, workVars
    <2>2. CASE c \notin pending[u]
      <3>1. c \notin Range(Owed(u)) /\ IsInjective(Owed(u))
        BY <1>a, <2>2
      <3>2. Len(queue[u]) < QueueSize(u)
        <4>1. IsInjective(queue[u]) /\ Range(queue[u]) \subseteq pending[u]
          BY <1>a, InjectiveConcat, RangeOfConcat DEF Owed
        <4>2. /\ pending[u] \subseteq Assigned[u] /\ c \in Assigned[u]
              /\ IsFiniteSet(Assigned[u])
          BY <1>2, AssignedAssumption, FS_Subset
             DEF Publish, SignalInv, OnlyAssigned, TypeOK
        <4>3. queue[u] \in Seq(Assigned[u])
          <5>1. queue[u] \in Seq(Range(queue[u]))
            BY <1>a, SeqOfRange
          <5> QED BY <4>1, <4>2, <5>1, SeqMonotonic
        <4> QED BY <2>2, <4>1, <4>2, <4>3, ShorterThanSet DEF QueueSize
      <3>3. /\ queue' = [queue EXCEPT ![u] = Append(@, c)]
            /\ pending' = [pending EXCEPT ![u] = @ \cup {c}]
            /\ UNCHANGED <<dropped, batch>>
        BY <1>2, <2>2, <3>2 DEF Publish, workVars
      <3>4. Owed(u)' = Append(Owed(u), c)
        BY <1>a, <3>3 DEF Owed, TypeOK
      <3>5. OwedOK(u)'
        BY <1>a, <3>1, <3>3, <3>4, AppendFresh DEF TypeOK
      <3>6. \A v \in UseCases \ {u} : OwedOK(v)'
        BY <1>a, <3>3 DEF Owed, TypeOK
      <3>7. c \in Assigned[u]
        BY <1>2 DEF Publish, TypeOK
      <3> QED BY <3>3, <3>5, <3>6, <3>7 DEF TypeOK, SignalInv, PendingIsOwed, NoDroppedSignal,
             OnlyAssigned
    <2> QED BY <2>1, <2>2
  <1>3. ASSUME NEW u \in UseCases, TakeFirst(u) PROVE SignalInv'
    <2>1. Owed(u)' = Append(batch[u], Head(queue[u])) \o Tail(queue[u])
      <3>1. batch[u] = <<>>
        BY <1>3 DEF TakeFirst, Goto, Shape
      <3>2. batch'[u] = <<Head(queue[u])>> /\ queue'[u] = Tail(queue[u])
        BY <1>3 DEF TakeFirst, TypeOK
      <3>3. Append(<<>>, Head(queue[u])) = <<Head(queue[u])>>
        OBVIOUS
      <3> QED BY <3>1, <3>2, <3>3 DEF Owed
    <2>2. Owed(u)' = Owed(u)
      BY <1>a, <1>3, <2>1, TakeKeepsConcat DEF TakeFirst, Owed
    <2>3. \A v \in UseCases \ {u} : Owed(v)' = Owed(v)
      BY <1>3 DEF TakeFirst, Owed, TypeOK
    <2> QED
      BY <1>3, <2>2, <2>3 DEF TakeFirst, SignalInv, PendingIsOwed, NoDroppedSignal,
             OnlyAssigned
  <1>4. ASSUME NEW u \in UseCases, TakeMore(u) PROVE SignalInv'
    <2>1. Head(queue[u]) \notin Range(batch[u])
      <3>1. Range(batch[u]) \cap Range(queue[u]) = {}
        BY <1>a, InjectiveConcat DEF Owed
      <3>2. IsInjective(queue[u]) /\ queue[u] # <<>>
        BY <1>a, <1>4, InjectiveConcat DEF Owed, TakeMore
      <3>3. Head(queue[u]) \in Range(queue[u])
        BY <1>a, <3>2, TailOfInjective
      <3> QED BY <3>1, <3>3
    <2>2. Owed(u)' = Append(batch[u], Head(queue[u])) \o Tail(queue[u])
      BY <1>a, <1>4, <2>1 DEF TakeMore, Owed, TypeOK
    <2>3. Owed(u)' = Owed(u)
      BY <1>a, <1>4, <2>2, TakeKeepsConcat DEF TakeMore, Owed
    <2>4. \A v \in UseCases \ {u} : Owed(v)' = Owed(v)
      BY <1>4, <2>1 DEF TakeMore, Owed, TypeOK
    <2> QED
      BY <1>4, <2>3, <2>4 DEF TakeMore, SignalInv, PendingIsOwed, NoDroppedSignal,
             OnlyAssigned
  <1>5. ASSUME NEW u \in UseCases, ClearPending(u) PROVE SignalInv'
    <2>1. batch[u] # <<>> /\ batch'[u] = Tail(batch[u]) /\ queue' = queue
      BY <1>5 DEF ClearPending, TypeOK
    <2>2. Owed(u) # <<>> /\ Owed(u)' = Tail(Owed(u)) /\ Head(Owed(u)) = Head(batch[u])
      <3>1. batch[u] \in Seq(Cameras) /\ queue[u] \in Seq(Cameras)
        BY <1>a
      <3>2. Owed(u)' = Tail(batch[u]) \o queue[u]
        BY <2>1 DEF Owed
      <3> QED BY <2>1, <3>1, <3>2, HeadOfConcat DEF Owed
    <2>3. OwedOK(u)'
      BY <1>a, <1>5, <2>2, TailOfInjective DEF ClearPending, TypeOK
    <2>4. \A v \in UseCases \ {u} : OwedOK(v)'
      BY <1>a, <1>5 DEF ClearPending, Owed, TypeOK
    <2> QED
      BY <1>5, <2>3, <2>4 DEF ClearPending, SignalInv, PendingIsOwed, NoDroppedSignal,
             OnlyAssigned
  <1>6. ASSUME NEW c \in Cameras, Capture(c)
        PROVE  UNCHANGED <<batch, queue, pending, dropped>>
    BY <1>6 DEF Capture, Watchers, signalVars, workVars
  <1>7. ASSUME Stop PROVE UNCHANGED <<batch, queue, pending, dropped>>
    BY <1>7 DEF Stop, signalVars, workVars
  <1>8. ASSUME NEW u \in UseCases,
               LoopHead(u) \/ FirstTimeout(u) \/ CloseBatch(u) \/ ReadSlot(u)
               \/ BatchRead(u) \/ Infer(u) \/ StaleDrop(u) \/ WorkerFails(u)
               \/ WriteResult(u)
        PROVE  UNCHANGED <<batch, queue, pending, dropped>>
    BY <1>8 DEF LoopHead, FirstTimeout, CloseBatch, ReadSlot, BatchRead, Infer,
                StaleDrop, WorkerFails, WriteResult, signalVars, workVars
  <1>9. ASSUME UNCHANGED vars PROVE UNCHANGED <<batch, queue, pending, dropped>>
    BY <1>9 DEF vars, signalVars, workVars
  <1> QED
    BY <1>1, <1>2, <1>3, <1>4, <1>5, <1>6, <1>7, <1>8, <1>9 DEF Next, WorkerStep

\* signal_pending of a camera is set exactly while one signal of it is under way,
\* for every interleaving of publish_frame with the workers.
THEOREM PendingIsAlwaysOwed == Spec => []PendingIsOwed
  <1>1. SignalInv => PendingIsOwed
    BY DEF SignalInv
  <1> QED BY <1>1, SignalInit, SignalStep, TypeCorrect, PTL DEF Spec

\* A signal queue with one place per assigned camera never overflows: the
\* queue.Full branch of publish_frame is dead and dropped_signals stays 0.
THEOREM SignalsAreNeverDropped == Spec => []NoDroppedSignal
  <1>1. SignalInv => NoDroppedSignal
    BY DEF SignalInv
  <1> QED BY <1>1, SignalInit, SignalStep, TypeCorrect, PTL DEF Spec

-----------------------------------------------------------------------------
(* No lost wake-up.                                                        *)

\* NoLostWakeup with the flag in place of the signal it stands for.
FlagWakes ==
    \A u \in UseCases : \A c \in Assigned[u] :
        seen[u][c] < raw[c] =>
            c \in pending[u] \/ u \in todo[c] \/ cur[u] = c

\* Every step keeps an unread frame announced.
LEMMA FlagWakesStep ==
    TypeOK /\ Shape /\ SignalInv /\ SignalInv' /\ FlagWakes /\ [Next]_vars
        => FlagWakes'
  <1> SUFFICES ASSUME TypeOK, Shape, SignalInv, SignalInv', FlagWakes, [Next]_vars
               PROVE  FlagWakes'
    OBVIOUS
  <1>a. \A u \in UseCases : Assigned[u] \subseteq Cameras
    BY AssignedAssumption
  <1>1. ASSUME NEW d \in Cameras, Capture(d) PROVE FlagWakes'
    BY <1>1, <1>a DEF Capture, Watchers, FlagWakes, TypeOK, signalVars, workVars
  <1>2. ASSUME NEW d \in Cameras, NEW v \in UseCases, Publish(d, v)
        PROVE  FlagWakes'
    <2>1. /\ seen' = seen /\ raw' = raw /\ cur' = cur
          /\ todo' = [todo EXCEPT ![d] = @ \ {v}]
      BY <1>2 DEF Publish, workVars
    <2>2. CASE UNCHANGED signalVars /\ d \in pending[v]
      BY <2>1, <2>2, <1>a DEF FlagWakes, TypeOK, signalVars
    <2>3. CASE pending' = [pending EXCEPT ![v] = @ \cup {d}]
      BY <2>1, <2>3, <1>a DEF FlagWakes, TypeOK
    <2>4. CASE dropped' = [dropped EXCEPT ![v][d] = @ + 1]
      <3>1. dropped[v][d] = 0 /\ dropped'[v][d] = 0
        BY DEF SignalInv, NoDroppedSignal
      <3>2. dropped'[v][d] = dropped[v][d] + 1
        <4>1. dropped[v] \in [Cameras -> Nat]
          BY DEF TypeOK, PerCamera
        <4> QED BY <2>4, <4>1 DEF TypeOK, PerCamera
      <3> QED BY <3>1, <3>2
    <2> QED BY <1>2, <2>2, <2>3, <2>4 DEF Publish
  <1>3. ASSUME NEW v \in UseCases, ClearPending(v) PROVE FlagWakes'
    <2>1. /\ raw' = raw /\ todo' = todo /\ seen' = seen
          /\ cur[v] = None
          /\ cur' = [cur EXCEPT ![v] = Head(batch[v])]
          /\ pending' = [pending EXCEPT ![v] = @ \ {Head(batch[v])}]
      BY <1>3 DEF ClearPending, Goto, Shape, camVars
    <2>2. None \notin Cameras
      BY AssignedAssumption
    <2> QED BY <2>1, <2>2, <1>a DEF FlagWakes, TypeOK
  <1>4. ASSUME NEW v \in UseCases, ReadSlot(v) PROVE FlagWakes'
    <2> SUFFICES ASSUME NEW u \in UseCases, NEW c \in Assigned[u],
                        seen'[u][c] < raw'[c]
                 PROVE  c \in pending'[u] \/ u \in todo'[c] \/ cur'[u] = c
      BY DEF FlagWakes
    <2>1. /\ raw' = raw /\ todo' = todo /\ pending' = pending
          /\ cur' = [cur EXCEPT ![v] = None]
          /\ seen' = [seen EXCEPT ![v][cur[v]] = raw[cur[v]]]
          /\ cur[v] \in Cameras
      BY <1>4 DEF ReadSlot, Goto, Shape, TypeOK, camVars, signalVars
    <2>2. c \in Cameras /\ raw[c] \in Nat /\ seen[u] \in [Cameras -> Nat]
      BY <1>a DEF TypeOK, PerCamera
    <2>3. ~(u = v /\ c = cur[v])
      BY <2>1, <2>2 DEF TypeOK, PerCamera
    <2>4. seen'[u][c] = seen[u][c]
      BY <2>1, <2>2, <2>3 DEF TypeOK, PerCamera
    <2> QED BY <2>1, <2>2, <2>3, <2>4 DEF FlagWakes, TypeOK
  <1>5. ASSUME UNCHANGED <<raw, todo, pending, cur, seen>> PROVE FlagWakes'
    BY <1>5 DEF FlagWakes
  <1>6. ASSUME Stop PROVE FlagWakes'
    BY <1>5, <1>6 DEF Stop, camVars, signalVars, workVars
  <1>7. ASSUME NEW u \in UseCases,
               LoopHead(u) \/ TakeFirst(u) \/ FirstTimeout(u) \/ TakeMore(u)
               \/ CloseBatch(u) \/ BatchRead(u) \/ Infer(u) \/ StaleDrop(u)
               \/ WorkerFails(u) \/ WriteResult(u)
        PROVE  FlagWakes'
    BY <1>5, <1>7
       DEF LoopHead, TakeFirst, FirstTimeout, TakeMore, CloseBatch, BatchRead,
           Infer, StaleDrop, WorkerFails, WriteResult, camVars, signalVars, workVars
  <1>8. ASSUME UNCHANGED vars PROVE FlagWakes'
    BY <1>5, <1>8 DEF vars, camVars, signalVars, workVars
  <1> QED
    BY <1>1, <1>2, <1>3, <1>4, <1>6, <1>7, <1>8 DEF Next, WorkerStep

\* A raw frame a use case has not read is always announced: clearing the flag
\* before reading the slot loses no frame that arrives in between.
THEOREM NoWakeupIsLost == Spec => []NoLostWakeup
  <1>1. Init => FlagWakes
    BY AssignedAssumption DEF Init, FlagWakes, zero
  <1>2. SignalInv /\ FlagWakes => NoLostWakeup
    BY DEF SignalInv, PendingIsOwed, FlagWakes, NoLostWakeup
  <1> QED
    BY <1>1, <1>2, FlagWakesStep, SignalInit, SignalStep, TypeCorrect, PTL DEF Spec
-----------------------------------------------------------------------------
(* The frames in hand, and the refinement of LatestFrame.                  *)

\* A camera is in one place of a batch only: left to read, being read, or read.
Apart ==
    \A u \in UseCases :
        /\ cur[u] \notin Range(batch[u])
        /\ \A f \in Range(frames[u]) : f[1] # cur[u] /\ f[1] \notin Range(batch[u])

\* What is shown was read, and what was read was captured.
Ordered ==
    \A u \in UseCases, c \in Cameras :
        inference[u][c] <= seen[u][c] /\ seen[u][c] <= raw[c]

FreshInv == Apart /\ Ordered /\ BatchIsFresh

\* No worker holds a frame initially.
LEMMA FreshInit == Init => FreshInv
  <1> SUFFICES ASSUME Init PROVE FreshInv
    OBVIOUS
  <1>1. Apart
    BY DEF Init, Apart, Range
  <1>2. Ordered
    BY DEF Init, Ordered, zero
  <1>3. BatchIsFresh
    BY DEF Init, BatchIsFresh, Range
  <1> QED BY <1>1, <1>2, <1>3 DEF FreshInv

\* Every step keeps the frames in hand the newest read.
LEMMA FreshStep ==
    TypeOK /\ Shape /\ SignalInv /\ FreshInv /\ [Next]_vars => FreshInv'
  <1> SUFFICES ASSUME TypeOK, Shape, SignalInv, FreshInv, [Next]_vars
               PROVE  FreshInv'
    OBVIOUS
  <1>a. /\ \A u \in UseCases : /\ batch[u] \in Seq(Cameras)
                               /\ queue[u] \in Seq(Cameras)
                               /\ frames[u] \in Seq(Cameras \X Nat)
                               /\ seen[u] \in [Cameras -> Nat]
                               /\ inference[u] \in [Cameras -> Nat]
                               /\ IsInjective(batch[u])
                               /\ Range(batch[u]) \cap Range(queue[u]) = {}
        /\ raw \in [Cameras -> Nat]
    BY InjectiveConcat DEF TypeOK, PerCamera, SignalInv, PendingIsOwed, Owed
  <1>1. ASSUME NEW d \in Cameras, Capture(d) PROVE FreshInv'
    <2>1. Ordered'
      BY <1>1, <1>a DEF Capture, Watchers, resultVars, FreshInv, Ordered
    <2> QED BY <1>1, <2>1 DEF Capture, Watchers, workVars, resultVars, FreshInv, Apart, BatchIsFresh
  <1>2. ASSUME NEW d \in Cameras, NEW v \in UseCases, Publish(d, v)
        PROVE  FreshInv'
    BY <1>2 DEF Publish, workVars, resultVars, FreshInv, Apart, Ordered, BatchIsFresh
  <1>3. ASSUME NEW v \in UseCases, TakeFirst(v) PROVE FreshInv'
    <2>1. /\ cur[v] = None /\ frames[v] = <<>> /\ Head(queue[v]) \in Cameras
          /\ batch' = [batch EXCEPT ![v] = <<Head(queue[v])>>]
          /\ UNCHANGED <<raw, cur, frames, seen, inference>>
      BY <1>a, <1>3 DEF TakeFirst, Goto, Shape, camVars, resultVars
    <2>2. None \notin Range(batch'[v]) /\ Range(frames[v]) = {}
      BY <2>1, AssignedAssumption DEF TypeOK, Range
    <2>3. Apart'
      BY <2>1, <2>2 DEF FreshInv, Apart, TypeOK
    <2> QED BY <2>1, <2>3 DEF FreshInv, Ordered, BatchIsFresh
  <1>4. ASSUME NEW v \in UseCases, TakeMore(v) PROVE FreshInv'
    <2>1. /\ cur[v] = None /\ frames[v] = <<>> /\ Head(queue[v]) \in Cameras
          /\ \/ batch' = batch
             \/ batch' = [batch EXCEPT ![v] = Append(@, Head(queue[v]))]
          /\ UNCHANGED <<raw, cur, frames, seen, inference>>
      BY <1>a, <1>4 DEF TakeMore, Shape, camVars, resultVars
    <2>2. batch'[v] \in Seq(Cameras)
      <3>1. CASE batch' = batch
        BY <1>a, <3>1
      <3>2. CASE batch' = [batch EXCEPT ![v] = Append(@, Head(queue[v]))]
        <4>1. batch'[v] = Append(batch[v], Head(queue[v]))
          BY <3>2 DEF TypeOK
        <4> QED BY <1>a, <2>1, <4>1
      <3> QED BY <2>1, <3>1, <3>2
    <2>3. None \notin Range(batch'[v]) /\ Range(frames[v]) = {}
      BY <2>1, <2>2, AssignedAssumption DEF Range
    <2>4. Apart'
      BY <2>1, <2>3 DEF FreshInv, Apart, TypeOK
    <2> QED BY <2>1, <2>4 DEF FreshInv, Ordered, BatchIsFresh
  <1>5. ASSUME NEW v \in UseCases, ClearPending(v) PROVE FreshInv'
    <2>1. /\ batch[v] # <<>>
          /\ batch' = [batch EXCEPT ![v] = Tail(@)]
          /\ cur' = [cur EXCEPT ![v] = Head(batch[v])]
          /\ UNCHANGED <<frames, raw, seen, inference>>
      BY <1>5 DEF ClearPending, camVars, resultVars
    <2>2. /\ Range(Tail(batch[v])) = Range(batch[v]) \ {Head(batch[v])}
          /\ Head(batch[v]) \in Range(batch[v])
      BY <1>a, <2>1, TailOfInjective
    <2>3. /\ batch'[v] = Tail(batch[v]) /\ cur'[v] = Head(batch[v])
          /\ \A u \in UseCases \ {v} : batch'[u] = batch[u] /\ cur'[u] = cur[u]
      BY <2>1 DEF TypeOK
    <2>4. Apart'
      BY <2>1, <2>2, <2>3 DEF FreshInv, Apart
    <2> QED BY <2>1, <2>4 DEF FreshInv, Ordered, BatchIsFresh
  <1>6. ASSUME NEW v \in UseCases, ReadSlot(v) PROVE FreshInv'
    <2> DEFINE c == cur[v]
               x == <<c, raw[c]>>
    <2>1. /\ c \in Cameras /\ raw[c] \in Nat /\ x \in Cameras \X Nat
          /\ frames' = IF raw[c] = 0 THEN frames
                       ELSE [frames EXCEPT ![v] = Append(@, x)]
          /\ seen' = [seen EXCEPT ![v][c] = raw[c]]
          /\ cur' = [cur EXCEPT ![v] = None]
          /\ UNCHANGED <<raw, batch, inference>>
      BY <1>6, <1>a DEF ReadSlot, Goto, Shape, TypeOK, camVars, resultVars
    <2>x. x[1] = c /\ x[2] = raw[c]
      OBVIOUS
    <2> HIDE DEF c, x
    <2>2. /\ cur'[v] = None
          /\ \A u \in UseCases \ {v} :
                frames'[u] = frames[u] /\ cur'[u] = cur[u] /\ seen'[u] = seen[u]
          /\ seen'[v] = [seen[v] EXCEPT ![c] = raw[c]]
          /\ frames'[v] = frames[v] \/ frames'[v] = Append(frames[v], x)
      BY <2>1 DEF TypeOK, PerCamera, c
    <2>3. \A f \in Range(frames[v]) : f[1] # c /\ f[1] \in Cameras
      BY <1>a DEF FreshInv, Apart, Range, c
    <2>4. /\ c \notin Range(batch[v])
          /\ None \notin Range(batch[v]) /\ None \notin Cameras
      BY <1>a, AssignedAssumption DEF FreshInv, Apart, Range, c
    <2>5. /\ frames'[v] = frames[v] => Range(frames'[v]) = Range(frames[v])
          /\ frames'[v] = Append(frames[v], x) =>
                Range(frames'[v]) = Range(frames[v]) \cup {x}
      <3>1. Range(Append(frames[v], x)) = Range(frames[v]) \cup {x}
        <4>1. frames[v] \in Seq(Cameras \X Nat) /\ x \in Cameras \X Nat
          BY <1>a, <2>1
        <4> QED BY ONLY <4>1, RangeAppend
      <3> QED BY <3>1
    <2>6. Apart'
      BY <2>1, <2>2, <2>3, <2>4, <2>5, <2>x DEF FreshInv, Apart
    <2>7. Ordered'
      <3>1. \A d \in Cameras : inference[v][d] <= seen'[v][d] /\ seen'[v][d] <= raw[d]
        BY <1>a, <2>1, <2>2 DEF FreshInv, Ordered
      <3> QED BY <2>1, <2>2, <3>1 DEF FreshInv, Ordered
    <2>8. BatchIsFresh'
      <3>1. DistinctFirsts(frames[v])
        BY DEF FreshInv, BatchIsFresh, DistinctFirsts
      <3>2. DistinctFirsts(frames'[v])
        <4>1. /\ frames[v] \in Seq(Cameras \X Nat) /\ x \in Cameras \X Nat
              /\ \A f \in Range(frames[v]) : f[1] # x[1]
          BY <1>a, <2>1, <2>3, <2>x
        <4>2. DistinctFirsts(Append(frames[v], x))
          BY ONLY <3>1, <4>1, DistinctAppend
        <4> QED BY <2>2, <3>1, <4>2
      <3>3. inference[v][c] <= raw[c]
        BY <1>a, <2>1 DEF FreshInv, Ordered
      <3>4. \A f \in Range(frames'[v]) :
               inference[v][f[1]] <= f[2] /\ f[2] = seen'[v][f[1]]
        BY <1>a, <2>1, <2>2, <2>3, <2>5, <2>x, <3>3 DEF FreshInv, BatchIsFresh
      <3> QED BY <2>1, <2>2, <3>2, <3>4 DEF FreshInv, BatchIsFresh, DistinctFirsts
    <2> QED BY <2>6, <2>7, <2>8 DEF FreshInv
  <1>7. ASSUME NEW v \in UseCases, StaleDrop(v) \/ WorkerFails(v) PROVE FreshInv'
    <2>1. /\ frames' = [frames EXCEPT ![v] = <<>>]
          /\ UNCHANGED <<batch, cur, raw, seen, inference>>
      BY <1>7 DEF StaleDrop, StaleCounted, WorkerFails, camVars, resultVars
    <2>2. Range(<<>>) = {}
      BY DEF Range
    <2>3. /\ frames'[v] = <<>>
          /\ \A u \in UseCases \ {v} : frames'[u] = frames[u]
      BY <2>1 DEF TypeOK
    <2>4. Apart'
      BY <2>1, <2>2, <2>3 DEF FreshInv, Apart
    <2>5. BatchIsFresh'
      BY <2>1, <2>2, <2>3 DEF FreshInv, BatchIsFresh
    <2> QED BY <2>1, <2>4, <2>5 DEF FreshInv, Ordered
  <1>8. ASSUME NEW v \in UseCases, WriteResult(v) PROVE FreshInv'
    <2> DEFINE f == Head(frames[v])
    <2>1. /\ frames[v] # <<>>
          /\ inference' = [inference EXCEPT ![v][f[1]] = f[2]]
          /\ frames' = [frames EXCEPT ![v] = Tail(@)]
          /\ UNCHANGED <<raw, batch, cur, seen>>
      BY <1>8 DEF WriteResult, Shape, camVars
    <2>2. /\ f \in Range(frames[v]) /\ f \in Cameras \X Nat
          /\ Range(Tail(frames[v])) \subseteq Range(frames[v])
      BY <1>a, <2>1, RangeTail, TailEmpty
    <2>3. DistinctFirsts(frames[v])
      BY DEF FreshInv, BatchIsFresh, DistinctFirsts
    <2>4. /\ DistinctFirsts(Tail(frames[v]))
          /\ \A g \in Range(Tail(frames[v])) : g[1] # f[1]
      BY <1>a, <2>1, <2>3, DistinctTail
    <2>5. f[2] = seen[v][f[1]] /\ f[1] \in Cameras /\ f[2] \in Nat
      BY <2>2 DEF FreshInv, BatchIsFresh
    <2> HIDE DEF f
    <2>6. /\ frames'[v] = Tail(frames[v])
          /\ inference'[v] = [inference[v] EXCEPT ![f[1]] = f[2]]
          /\ \A u \in UseCases \ {v} :
                frames'[u] = frames[u] /\ inference'[u] = inference[u]
      BY <2>1 DEF TypeOK, PerCamera
    <2>7. Apart'
      BY <2>1, <2>2, <2>6 DEF FreshInv, Apart
    <2>8. Ordered'
      <3>1. \A d \in Cameras : inference'[v][d] <= seen[v][d] /\ seen[v][d] <= raw[d]
        BY <1>a, <2>5, <2>6 DEF FreshInv, Ordered
      <3> QED BY <2>1, <2>6, <3>1 DEF FreshInv, Ordered
    <2>9. BatchIsFresh'
      <3>1. \A g \in Range(frames[v]) : g[1] \in Cameras
        BY <1>a DEF Range
      <3>2. \A g \in Range(frames'[v]) :
               inference'[v][g[1]] <= g[2] /\ g[2] = seen[v][g[1]]
        BY <1>a, <2>2, <2>4, <2>5, <2>6, <3>1 DEF FreshInv, BatchIsFresh
      <3> QED
        BY <2>1, <2>4, <2>6, <3>2 DEF FreshInv, BatchIsFresh, DistinctFirsts
    <2> QED BY <2>7, <2>8, <2>9 DEF FreshInv
  <1>9. ASSUME UNCHANGED <<raw, batch, cur, frames, seen, inference>>
        PROVE  FreshInv'
    BY <1>9 DEF FreshInv, Apart, Ordered, BatchIsFresh
  <1>10. ASSUME Stop PROVE FreshInv'
    BY <1>9, <1>10 DEF Stop, camVars, workVars, resultVars
  <1>11. ASSUME NEW u \in UseCases,
                LoopHead(u) \/ FirstTimeout(u) \/ CloseBatch(u) \/ BatchRead(u)
                \/ Infer(u)
         PROVE  FreshInv'
    BY <1>9, <1>11 DEF LoopHead, FirstTimeout, CloseBatch, BatchRead, Infer,
                       camVars, workVars, resultVars
  <1>12. ASSUME UNCHANGED vars PROVE FreshInv'
    BY <1>9, <1>12 DEF vars, camVars, workVars, resultVars
  <1> QED
    BY <1>1, <1>2, <1>3, <1>4, <1>5, <1>6, <1>7, <1>8, <1>10, <1>11, <1>12
       DEF Next, WorkerStep

\* The frames a worker holds are the newest it read, one per camera, and never
\* older than what the inference slot shows.
THEOREM BatchIsAlwaysFresh == Spec => []BatchIsFresh
  <1>1. FreshInv => BatchIsFresh
    BY DEF FreshInv
  <1> QED
    BY <1>1, FreshInit, FreshStep, SignalInit, SignalStep, TypeCorrect, PTL DEF Spec

\* What one captured frame may pay for: WorkIsPaidFor bounds this sum.
Units(u, c) ==
    inferred[u][c] + stale[u][c] + InBatch(u, c) + Signalled(u, c) + Publishing(u, c)

\* No work has been done and no frame captured initially.
LEMMA PaidInit == Init => WorkIsPaidFor
  <1> SUFFICES ASSUME Init, NEW u \in UseCases, NEW c \in Assigned[u]
               PROVE  Units(u, c) <= raw[c]
    BY DEF WorkIsPaidFor, Units
  <1>1. c \in Cameras
    BY AssignedAssumption
  <1>2. inferred[u][c] = 0 /\ stale[u][c] = 0 /\ raw[c] = 0
    BY <1>1 DEF Init, zero
  <1>3. Publishing(u, c) = 0 /\ Signalled(u, c) = 0
    BY <1>1 DEF Init, Publishing, Signalled
  <1>4. InBatch(u, c) = 0
    BY DEF Init, InBatch, InHand, Reading, Range
  <1> QED BY <1>2, <1>3, <1>4 DEF Units

\* Every step that starts a unit of work ends another one or follows a new frame.
LEMMA PaidStep ==
    /\ TypeOK /\ Shape /\ SignalInv /\ FreshInv /\ WorkIsPaidFor /\ [Next]_vars
    => WorkIsPaidFor'
  <1> SUFFICES ASSUME TypeOK, Shape, SignalInv, FreshInv, WorkIsPaidFor, [Next]_vars,
                      NEW u \in UseCases, NEW c \in Assigned[u]
               PROVE  Units(u, c)' <= raw'[c]
    BY DEF WorkIsPaidFor, Units
  <1>a. /\ c \in Cameras
        /\ frames[u] \in Seq(Cameras \X Nat) /\ batch[u] \in Seq(Cameras)
        /\ queue[u] \in Seq(Cameras)
        /\ raw[c] \in Nat /\ inferred[u][c] \in Nat /\ stale[u][c] \in Nat
        /\ inferred[u] \in [Cameras -> Nat] /\ stale[u] \in [Cameras -> Nat]
    BY AssignedAssumption DEF TypeOK, PerCamera
  <1>b. Units(u, c) <= raw[c]
    BY DEF WorkIsPaidFor, Units
  <1>c. /\ InBatch(u, c) \in {0, 1} /\ InBatch(u, c)' \in {0, 1}
        /\ Signalled(u, c) \in {0, 1} /\ Signalled(u, c)' \in {0, 1}
        /\ Publishing(u, c) \in {0, 1} /\ Publishing(u, c)' \in {0, 1}
    BY DEF InBatch, Signalled, Publishing
  <1>1. ASSUME NEW d \in Cameras, Capture(d) PROVE Units(u, c)' <= raw'[c]
    <2>1. /\ inferred' = inferred /\ stale' = stale
          /\ InBatch(u, c)' = InBatch(u, c) /\ Signalled(u, c)' = Signalled(u, c)
      BY <1>1 DEF Capture, signalVars, workVars, resultVars, InBatch, InHand, Reading,
                  Signalled
    <2>2. CASE d = c
      <3>1. Publishing(u, c) = 0 /\ raw'[c] = raw[c] + 1
        BY <1>1, <2>2 DEF Capture, Publishing, TypeOK
      <3> QED BY <1>a, <1>b, <1>c, <2>1, <3>1 DEF Units
    <2>3. CASE d # c
      <3>1. raw'[c] = raw[c] /\ Publishing(u, c)' = Publishing(u, c)
        BY <1>1, <1>a, <2>3 DEF Capture, Publishing, TypeOK
      <3> QED BY <1>a, <1>b, <2>1, <3>1 DEF Units
    <2> QED BY <2>2, <2>3
  <1>2. ASSUME NEW d \in Cameras, NEW v \in UseCases, Publish(d, v)
        PROVE  Units(u, c)' <= raw'[c]
    <2>1. /\ inferred' = inferred /\ stale' = stale /\ raw' = raw
          /\ InBatch(u, c)' = InBatch(u, c)
      BY <1>2 DEF Publish, workVars, resultVars, InBatch, InHand, Reading
    <2>2. CASE d = c /\ v = u
      <3>1. Publishing(u, c) = 1 /\ Publishing(u, c)' = 0
        BY <1>2, <1>a, <2>2 DEF Publish, Publishing, TypeOK
      <3> QED BY <1>a, <1>b, <1>c, <2>1, <3>1 DEF Units
    <2>3. CASE d # c \/ v # u
      <3>1. Publishing(u, c)' = Publishing(u, c)
        BY <1>2, <1>a, <2>3 DEF Publish, Publishing, TypeOK
      <3>2. pending' = pending \/ pending' = [pending EXCEPT ![v] = @ \cup {d}]
        BY <1>2 DEF Publish, signalVars
      <3>3. c \in pending'[u] <=> c \in pending[u]
        BY <1>a, <2>3, <3>2 DEF TypeOK
      <3>4. Signalled(u, c)' = Signalled(u, c)
        BY <3>3 DEF Signalled
      <3> QED BY <1>a, <1>b, <2>1, <3>1, <3>4 DEF Units
    <2> QED BY <2>2, <2>3
  <1>3. ASSUME NEW v \in UseCases, v # u, WorkerStep(v) PROVE Units(u, c)' <= raw'[c]
    <2>1. /\ raw' = raw /\ todo' = todo
          /\ inferred'[u] = inferred[u] /\ stale'[u] = stale[u]
          /\ pending'[u] = pending[u] /\ frames'[u] = frames[u] /\ cur'[u] = cur[u]
      BY <1>3 DEF WorkerStep, LoopHead, TakeFirst, FirstTimeout, TakeMore, CloseBatch,
                  ClearPending, ReadSlot, BatchRead, Infer, StaleDrop, StaleCounted,
                  WorkerFails, WriteResult, camVars, signalVars, workVars, resultVars,
                  TypeOK, PerCamera
    <2>2. /\ InBatch(u, c)' = InBatch(u, c) /\ Signalled(u, c)' = Signalled(u, c)
          /\ Publishing(u, c)' = Publishing(u, c)
      BY <2>1 DEF InBatch, InHand, Reading, Signalled, Publishing
    <2> QED BY <1>b, <2>1, <2>2 DEF Units
  <1>4. ASSUME ClearPending(u) PROVE Units(u, c)' <= raw'[c]
    <2> DEFINE d == Head(batch[u])
    <2>1. /\ inferred' = inferred /\ stale' = stale /\ raw' = raw /\ frames' = frames
          /\ Publishing(u, c)' = Publishing(u, c)
          /\ cur'[u] = d /\ pending'[u] = pending[u] \ {d}
          /\ cur[u] = None /\ batch[u] # <<>>
      BY <1>4 DEF ClearPending, Goto, Shape, camVars, resultVars, Publishing, TypeOK
    <2>2. d \in pending[u]
      <3>1. d \in Range(batch[u])
        BY <1>a, <2>1, RangeTail
      <3>2. d \in Range(Owed(u))
        BY <1>a, <3>1, RangeOfConcat DEF Owed
      <3> QED BY <3>2 DEF SignalInv, PendingIsOwed
    <2>3. CASE c = d
      <3>1. Signalled(u, c) = 1 /\ Signalled(u, c)' = 0
        BY <2>1, <2>2, <2>3 DEF Signalled
      <3> QED BY <1>a, <1>b, <1>c, <2>1, <3>1 DEF Units
    <2>4. CASE c # d
      <3>1. Signalled(u, c)' = Signalled(u, c)
        BY <2>1, <2>4 DEF Signalled
      <3>2. c \in (InHand(u) \cup Reading(u))' => c \in InHand(u) \cup Reading(u)
        BY <2>1, <2>4 DEF InHand, Reading
      <3>3. InBatch(u, c)' <= InBatch(u, c)
        BY <3>2 DEF InBatch
      <3> QED BY <1>a, <1>b, <1>c, <2>1, <3>1, <3>3 DEF Units
    <2> QED BY <2>3, <2>4
  <1>5. ASSUME ReadSlot(u) PROVE Units(u, c)' <= raw'[c]
    <2> DEFINE x == <<cur[u], raw[cur[u]]>>
    <2>1. /\ inferred' = inferred /\ stale' = stale /\ raw' = raw
          /\ Publishing(u, c)' = Publishing(u, c) /\ Signalled(u, c)' = Signalled(u, c)
          /\ cur'[u] = None /\ cur[u] # None /\ x \in Cameras \X Nat
          /\ frames'[u] = frames[u] \/ frames'[u] = Append(frames[u], x)
      BY <1>5 DEF ReadSlot, Goto, Shape, camVars, signalVars, resultVars, Publishing,
                  Signalled, TypeOK
    <2>x. x[1] = cur[u]
      OBVIOUS
    <2> HIDE DEF x
    <2>2. Range(Append(frames[u], x)) = Range(frames[u]) \cup {x}
      <3>1. frames[u] \in Seq(Cameras \X Nat) /\ x \in Cameras \X Nat
        BY <1>a, <2>1
      <3> QED BY ONLY <3>1, RangeAppend
    <2>3. c \in (InHand(u) \cup Reading(u))' => c \in InHand(u) \cup Reading(u)
      <3>1. CASE frames'[u] = frames[u]
        BY <2>1, <3>1 DEF InHand, Reading
      <3>2. CASE frames'[u] = Append(frames[u], x)
        <4>1. Range(frames'[u]) = Range(frames[u]) \cup {x}
          BY <2>2, <3>2
        <4> QED BY <2>1, <2>x, <4>1 DEF InHand, Reading
      <3> QED BY <2>1, <3>1, <3>2
    <2>4. InBatch(u, c)' <= InBatch(u, c)
      BY <2>3 DEF InBatch
    <2> QED BY <1>a, <1>b, <1>c, <2>1, <2>4 DEF Units
  <1>6. ASSUME StaleDrop(u) \/ WorkerFails(u) PROVE Units(u, c)' <= raw'[c]
    <2>1. /\ inferred' = inferred /\ raw' = raw
          /\ Publishing(u, c)' = Publishing(u, c) /\ Signalled(u, c)' = Signalled(u, c)
          /\ frames'[u] = <<>> /\ cur'[u] = None
      BY <1>6 DEF StaleDrop, StaleCounted, WorkerFails, Goto, Shape, camVars, signalVars,
                  resultVars, Publishing, Signalled, TypeOK
    <2>2. \/ stale'[u][c] = stale[u][c]
          \/ (stale'[u][c] = stale[u][c] + 1 /\ InBatch(u, c) = 1)
      <3>1. CASE WorkerFails(u)
        <4>1. stale' = stale
          BY <3>1 DEF WorkerFails, resultVars
        <4> QED BY <4>1
      <3>2. CASE StaleDrop(u)
        <4>1. stale'[u][c] = IF \E f \in Range(frames[u]) : f[1] = c
                             THEN stale[u][c] + 1 ELSE stale[u][c]
          BY <1>a, <3>2 DEF StaleDrop, StaleCounted, TypeOK, PerCamera
        <4>2. CASE \E f \in Range(frames[u]) : f[1] = c
          <5>1. stale'[u][c] = stale[u][c] + 1
            BY <4>1, <4>2
          <5>2. InBatch(u, c) = 1
            BY <4>2 DEF InBatch, InHand
          <5> QED BY <5>1, <5>2
        <4>3. CASE ~ \E f \in Range(frames[u]) : f[1] = c
          <5>1. stale'[u][c] = stale[u][c]
            BY <4>1, <4>3
          <5> QED BY <5>1
        <4> QED BY <4>2, <4>3
      <3> QED BY <1>6, <3>1, <3>2
    <2>3. InBatch(u, c)' = 0
      BY <2>1 DEF InBatch, InHand, Reading, Range
    <2> QED BY <1>a, <1>b, <1>c, <2>1, <2>2, <2>3 DEF Units
  <1>7. ASSUME WriteResult(u) PROVE Units(u, c)' <= raw'[c]
    <2> DEFINE f == Head(frames[u])
    <2>1. /\ stale' = stale /\ raw' = raw
          /\ Publishing(u, c)' = Publishing(u, c) /\ Signalled(u, c)' = Signalled(u, c)
          /\ frames[u] # <<>> /\ frames'[u] = Tail(frames[u])
          /\ cur[u] = None /\ cur'[u] = None
          /\ inferred' = [inferred EXCEPT ![u][f[1]] = @ + 1]
      BY <1>7 DEF WriteResult, Shape, camVars, signalVars, Publishing, Signalled, TypeOK
    <2>2. /\ f \in Range(frames[u]) /\ f \in Cameras \X Nat
          /\ Range(Tail(frames[u])) \subseteq Range(frames[u])
      BY <1>a, <2>1, RangeTail, TailEmpty
    <2>3. \A g \in Range(Tail(frames[u])) : g[1] # f[1]
      <3>1. DistinctFirsts(frames[u])
        BY DEF FreshInv, BatchIsFresh, DistinctFirsts
      <3> QED BY <1>a, <2>1, <3>1, DistinctTail
    <2> HIDE DEF f
    <2>4. CASE c = f[1]
      <3>1. InBatch(u, c) = 1 /\ InBatch(u, c)' = 0
        BY <2>1, <2>2, <2>3, <2>4 DEF InBatch, InHand, Reading
      <3>2. inferred'[u][c] = inferred[u][c] + 1
        BY <1>a, <2>1, <2>4 DEF TypeOK, PerCamera
      <3> QED BY <1>a, <1>b, <1>c, <2>1, <3>1, <3>2 DEF Units
    <2>5. CASE c # f[1]
      <3>1. inferred'[u][c] = inferred[u][c]
        BY <1>a, <2>1, <2>2, <2>5 DEF TypeOK, PerCamera
      <3>2. c \in (InHand(u) \cup Reading(u))' => c \in InHand(u) \cup Reading(u)
        BY <2>1, <2>2 DEF InHand, Reading
      <3>3. InBatch(u, c)' <= InBatch(u, c)
        BY <3>2 DEF InBatch
      <3> QED BY <1>a, <1>b, <1>c, <2>1, <3>1, <3>3 DEF Units
    <2> QED BY <2>4, <2>5
  <1>8. ASSUME UNCHANGED <<raw, todo, pending, frames, cur, inferred, stale>>
        PROVE  Units(u, c)' <= raw'[c]
    BY <1>b, <1>8 DEF Units, InBatch, InHand, Reading, Signalled, Publishing
  <1>9. ASSUME Stop \/ UNCHANGED vars PROVE Units(u, c)' <= raw'[c]
    BY <1>8, <1>9 DEF Stop, vars, camVars, signalVars, workVars, resultVars
  <1>10. ASSUME LoopHead(u) \/ TakeFirst(u) \/ FirstTimeout(u) \/ TakeMore(u)
                \/ CloseBatch(u) \/ BatchRead(u) \/ Infer(u)
         PROVE  Units(u, c)' <= raw'[c]
    BY <1>8, <1>10 DEF LoopHead, TakeFirst, FirstTimeout, TakeMore, CloseBatch,
                       BatchRead, Infer, camVars, signalVars, workVars, resultVars
  <1>11. ASSUME WorkerStep(u) PROVE Units(u, c)' <= raw'[c]
    BY <1>4, <1>5, <1>6, <1>7, <1>10, <1>11 DEF WorkerStep
  <1> QED BY <1>1, <1>2, <1>3, <1>9, <1>11 DEF Next

\* One captured frame pays for at most one unit of work, for any number of cameras,
\* use cases and frames: no interleaving makes a worker spin on one frame.
THEOREM WorkIsAlwaysPaidFor == Spec => []WorkIsPaidFor
  <1> QED
    BY PaidInit, PaidStep, FreshInit, FreshStep, SignalInit, SignalStep, TypeCorrect,
       PTL DEF Spec

\* Latest-frame transport implements the abstract mailbox: every step publishes
\* one frame, shows one frame that is not older, or changes neither slot.
THEOREM RoutingImplementsLatestFrame == Spec => ImplementsLatestFrame
  <1>1. Init => LF!Init
    BY DEF Init, LF!Init, zero
  <1>2. TypeOK /\ Shape /\ FreshInv /\ [Next]_vars => [LF!Next]_(LF!vars)
    <2> SUFFICES ASSUME TypeOK, Shape, FreshInv, [Next]_vars
                 PROVE  LF!Next \/ UNCHANGED <<raw, inference>>
      BY DEF LF!vars
    <2>1. ASSUME NEW c \in Cameras, Capture(c) PROVE LF!Next
      BY <2>1 DEF Capture, Watchers, resultVars, LF!Next, LF!Produce
    <2>2. ASSUME NEW u \in UseCases, WriteResult(u) PROVE LF!Next
      <3> DEFINE f == Head(frames[u])
      <3>1. /\ frames[u] # <<>> /\ frames[u] \in Seq(Cameras \X Nat)
            /\ inference' = [inference EXCEPT ![u][f[1]] = f[2]]
            /\ UNCHANGED raw
        BY <2>2 DEF WriteResult, Shape, TypeOK, camVars
      <3>2. f \in Range(frames[u]) /\ f \in Cameras \X Nat
        BY <3>1, RangeTail, TailEmpty
      <3>3. /\ f[1] \in Cameras /\ f[2] \in Nat
            /\ inference[u][f[1]] <= f[2] /\ f[2] = seen[u][f[1]]
            /\ seen[u][f[1]] <= raw[f[1]]
        BY <3>2 DEF FreshInv, BatchIsFresh, Ordered
      <3>4. inference[u][f[1]] \in Nat /\ raw[f[1]] \in Nat
        BY <3>3 DEF TypeOK, PerCamera
      <3> HIDE DEF f
      <3>5. f[2] \in inference[u][f[1]] .. raw[f[1]]
        BY <3>3, <3>4
      <3>6. LF!Deliver(u, f[1])
        BY <3>1, <3>5 DEF LF!Deliver
      <3> QED BY <3>3, <3>6 DEF LF!Next
    <2>3. ASSUME NEW c \in Cameras, NEW u \in UseCases, Publish(c, u)
          PROVE  UNCHANGED <<raw, inference>>
      BY <2>3 DEF Publish, resultVars
    <2>4. ASSUME Stop PROVE UNCHANGED <<raw, inference>>
      BY <2>4 DEF Stop, camVars, resultVars
    <2>5. ASSUME NEW u \in UseCases,
                 LoopHead(u) \/ TakeFirst(u) \/ FirstTimeout(u) \/ TakeMore(u)
                 \/ CloseBatch(u) \/ ClearPending(u) \/ ReadSlot(u)
                 \/ BatchRead(u) \/ Infer(u) \/ StaleDrop(u) \/ WorkerFails(u)
          PROVE  UNCHANGED <<raw, inference>>
      BY <2>5 DEF LoopHead, TakeFirst, FirstTimeout, TakeMore, CloseBatch,
                  ClearPending, ReadSlot, BatchRead, Infer, StaleDrop,
                  WorkerFails, camVars, resultVars
    <2>6. ASSUME UNCHANGED vars PROVE UNCHANGED <<raw, inference>>
      BY <2>6 DEF vars, camVars, resultVars
    <2> QED
      BY <2>1, <2>2, <2>3, <2>4, <2>5, <2>6 DEF Next, WorkerStep
  <1> QED
    BY <1>1, <1>2, FreshInit, FreshStep, SignalInit, SignalStep, TypeCorrect, PTL
       DEF Spec, ImplementsLatestFrame, LF!Spec
=============================================================================
