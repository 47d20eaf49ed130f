----------------------------- MODULE RunnerProofs -----------------------------
(***************************************************************************)
(* Safety of Runner for every number of tasks and every slot count.        *)
(*                                                                         *)
(* Bookkeeping is the inductive core: who waits is exactly what the        *)
(* semaphore's queue lists, in arrival order, and slots are conserved.     *)
(* Every action either moves one coroutine inside its slot (Step) or gives *)
(* the slot up (Release), so two lemmas about these carry the invariant    *)
(* through all the stages of _run_one.                                     *)
(***************************************************************************)
EXTENDS Runner, FiniteSetTheorems, FunctionTheorems, TLAPS

\* Which tasks exist, and that coroutines begin in the order of creation.
Unstarted == {"pending", "created"}

Started ==
  /\ \A t \in Tasks : stage[t] = "pending" <=> arrived < t
  /\ \A t, u \in Tasks : u < t /\ stage[t] \notin Unstarted => stage[u] \notin Unstarted

Bookkeeping == TypeOK /\ Started /\ ArrivalOrder /\ NoSlotLost

USE NAssumption, MaxInFlightAssumption

-------------------------------------------------------------------------------
LEMMA SlotsType == TypeOK => Slots \in Nat
  BY DEF TypeOK, Slots

LEMMA HoldersFinite == IsFiniteSet(Holders) /\ Cardinality(Holders) \in Nat
  <1>1. IsFiniteSet(Tasks)
    BY FS_Interval DEF Tasks
  <1>2. Holders \in SUBSET Tasks
    BY DEF Holders
  <1>3. QED
    BY <1>1, <1>2, FS_Subset, FS_CardinalityType

\* The values Finish reports are records.
LEMMA RecordTypes ==
  ASSUME NEW t \in Tasks
  PROVE  /\ \A error \in {"clone", "session", "message", "timeout"}, session \in BOOLEAN,
               messages \in {"none", "partial"} :
              /\ Failed(t, error, session, messages) \in Record
              /\ Failed(t, error, session, messages).task = t
         /\ \A error \in {"none", "list"}, messages \in {"none", "all"} :
              /\ Succeeded(t, error, messages) \in Record
              /\ Succeeded(t, error, messages).task = t
  BY DEF Failed, Succeeded, Record

-------------------------------------------------------------------------------
(* Type correctness *)

LEMMA ReleaseType ==
  ASSUME TypeOK, NEW t \in Tasks, NEW end \in {"done", "raised"}, Release(t, end)
  PROVE  /\ stage' \in [Tasks -> Stages]
         /\ free' \in Nat
         /\ queue' \in Seq(Tasks)
  <1>1. CASE queue = <<>>
    BY <1>1 DEF TypeOK, Release, Stages, InSlot
  <1>2. CASE queue # <<>>
    <2>1. Head(queue) \in Tasks /\ Tail(queue) \in Seq(Tasks)
      BY <1>2 DEF TypeOK
    <2>2. QED
      BY <1>2, <2>1 DEF TypeOK, Release, Stages, InSlot
  <1>3. QED
    BY <1>1, <1>2

LEMMA FinishType ==
  ASSUME TypeOK, NEW t \in Tasks, NEW r \in Record, Finish(t, r)
  PROVE  TypeOK'
  <1>1. /\ stage' \in [Tasks -> Stages]
        /\ free' \in Nat
        /\ queue' \in Seq(Tasks)
    BY ReleaseType DEF Finish
  <1>2. Append(trace, r) \in Seq(Record) /\ Append(records, r) \in Seq(Record)
    BY DEF TypeOK
  <1>3. trace' \in Seq(Record) /\ records' \in Seq(Record)
    BY <1>2 DEF Finish, TypeOK
  <1>4. QED
    BY <1>1, <1>3 DEF TypeOK, Finish

LEMMA StepType ==
  ASSUME TypeOK, NEW t \in Tasks, NEW from, NEW to \in Stages, Step(t, from, to),
         UNCHANGED agent
  PROVE  TypeOK'
  BY DEF TypeOK, Step

LEMMA ClientType ==
  ASSUME TypeOK, NEW t \in Tasks, Client(t)
  PROVE  TypeOK'
  <1>1. CASE Start(t)
    <2>1. Append(queue, t) \in Seq(Tasks)
      BY DEF TypeOK
    <2>2. /\ stage' \in [Tasks -> Stages]
          /\ free' \in Nat
          /\ queue' \in Seq(Tasks)
      <3>1. CASE queue = <<>> /\ free > 0
        <4>1. /\ stage' = [stage EXCEPT ![t] = "clone"]
              /\ queue' = queue
              /\ free' = free - 1
          BY <1>1, <3>1 DEF Start, Acquire, TypeOK
        <4>2. QED
          BY <4>1, <3>1 DEF TypeOK, Stages, InSlot
      <3>2. CASE ~(queue = <<>> /\ free > 0)
        <4>1. /\ stage' = [stage EXCEPT ![t] = "waiting"]
              /\ queue' = Append(queue, t)
              /\ free' = free
          BY <1>1, <3>2 DEF Start, Acquire
        <4>2. QED
          BY <4>1, <2>1 DEF TypeOK, Stages
      <3>3. QED
        BY <3>1, <3>2
    <2>3. QED
      BY <1>1, <2>2 DEF Start, TypeOK
  <1> USE RecordTypes, FinishType, StepType
  <1>2. CASE Prepare(t)
    BY <1>2 DEF Prepare, Stages, InSlot
  <1>3. CASE CreateSession(t)
    <2>1. CASE Release(t, "raised") /\ UNCHANGED <<args, driver, arrived, agent, trace, records, summary>>
      BY <2>1, ReleaseType DEF TypeOK
    <2>2. QED
      BY <1>3, <2>1 DEF CreateSession, Stages, InSlot
  <1>4. CASE MessageReturns(t)
    BY <1>4 DEF MessageReturns, Stages, InSlot
  <1>5. CASE MessageFails(t)
    BY <1>5 DEF MessageFails
  <1>6. CASE Timeout(t)
    BY <1>6 DEF Timeout, Stages, InSlot
  <1>7. CASE ListPartial(t)
    BY <1>7 DEF ListPartial
  <1>8. CASE ListMessages(t)
    BY <1>8 DEF ListMessages
  <1>9. QED
    BY <1>1, <1>2, <1>3, <1>4, <1>5, <1>6, <1>7, <1>8 DEF Client

LEMMA NextType == TypeOK /\ [Next]_vars => TypeOK'
  <1> SUFFICES ASSUME TypeOK, [Next]_vars
               PROVE  TypeOK'
    OBVIOUS
  <1>1. CASE Arrive
    <2>1. stage' \in [Tasks -> Stages] /\ arrived' \in 0..N
      BY <1>1 DEF Arrive, TypeOK, Stages, Tasks
    <2>2. QED
      BY <1>1, <2>1 DEF Arrive, TypeOK
  <1>2. ASSUME NEW t \in Tasks, Client(t) PROVE TypeOK'
    BY <1>2, ClientType
  <1>3. ASSUME NEW t \in Tasks, AgentBegins(t) PROVE TypeOK'
    BY <1>3 DEF AgentBegins, TypeOK
  <1>4. ASSUME NEW t \in Tasks, AgentEnds(t) PROVE TypeOK'
    BY <1>4 DEF AgentEnds, TypeOK
  <1>5. CASE LastArrival
    BY <1>5 DEF LastArrival, TypeOK
  <1>6. CASE WriteSummary
    <2>1. {i \in 1..Len(records) : records[i].success} \in SUBSET (1..Len(records))
      OBVIOUS
    <2>2. IsFiniteSet(1..Len(records)) /\ Len(records) \in Nat
      BY FS_Interval DEF TypeOK
    <2>3. Summarise(records) \in [count : Int, ok : Int]
      BY <2>1, <2>2, FS_Subset, FS_CardinalityType DEF Summarise
    <2>4. QED
      BY <1>6, <2>3 DEF WriteSummary, TypeOK
  <1>7. CASE Abort
    <2>1. \A t \in Tasks : stage'[t] \in Stages
      BY <1>7 DEF Abort, TypeOK, Stages, InSlot
    <2>2. QED
      BY <1>7, <2>1, SlotsType DEF Abort, TypeOK
  <1>8. CASE UNCHANGED vars
    BY <1>8 DEF vars, TypeOK
  <1>9. QED
    BY <1>1, <1>2, <1>3, <1>4, <1>5, <1>6, <1>7, <1>8 DEF Next

\* Every variable of Runner keeps its type, whatever N and MaxInFlight are.
THEOREM TypeCorrect == Spec => []TypeOK
  <1>1. Init => TypeOK
    BY DEF Init, TypeOK, Slots, Stages, InSlot, NoSummary, Tasks
  <1>2. QED
    BY <1>1, NextType, PTL DEF Spec

-------------------------------------------------------------------------------
(* Slots and arrival order *)

\* The head of the queue is the oldest waiter and the tail lists the others.
LEMMA QueueHead ==
  ASSUME Bookkeeping, queue # <<>>
  PROVE  /\ Head(queue) \in Tasks
         /\ stage[Head(queue)] = "waiting"
         /\ \A u \in Tasks : stage[u] = "waiting" => Head(queue) <= u
         /\ {Tail(queue)[i] : i \in 1..Len(Tail(queue))}
              = {u \in Tasks : stage[u] = "waiting"} \ {Head(queue)}
         /\ \A i, j \in 1..Len(Tail(queue)) : i < j => Tail(queue)[i] < Tail(queue)[j]
  <1>1. /\ queue \in Seq(Tasks)
        /\ {queue[i] : i \in 1..Len(queue)} = {u \in Tasks : stage[u] = "waiting"}
        /\ \A i, j \in 1..Len(queue) : i < j => queue[i] < queue[j]
    BY DEF Bookkeeping, TypeOK, ArrivalOrder
  <1>2. /\ Len(queue) \in Nat /\ Len(queue) >= 1
        /\ Head(queue) = queue[1]
        /\ Len(Tail(queue)) = Len(queue) - 1
        /\ \A i \in 1..(Len(queue) - 1) : Tail(queue)[i] = queue[i + 1]
        /\ \A i \in 1..Len(queue) : queue[i] \in Tasks
    BY <1>1
  <1>3. Head(queue) \in Tasks /\ stage[Head(queue)] = "waiting"
    BY <1>1, <1>2
  <1>4. ASSUME NEW u \in Tasks, stage[u] = "waiting" PROVE Head(queue) <= u
    <2>1. PICK i \in 1..Len(queue) : queue[i] = u
      BY <1>1, <1>4
    <2>2. CASE i = 1
      BY <2>1, <2>2, <1>2 DEF Tasks
    <2>3. CASE i > 1
      BY <2>1, <2>3, <1>1, <1>2 DEF Tasks
    <2>4. QED
      BY <2>2, <2>3, <1>2
  <1>5. \A i \in 1..Len(queue) : queue[i] = Head(queue) <=> i = 1
    BY <1>1, <1>2 DEF Tasks
  <1>6. {Tail(queue)[i] : i \in 1..Len(Tail(queue))}
          = {u \in Tasks : stage[u] = "waiting"} \ {Head(queue)}
    <2>1. ASSUME NEW i \in 1..Len(Tail(queue))
          PROVE  Tail(queue)[i] \in {u \in Tasks : stage[u] = "waiting"} \ {Head(queue)}
      <3>1. i + 1 \in 1..Len(queue) /\ i + 1 # 1 /\ Tail(queue)[i] = queue[i + 1]
        BY <1>2
      <3>2. QED
        BY <3>1, <1>1, <1>5
    <2>2. ASSUME NEW u \in {v \in Tasks : stage[v] = "waiting"} \ {Head(queue)}
          PROVE  \E i \in 1..Len(Tail(queue)) : Tail(queue)[i] = u
      <3>1. PICK i \in 1..Len(queue) : queue[i] = u
        BY <1>1
      <3>2. i - 1 \in 1..Len(Tail(queue)) /\ Tail(queue)[i - 1] = u
        BY <3>1, <1>2
      <3>3. QED
        BY <3>2
    <2>3. QED
      BY <2>1, <2>2
  <1>7. ASSUME NEW i \in 1..Len(Tail(queue)), NEW j \in 1..Len(Tail(queue)), i < j
        PROVE  Tail(queue)[i] < Tail(queue)[j]
    <2>1. /\ i + 1 \in 1..Len(queue) /\ j + 1 \in 1..Len(queue) /\ i + 1 < j + 1
          /\ Tail(queue)[i] = queue[i + 1] /\ Tail(queue)[j] = queue[j + 1]
      BY <1>2, <1>7
    <2>2. QED
      BY <2>1, <1>1
  <1>8. QED
    BY <1>3, <1>4, <1>6, <1>7

\* A coroutine that gives its slot up leaves the books balanced.
LEMMA ReleaseKeepsBooks ==
  ASSUME Bookkeeping, TypeOK', NEW t \in Tasks, stage[t] \in InSlot,
         NEW end \in {"done", "raised"}, Release(t, end), UNCHANGED <<args, arrived>>
  PROVE  Bookkeeping'
  <1>1. Slots' = Slots /\ Slots \in Nat
    BY SlotsType DEF Bookkeeping, Slots
  <1>2. stage \in [Tasks -> Stages] /\ stage' \in [Tasks -> Stages] /\ free \in Nat
    BY DEF Bookkeeping, TypeOK
  <1>3. t \in Holders
    BY DEF Holders
  <1>4. /\ \A u \in Tasks : stage[u] = "pending" <=> arrived < u
        /\ \A v, u \in Tasks : u < v /\ stage[v] \notin Unstarted => stage[u] \notin Unstarted
        /\ \A v, u \in Tasks : u < v /\ stage[v] \notin Unserved => stage[u] \notin Unserved
    BY DEF Bookkeeping, Started, ArrivalOrder
  <1>5. free + Cardinality(Holders) = Slots /\ (queue # <<>> => free = 0)
    BY DEF Bookkeeping, NoSlotLost
  <1>6. CASE queue = <<>>
    <2>1. /\ stage' = [stage EXCEPT ![t] = end]
          /\ free' = free + 1
          /\ queue' = queue
      BY <1>6 DEF Release
    <2>2. Holders' = Holders \ {t}
      BY <2>1, <1>2 DEF Holders, InSlot
    <2>3. Cardinality(Holders') = Cardinality(Holders) - 1
      BY <2>2, <1>3, HoldersFinite, FS_RemoveElement
    <2>4. NoSlotLost'
      <3>1. Cardinality(Holders) \in Nat
        BY HoldersFinite
      <3>2. free' + Cardinality(Holders') = Slots'
        BY <2>1, <2>3, <1>1, <1>2, <1>5, <3>1
      <3>3. QED
        BY <3>2, <2>1, <1>6 DEF NoSlotLost
    <2>5. Started'
      BY <2>1, <1>2, <1>4 DEF Started, Unstarted, InSlot
    <2>6. {u \in Tasks : stage'[u] = "waiting"} = {u \in Tasks : stage[u] = "waiting"}
      BY <2>1, <1>2 DEF InSlot
    <2>7. \A v, u \in Tasks : u < v /\ stage'[v] \notin Unserved => stage'[u] \notin Unserved
      BY <2>1, <1>2, <1>4 DEF Unserved, InSlot
    <2>8. ArrivalOrder'
      BY <2>1, <2>6, <2>7 DEF ArrivalOrder, Bookkeeping
    <2>9. QED
      BY <2>4, <2>5, <2>8 DEF Bookkeeping
  <1>7. CASE queue # <<>>
    <2> DEFINE h == Head(queue)
    <2>1. /\ stage' = [stage EXCEPT ![t] = end, ![h] = "clone"]
          /\ queue' = Tail(queue)
          /\ free' = free
      BY <1>7 DEF Release
    <2>2. /\ h \in Tasks
          /\ stage[h] = "waiting"
          /\ \A u \in Tasks : stage[u] = "waiting" => h <= u
          /\ {Tail(queue)[i] : i \in 1..Len(Tail(queue))}
               = {u \in Tasks : stage[u] = "waiting"} \ {h}
          /\ \A i, j \in 1..Len(Tail(queue)) : i < j => Tail(queue)[i] < Tail(queue)[j]
      BY <1>7, QueueHead
    <2> HIDE DEF h
    <2>3. h # t /\ h \notin Holders
      BY <2>2 DEF InSlot, Holders
    <2>4. Holders' = (Holders \ {t}) \cup {h}
      BY <2>1, <2>2, <2>3, <1>2 DEF Holders, InSlot
    <2>5. Cardinality(Holders') = Cardinality(Holders)
      <3>1. IsFiniteSet(Holders \ {t}) /\ Cardinality(Holders \ {t}) = Cardinality(Holders) - 1
        BY <1>3, HoldersFinite, FS_RemoveElement
      <3>2. h \notin Holders \ {t}
        BY <2>3
      <3>3. Cardinality((Holders \ {t}) \cup {h}) = Cardinality(Holders \ {t}) + 1
        BY <3>1, <3>2, FS_AddElement
      <3>4. QED
        BY <2>4, <3>1, <3>3, HoldersFinite
    <2>6. NoSlotLost'
      BY <2>1, <2>5, <1>1, <1>5, <1>7 DEF NoSlotLost
    <2>7. Started'
      BY <2>1, <2>2, <2>3, <1>2, <1>4 DEF Started, Unstarted, InSlot
    <2>8. {u \in Tasks : stage'[u] = "waiting"} = {u \in Tasks : stage[u] = "waiting"} \ {h}
      BY <2>1, <2>2, <2>3, <1>2 DEF InSlot
    <2>9. ASSUME NEW v \in Tasks, NEW u \in Tasks, u < v, stage'[v] \notin Unserved
          PROVE  stage'[u] \notin Unserved
      <3>1. stage[u] \notin Unserved => stage'[u] \notin Unserved
        BY <2>1, <2>2, <1>2 DEF Unserved
      <3>2. CASE v = h
        <4>1. stage[u] \notin Unstarted
          BY <2>2, <2>9, <3>2, <1>4 DEF Unstarted
        <4>2. stage[u] # "waiting"
          BY <2>2, <2>9, <3>2 DEF Tasks
        <4>3. QED
          BY <3>1, <4>1, <4>2 DEF Unserved, Unstarted
      <3>3. CASE v # h
        <4>1. stage[v] \notin Unserved
          BY <2>1, <2>2, <2>9, <3>3, <1>2 DEF Unserved, InSlot
        <4>2. QED
          BY <3>1, <4>1, <2>9, <1>4
      <3>4. QED
        BY <3>2, <3>3
    <2>10. ArrivalOrder'
      BY <2>1, <2>2, <2>8, <2>9 DEF ArrivalOrder
    <2>11. QED
      BY <2>6, <2>7, <2>10 DEF Bookkeeping
  <1>8. QED
    BY <1>6, <1>7

\* So does one that moves to its next stage inside the slot,
LEMMA StepKeepsBooks ==
  ASSUME Bookkeeping, TypeOK', NEW t \in Tasks, NEW from \in InSlot, NEW to \in InSlot,
         Step(t, from, to)
  PROVE  Bookkeeping'
  <1>1. /\ stage[t] \in InSlot
        /\ stage' = [stage EXCEPT ![t] = to]
        /\ UNCHANGED <<args, arrived, free, queue>>
    BY DEF Step
  <1>2. stage \in [Tasks -> Stages]
    BY DEF Bookkeeping, TypeOK
  <1>3. Holders' = Holders
    BY <1>1, <1>2 DEF Holders
  <1>4. Slots' = Slots
    BY <1>1 DEF Slots
  <1>5. NoSlotLost'
    BY <1>1, <1>3, <1>4 DEF NoSlotLost, Bookkeeping
  <1>6. \A u \in Tasks : stage'[u] = stage[u] \/ (u = t /\ stage'[u] \in InSlot)
    BY <1>1, <1>2
  <1>7. Started'
    BY <1>1, <1>6 DEF Started, Bookkeeping, Unstarted, InSlot
  <1>8. {u \in Tasks : stage'[u] = "waiting"} = {u \in Tasks : stage[u] = "waiting"}
    BY <1>1, <1>6 DEF InSlot
  <1>9. \A v, u \in Tasks : u < v /\ stage'[v] \notin Unserved => stage'[u] \notin Unserved
    BY <1>1, <1>6 DEF ArrivalOrder, Bookkeeping, Unserved, InSlot
  <1>10. ArrivalOrder'
    BY <1>1, <1>8, <1>9 DEF ArrivalOrder, Bookkeeping
  <1>11. QED
    BY <1>5, <1>7, <1>10 DEF Bookkeeping

\* and one that takes a slot or joins the queue.
LEMMA StartKeepsBooks ==
  ASSUME Bookkeeping, TypeOK', NEW t \in Tasks, Start(t)
  PROVE  Bookkeeping'
  <1>1. /\ stage[t] = "created"
        /\ \A u \in 1..(t - 1) : stage[u] # "created"
        /\ UNCHANGED <<args, arrived>>
    BY DEF Start
  <1>2. /\ stage \in [Tasks -> Stages] /\ queue \in Seq(Tasks) /\ free \in Nat
        /\ Slots' = Slots /\ Slots \in Nat
    BY <1>1, SlotsType DEF Bookkeeping, TypeOK, Slots
  <1>3. /\ \A u \in Tasks : stage[u] = "pending" <=> arrived < u
        /\ \A v, u \in Tasks : u < v /\ stage[v] \notin Unstarted => stage[u] \notin Unstarted
        /\ \A v, u \in Tasks : u < v /\ stage[v] \notin Unserved => stage[u] \notin Unserved
        /\ {queue[i] : i \in 1..Len(queue)} = {u \in Tasks : stage[u] = "waiting"}
        /\ \A i, j \in 1..Len(queue) : i < j => queue[i] < queue[j]
        /\ free + Cardinality(Holders) = Slots /\ (queue # <<>> => free = 0)
    BY DEF Bookkeeping, Started, ArrivalOrder, NoSlotLost
  <1>4. ASSUME NEW u \in Tasks, u < t PROVE stage[u] \notin Unstarted
    <2>1. u \in 1..(t - 1)
      BY <1>4 DEF Tasks
    <2>2. arrived \in Nat
      BY DEF Bookkeeping, TypeOK
    <2>3. stage[u] # "pending"
      BY <1>1, <1>3, <1>4, <2>2 DEF Tasks
    <2>4. QED
      BY <2>1, <2>3, <1>1 DEF Unstarted
  <1>5. CASE free > 0 /\ queue = <<>>
    <2>1. /\ stage' = [stage EXCEPT ![t] = "clone"]
          /\ free' = free - 1
          /\ queue' = queue
      BY <1>2, <1>5 DEF Start, Acquire
    <2>2. Holders' = Holders \cup {t} /\ t \notin Holders
      BY <2>1, <1>1, <1>2 DEF Holders, InSlot
    <2>3. Cardinality(Holders') = Cardinality(Holders) + 1
      BY <2>2, HoldersFinite, FS_AddElement
    <2>4. NoSlotLost'
      <3>1. Cardinality(Holders) \in Nat
        BY HoldersFinite
      <3>2. free' + Cardinality(Holders') = Slots'
        BY <2>1, <2>3, <1>2, <1>3, <3>1
      <3>3. QED
        BY <3>2, <2>1, <1>5 DEF NoSlotLost
    <2>5. Started'
      BY <2>1, <1>1, <1>2, <1>3, <1>4 DEF Started, Unstarted
    <2>6. \A u \in Tasks : stage[u] # "waiting"
      <3>1. Len(queue) = 0
        BY <1>5
      <3>2. 1..Len(queue) = {}
        BY <3>1
      <3>3. QED
        BY <3>2, <1>3
    <2>7. {u \in Tasks : stage'[u] = "waiting"} = {u \in Tasks : stage[u] = "waiting"}
      BY <2>1, <1>1, <1>2
    <2>8. \A v, u \in Tasks : u < v /\ stage'[v] \notin Unserved => stage'[u] \notin Unserved
      BY <2>1, <2>6, <1>1, <1>2, <1>3, <1>4 DEF Unserved, Unstarted
    <2>9. ArrivalOrder'
      BY <2>1, <2>7, <2>8, <1>3 DEF ArrivalOrder
    <2>10. QED
      BY <2>4, <2>5, <2>9 DEF Bookkeeping
  <1>6. CASE ~(free > 0 /\ queue = <<>>)
    <2>1. /\ stage' = [stage EXCEPT ![t] = "waiting"]
          /\ queue' = Append(queue, t)
          /\ free' = free
      BY <1>6 DEF Start, Acquire
    <2>2. free = 0
      BY <1>2, <1>3, <1>6
    <2>3. Holders' = Holders
      BY <2>1, <1>1, <1>2 DEF Holders, InSlot
    <2>4. NoSlotLost'
      BY <2>1, <2>2, <2>3, <1>2, <1>3 DEF NoSlotLost
    <2>5. Started'
      BY <2>1, <1>1, <1>2, <1>3, <1>4 DEF Started, Unstarted
    <2>6. /\ Len(queue) \in Nat
          /\ Len(queue') = Len(queue) + 1
          /\ \A i \in 1..Len(queue) : queue'[i] = queue[i] /\ queue[i] \in Tasks
          /\ queue'[Len(queue) + 1] = t
      BY <2>1, <1>2
    <2>7. \A i \in 1..Len(queue) : queue[i] < t
      <3>1. TAKE i \in 1..Len(queue)
      <3>2. stage[queue[i]] = "waiting" /\ queue[i] \in Tasks
        BY <1>3, <2>6
      <3>3. ~(t < queue[i])
        BY <3>2, <1>1, <1>3 DEF Unstarted
      <3>4. queue[i] # t
        BY <3>2, <1>1
      <3>5. QED
        BY <3>2, <3>3, <3>4 DEF Tasks
    <2>8. {queue'[i] : i \in 1..Len(queue')} = {u \in Tasks : stage[u] = "waiting"} \cup {t}
      <3>1. {queue'[i] : i \in 1..Len(queue')} = {queue'[i] : i \in 1..Len(queue)} \cup {t}
        BY <2>6
      <3>2. {queue'[i] : i \in 1..Len(queue)} = {queue[i] : i \in 1..Len(queue)}
        BY <2>6
      <3>3. QED
        BY <3>1, <3>2, <1>3
    <2>9. {u \in Tasks : stage'[u] = "waiting"} = {u \in Tasks : stage[u] = "waiting"} \cup {t}
      BY <2>1, <1>2
    <2>10. \A i, j \in 1..Len(queue') : i < j => queue'[i] < queue'[j]
      BY <2>6, <2>7, <1>3
    <2>11. \A v, u \in Tasks : u < v /\ stage'[v] \notin Unserved => stage'[u] \notin Unserved
      <3>1. \A u \in Tasks : stage'[u] \in Unserved <=> stage[u] \in Unserved
        BY <2>1, <1>1, <1>2 DEF Unserved
      <3>2. QED
        BY <3>1, <1>3
    <2>12. ArrivalOrder'
      BY <2>8, <2>9, <2>10, <2>11 DEF ArrivalOrder
    <2>13. QED
      BY <2>4, <2>5, <2>12 DEF Bookkeeping
  <1>7. QED
    BY <1>5, <1>6

\* Every stage of _run_one is one of these three.
LEMMA ClientKeepsBooks ==
  ASSUME Bookkeeping, TypeOK', NEW t \in Tasks, Client(t)
  PROVE  Bookkeeping'
  <1>1. ASSUME stage[t] \in InSlot, \E r : Finish(t, r) PROVE Bookkeeping'
    BY <1>1, ReleaseKeepsBooks DEF Finish
  <1>2. ASSUME stage[t] \in InSlot, Release(t, "raised"), UNCHANGED <<args, arrived>>
        PROVE  Bookkeeping'
    BY <1>2, ReleaseKeepsBooks
  <1>3. ASSUME NEW from \in InSlot, NEW to \in InSlot, Step(t, from, to) PROVE Bookkeeping'
    BY <1>3, StepKeepsBooks
  <1>4. CASE Start(t)
    BY <1>4, StartKeepsBooks
  <1>5. CASE Prepare(t)
    <2>1. CASE stage[t] = "clone" /\ Finish(t, Failed(t, "clone", FALSE, "none"))
      BY <2>1, <1>1, Zenon DEF InSlot
    <2>2. QED
      BY <1>5, <2>1, <1>3 DEF Prepare, InSlot
  <1>6. CASE CreateSession(t)
    <2>1. CASE stage[t] = "session" /\ Finish(t, Failed(t, "session", FALSE, "none"))
      BY <2>1, <1>1, Zenon DEF InSlot
    <2>2. QED
      BY <1>6, <2>1, <1>2, <1>3 DEF CreateSession, InSlot
  <1>7. CASE MessageReturns(t)
    BY <1>7, <1>3 DEF MessageReturns, InSlot
  <1>8. CASE MessageFails(t)
    BY <1>8, <1>1, Zenon DEF MessageFails, InSlot
  <1>9. CASE Timeout(t)
    BY <1>9, <1>3 DEF Timeout, InSlot
  <1>10. CASE ListPartial(t)
    BY <1>10, <1>1, Zenon DEF ListPartial, InSlot
  <1>11. CASE ListMessages(t)
    BY <1>11, <1>1, Zenon DEF ListMessages, InSlot
  <1>12. QED
    BY <1>4, <1>5, <1>6, <1>7, <1>8, <1>9, <1>10, <1>11 DEF Client

LEMMA NextKeepsBooks == Bookkeeping /\ [Next]_vars => Bookkeeping'
  <1> SUFFICES ASSUME Bookkeeping, [Next]_vars
               PROVE  Bookkeeping'
    OBVIOUS
  <1>1. TypeOK /\ TypeOK'
    BY NextType DEF Bookkeeping
  <1>2. ASSUME UNCHANGED <<args, arrived, stage, free, queue>> PROVE Bookkeeping'
    BY <1>1, <1>2
       DEF Bookkeeping, Started, ArrivalOrder, NoSlotLost, Holders, Slots
  <1>3. CASE Arrive
    <2>1. /\ arrived \in Nat /\ arrived + 1 \in Tasks /\ arrived' = arrived + 1
          /\ stage \in [Tasks -> Stages]
          /\ stage' = [stage EXCEPT ![arrived + 1] = "created"]
          /\ UNCHANGED <<args, free, queue>>
      BY <1>1, <1>3 DEF Arrive, TypeOK, Tasks
    <2>2. /\ \A u \in Tasks : stage[u] = "pending" <=> arrived < u
          /\ \A v, u \in Tasks : u < v /\ stage[v] \notin Unstarted => stage[u] \notin Unstarted
      BY DEF Bookkeeping, Started
    <2>3. stage[arrived + 1] = "pending"
      BY <2>1, <2>2
    <2>4. Started'
      BY <2>1, <2>2, <2>3 DEF Started, Unstarted, Tasks
    <2>5. Holders' = Holders /\ Slots' = Slots
      BY <2>1, <2>3 DEF Holders, InSlot, Slots
    <2>6. {u \in Tasks : stage'[u] = "waiting"} = {u \in Tasks : stage[u] = "waiting"}
      BY <2>1, <2>3
    <2>7. \A u \in Tasks : stage'[u] \in Unserved <=> stage[u] \in Unserved
      BY <2>1, <2>3 DEF Unserved
    <2>8. ArrivalOrder' /\ NoSlotLost'
      BY <2>1, <2>5, <2>6, <2>7 DEF ArrivalOrder, NoSlotLost, Bookkeeping
    <2>9. QED
      BY <1>1, <2>4, <2>8 DEF Bookkeeping
  <1>4. ASSUME NEW t \in Tasks, Client(t) PROVE Bookkeeping'
    BY <1>1, <1>4, ClientKeepsBooks
  <1>5. ASSUME NEW t \in Tasks, AgentBegins(t) \/ AgentEnds(t) PROVE Bookkeeping'
    BY <1>5, <1>2 DEF AgentBegins, AgentEnds
  <1>6. CASE LastArrival \/ WriteSummary
    BY <1>6, <1>2 DEF LastArrival, WriteSummary
  <1>7. CASE Abort
    <2>1. /\ queue' = <<>> /\ free' = Slots /\ Slots' = Slots /\ Slots \in Nat
          /\ arrived' = arrived
      BY <1>7, <1>1, SlotsType DEF Abort, Slots
    <2>2. \A u \in Tasks : stage'[u] = IF stage[u] \in InSlot \cup {"created", "waiting"}
                                       THEN "cancelled" ELSE stage[u]
      BY <1>7 DEF Abort
    <2>3. \A u \in Tasks :
            /\ stage'[u] \notin InSlot /\ stage'[u] # "created" /\ stage'[u] # "waiting"
            /\ stage'[u] = "pending" <=> stage[u] = "pending"
      BY <2>2 DEF InSlot
    <2>4. NoSlotLost'
      <3>1. Holders' = {}
        BY <2>3 DEF Holders
      <3>2. QED
        BY <3>1, <2>1, FS_EmptySet DEF NoSlotLost
    <2>5. arrived \in Nat /\ \A u \in Tasks : stage[u] = "pending" <=> arrived < u
      BY <1>1 DEF TypeOK, Bookkeeping, Started
    <2>6. \A v, u \in Tasks : u < v /\ stage'[v] # "pending" => stage'[u] # "pending"
      BY <2>3, <2>5 DEF Tasks
    <2>7. Started'
      BY <2>1, <2>3, <2>5, <2>6 DEF Started, Unstarted
    <2>8. {queue'[i] : i \in 1..Len(queue')} = {} /\ 1..Len(queue') = {}
      <3>1. Len(queue') = 0
        BY <2>1
      <3>2. QED
        BY <3>1
    <2>9. ArrivalOrder'
      BY <2>3, <2>6, <2>8 DEF ArrivalOrder, Unserved
    <2>10. QED
      BY <1>1, <2>4, <2>7, <2>9 DEF Bookkeeping
  <1>8. CASE UNCHANGED vars
    BY <1>8, <1>2 DEF vars
  <1>9. QED
    BY <1>3, <1>4, <1>5, <1>6, <1>7, <1>8 DEF Next

LEMMA InitBooks == Init => Bookkeeping
  <1> SUFFICES ASSUME Init PROVE Bookkeeping
    OBVIOUS
  <1>1. TypeOK
    BY DEF Init, TypeOK, Slots, Stages, InSlot, NoSummary, Tasks
  <1>2. \A u \in Tasks : stage[u] = "pending"
    BY DEF Init
  <1>3. Started
    BY <1>2 DEF Init, Started, Unstarted, Tasks
  <1>4. Len(queue) = 0 /\ queue = <<>>
    BY DEF Init
  <1>5. ArrivalOrder
    BY <1>2, <1>4 DEF ArrivalOrder, Unserved
  <1>6. Holders = {}
    BY <1>2 DEF Holders, InSlot
  <1>7. NoSlotLost
    BY <1>1, <1>4, <1>6, SlotsType, FS_EmptySet DEF Init, NoSlotLost
  <1>8. QED
    BY <1>1, <1>3, <1>5, <1>7 DEF Bookkeeping

LEMMA BooksInvariant == Spec => []Bookkeeping
  BY InitBooks, NextKeepsBooks, PTL DEF Spec

\* No path through _run_one leaks or duplicates a slot: with any number of tasks
\* the free slots and the coroutines in their stages always add up.
THEOREM SlotsConserved == Spec => []NoSlotLost
  <1>1. Bookkeeping => NoSlotLost
    BY DEF Bookkeeping
  <1>2. QED
    BY <1>1, BooksInvariant, PTL

\* Tasks are given their slots in the order of their Poisson arrivals.
THEOREM ServedInArrivalOrder == Spec => []ArrivalOrder
  <1>1. Bookkeeping => ArrivalOrder
    BY DEF Bookkeeping
  <1>2. QED
    BY <1>1, BooksInvariant, PTL

-------------------------------------------------------------------------------
(* The trace *)

\* Giving a slot up ends t and touches no other task but the one it is handed to.
LEMMA ReleaseEffect ==
  ASSUME Bookkeeping, NEW t \in Tasks, stage[t] \in InSlot,
         NEW end \in {"done", "raised"}, Release(t, end)
  PROVE  /\ stage'[t] = end
         /\ \A u \in Tasks \ {t} :
              stage'[u] = stage[u] \/ (stage[u] = "waiting" /\ stage'[u] = "clone")
  <1>1. stage \in [Tasks -> Stages]
    BY DEF Bookkeeping, TypeOK
  <1>2. CASE queue = <<>>
    <2>1. stage' = [stage EXCEPT ![t] = end]
      BY <1>2 DEF Release
    <2>2. QED
      BY <2>1, <1>1
  <1>3. CASE queue # <<>>
    <2>1. stage' = [stage EXCEPT ![t] = end, ![Head(queue)] = "clone"]
      BY <1>3 DEF Release
    <2>2. Head(queue) \in Tasks /\ stage[Head(queue)] = "waiting"
      BY <1>3, QueueHead
    <2>3. QED
      BY <2>1, <2>2, <1>1 DEF InSlot
  <1>4. QED
    BY <1>2, <1>3

\* What a coroutine that finishes in a given stage may report.
Reports(t, r) ==
  /\ r \in Record
  /\ r.task = t
  /\ r.success => stage[t] = "list"
  /\ r.error \in {"clone", "session"} => stage[t] \in {"clone", "session"}
  /\ stage[t] \in {"message", "partial"} => r.error \in {"message", "timeout"}

\* The moves of a coroutine, told apart by what they do to its slot and its line.
LEMMA ClientCases ==
  ASSUME NEW t \in Tasks, Client(t)
  PROVE  \/ /\ stage[t] \in InSlot
            /\ \E r : Reports(t, r) /\ Finish(t, r)
         \/ /\ stage[t] = "session"
            /\ Release(t, "raised")
            /\ UNCHANGED <<args, driver, arrived, agent, trace, records, summary>>
         \/ Start(t)
         \/ /\ UNCHANGED agent
            /\ \/ Step(t, "clone", "session")
               \/ Step(t, "session", "message")
               \/ agent[t] = "ended" /\ Step(t, "message", "list")
               \/ Step(t, "message", "partial")
  <1>1. CASE Start(t)
    BY <1>1
  <1>2. CASE Prepare(t)
    <2>1. CASE stage[t] = "clone" /\ Finish(t, Failed(t, "clone", FALSE, "none"))
      <3>1. stage[t] = "clone" => Reports(t, Failed(t, "clone", FALSE, "none"))
        BY DEF Reports, Failed, Record
      <3>2. QED
        BY <2>1, <3>1, Zenon DEF InSlot
    <2>2. QED
      BY <1>2, <2>1 DEF Prepare
  <1>3. CASE CreateSession(t)
    <2>1. CASE stage[t] = "session" /\ Finish(t, Failed(t, "session", FALSE, "none"))
      <3>1. stage[t] = "session" => Reports(t, Failed(t, "session", FALSE, "none"))
        BY DEF Reports, Failed, Record
      <3>2. QED
        BY <2>1, <3>1, Zenon DEF InSlot
    <2>2. QED
      BY <1>3, <2>1 DEF CreateSession
  <1>4. CASE MessageReturns(t)
    BY <1>4 DEF MessageReturns
  <1>5. CASE MessageFails(t)
    <2>1. stage[t] = "message" => Reports(t, Failed(t, "message", TRUE, "none"))
      BY DEF Reports, Failed, Record
    <2>2. QED
      BY <1>5, <2>1, Zenon DEF MessageFails, InSlot
  <1>6. CASE Timeout(t)
    BY <1>6 DEF Timeout
  <1>7. CASE ListPartial(t)
    <2>1. \A messages \in {"none", "partial"} :
            stage[t] = "partial" => Reports(t, Failed(t, "timeout", TRUE, messages))
      BY DEF Reports, Failed, Record
    <2>2. QED
      BY <1>7, <2>1, Zenon DEF ListPartial, InSlot
  <1>8. CASE ListMessages(t)
    <2>1. \A error \in {"none", "list"}, messages \in {"none", "all"} :
            stage[t] = "list" => Reports(t, Succeeded(t, error, messages))
      BY DEF Reports, Succeeded, Record
    <2>2. QED
      BY <1>8, <2>1, Zenon DEF ListMessages, InSlot
  <1>9. QED
    BY <1>1, <1>2, <1>3, <1>4, <1>5, <1>6, <1>7, <1>8 DEF Client

\* The line a finishing coroutine appends is its first.
LEMMA FinishAppends ==
  ASSUME TypeOK, NEW t \in Tasks, NEW r \in Record, Finish(t, r)
  PROVE  /\ trace' = trace \/ (/\ Len(trace') = Len(trace) + 1
                               /\ trace'[Len(trace) + 1] = r
                               /\ \A i \in 1..Len(trace) : trace'[i] = trace[i])
         /\ \/ /\ Release(t, "done")
               /\ trace' = Append(trace, r)
               /\ records' = Append(records, r)
               /\ Len(trace') = Len(trace) + 1
               /\ Len(records') = Len(records) + 1
               /\ records'[Len(records) + 1] = r
               /\ \A i \in 1..Len(records) : records'[i] = records[i]
            \/ Release(t, "raised") /\ UNCHANGED records
  <1>1. trace \in Seq(Record) /\ records \in Seq(Record)
    BY DEF TypeOK
  <1>2. /\ Len(Append(trace, r)) = Len(trace) + 1
        /\ Append(trace, r)[Len(trace) + 1] = r
        /\ \A i \in 1..Len(trace) : Append(trace, r)[i] = trace[i]
        /\ Len(Append(records, r)) = Len(records) + 1
        /\ Append(records, r)[Len(records) + 1] = r
        /\ \A i \in 1..Len(records) : Append(records, r)[i] = records[i]
    BY <1>1
  <1>3. QED
    BY <1>2 DEF Finish

LEMMA NextKeepsLines == Bookkeeping /\ OneLinePerTask /\ [Next]_vars => OneLinePerTask'
  <1> SUFFICES ASSUME Bookkeeping, OneLinePerTask, [Next]_vars
               PROVE  OneLinePerTask'
    OBVIOUS
  <1>1. /\ TypeOK
        /\ trace \in Seq(Record) /\ records \in Seq(Record)
        /\ Len(trace) \in Nat /\ Len(records) \in Nat
        /\ \A i \in 1..Len(trace) : trace[i].task \in Tasks
        /\ \A i \in 1..Len(records) : records[i].task \in Tasks
    <2>1. trace \in Seq(Record) /\ records \in Seq(Record)
      BY DEF Bookkeeping, TypeOK
    <2>2. \A i \in 1..Len(trace) : trace[i] \in Record
      BY <2>1
    <2>3. \A i \in 1..Len(records) : records[i] \in Record
      BY <2>1
    <2>4. QED
      BY <2>1, <2>2, <2>3 DEF Bookkeeping, Record
  <1>2. ASSUME UNCHANGED <<trace, records>>,
               \A u \in Tasks : /\ stage'[u] = "done" <=> stage[u] = "done"
                                /\ stage[u] = "raised" => stage'[u] = "raised"
        PROVE  OneLinePerTask'
    BY <1>1, <1>2 DEF OneLinePerTask
  <1>3. ASSUME NEW t \in Tasks, Client(t) PROVE OneLinePerTask'
    <2>1. CASE stage[t] \in InSlot /\ \E r : Reports(t, r) /\ Finish(t, r)
      <3>1. PICK r : Reports(t, r) /\ Finish(t, r)
        BY <2>1
      <3>2. r \in Record /\ r.task = t
        BY <3>1 DEF Reports
      <3>3. /\ trace' = trace \/ (/\ Len(trace') = Len(trace) + 1
                                  /\ trace'[Len(trace) + 1] = r
                                  /\ \A i \in 1..Len(trace) : trace'[i] = trace[i])
            /\ \/ /\ Release(t, "done")
                  /\ Len(trace') = Len(trace) + 1
                  /\ Len(records') = Len(records) + 1
                  /\ records'[Len(records) + 1] = r
                  /\ \A i \in 1..Len(records) : records'[i] = records[i]
               \/ Release(t, "raised") /\ UNCHANGED records
        BY <1>1, <3>1, <3>2, FinishAppends
      <3>4. /\ stage'[t] \in {"done", "raised"}
            /\ stage'[t] = "done" <=> Len(records') = Len(records) + 1
            /\ \A u \in Tasks \ {t} : stage'[u] = stage[u]
                 \/ (stage[u] = "waiting" /\ stage'[u] = "clone")
        BY <1>1, <2>1, <3>3, ReleaseEffect
      <3>5. \A i \in 1..Len(trace) : trace[i].task # t
        BY <2>1 DEF OneLinePerTask, InSlot
      <3>6. \A i, j \in 1..Len(trace') : trace'[i].task = trace'[j].task => i = j
        BY <1>1, <3>2, <3>3, <3>5 DEF OneLinePerTask
      <3>7. \A i \in 1..Len(trace') : stage'[trace'[i].task] \in {"done", "raised"}
        BY <1>1, <3>2, <3>3, <3>4, <3>5 DEF OneLinePerTask
      <3>8. ASSUME NEW u \in Tasks
            PROVE  stage'[u] = "done" <=> \E i \in 1..Len(records') : records'[i].task = u
        <4>1. stage[u] = "done" <=> \E i \in 1..Len(records) : records[i].task = u
          BY DEF OneLinePerTask
        <4>2. CASE u = t
          <5>1. stage[t] # "done"
            BY <2>1 DEF InSlot
          <5>2. CASE Len(records') = Len(records) + 1
            <6>1. stage'[t] = "done" /\ Len(records) + 1 \in 1..Len(records')
                  /\ records'[Len(records) + 1].task = t
              BY <1>1, <3>2, <3>3, <3>4, <5>2
            <6>2. QED
              BY <4>2, <6>1
          <5>3. CASE Len(records') # Len(records) + 1
            <6>1. records' = records /\ stage'[t] # "done"
              BY <3>3, <3>4, <5>3
            <6>2. QED
              BY <4>1, <4>2, <5>1, <6>1
          <5>4. QED
            BY <5>2, <5>3
        <4>3. CASE u # t
          <5>1. stage'[u] = "done" <=> stage[u] = "done"
            BY <3>4, <4>3
          <5>2. CASE records' = records
            BY <4>1, <5>1, <5>2
          <5>3. CASE records' # records
            <6>1. /\ Len(records') = Len(records) + 1
                  /\ records'[Len(records) + 1].task = t
                  /\ \A i \in 1..Len(records) : records'[i] = records[i]
              BY <3>2, <3>3, <5>3
            <6>2. (\E i \in 1..Len(records') : records'[i].task = u)
                    <=> \E i \in 1..Len(records) : records[i].task = u
              BY <1>1, <4>3, <6>1
            <6>3. QED
              BY <4>1, <5>1, <6>2
          <5>4. QED
            BY <5>2, <5>3
        <4>4. QED
          BY <4>2, <4>3
      <3>9. ASSUME NEW u \in Tasks, stage'[u] = "done"
            PROVE  \E i \in 1..Len(trace') : trace'[i].task = u
        <4>1. CASE u = t
          <5>1. Len(trace') = Len(trace) + 1 /\ trace'[Len(trace) + 1].task = t
            BY <1>1, <3>2, <3>3, <3>4, <3>9, <4>1
          <5>2. Len(trace) + 1 \in 1..Len(trace')
            BY <1>1, <5>1
          <5>3. QED
            BY <4>1, <5>1, <5>2
        <4>2. CASE u # t
          <5>1. PICK i \in 1..Len(trace) : trace[i].task = u
            BY <3>4, <3>9, <4>2 DEF OneLinePerTask
          <5>2. i \in 1..Len(trace') /\ trace'[i] = trace[i]
            BY <1>1, <3>3, <5>1
          <5>3. QED
            BY <5>1, <5>2
        <4>3. QED
          BY <4>1, <4>2
      <3>10. QED
        BY <3>6, <3>7, <3>8, <3>9 DEF OneLinePerTask
    <2>2. CASE /\ stage[t] = "session"
               /\ Release(t, "raised")
               /\ UNCHANGED <<args, driver, arrived, agent, trace, records, summary>>
      <3>1. \A u \in Tasks : /\ stage'[u] = "done" <=> stage[u] = "done"
                             /\ stage[u] = "raised" => stage'[u] = "raised"
        BY <2>2, ReleaseEffect DEF InSlot
      <3>2. QED
        BY <2>2, <3>1, <1>2
    <2>3. CASE Start(t)
      <3>1. stage[t] = "created" /\ UNCHANGED <<trace, records>>
        BY <2>3 DEF Start
      <3>2. \/ stage' = [stage EXCEPT ![t] = "clone"]
            \/ stage' = [stage EXCEPT ![t] = "waiting"]
        BY <2>3 DEF Start, Acquire
      <3>3. QED
        BY <3>1, <3>2, <1>1, <1>2 DEF TypeOK
    <2>4. ASSUME NEW from \in InSlot, NEW to \in InSlot, Step(t, from, to)
          PROVE  OneLinePerTask'
      BY <2>4, <1>1, <1>2 DEF Step, TypeOK, InSlot
    <2>5. QED
      BY <1>3, <2>1, <2>2, <2>3, <2>4, ClientCases DEF InSlot
  <1>4. CASE Arrive
    <2>1. /\ arrived + 1 \in Tasks /\ stage[arrived + 1] = "pending"
          /\ stage' = [stage EXCEPT ![arrived + 1] = "created"]
          /\ UNCHANGED <<trace, records>>
      BY <1>1, <1>4 DEF Arrive, TypeOK, Tasks, Bookkeeping, Started
    <2>2. QED
      BY <2>1, <1>1, <1>2 DEF TypeOK
  <1>5. ASSUME NEW t \in Tasks, AgentBegins(t) \/ AgentEnds(t) PROVE OneLinePerTask'
    BY <1>5, <1>2 DEF AgentBegins, AgentEnds
  <1>6. CASE LastArrival \/ WriteSummary
    BY <1>6, <1>2 DEF LastArrival, WriteSummary
  <1>7. CASE Abort
    BY <1>7, <1>2 DEF Abort, InSlot
  <1>8. CASE UNCHANGED vars
    BY <1>8, <1>2 DEF vars
  <1>9. QED
    BY <1>3, <1>4, <1>5, <1>6, <1>7, <1>8 DEF Next

\* trace.jsonl never holds two lines for one task, every task that finished has
\* its line, and the records the summary is computed from are those tasks.
THEOREM TraceIsALedger == Spec => []OneLinePerTask
  <1>1. Init => OneLinePerTask
    <2> SUFFICES ASSUME Init PROVE OneLinePerTask
      OBVIOUS
    <2>1. Len(trace) = 0 /\ Len(records) = 0 /\ \A t \in Tasks : stage[t] = "pending"
      BY DEF Init
    <2>2. QED
      BY <2>1 DEF OneLinePerTask
  <1>2. QED
    BY <1>1, BooksInvariant, NextKeepsLines, PTL DEF Spec

-------------------------------------------------------------------------------
(* The trace and the server *)

\* No agent works for a coroutine that has not sent its request, and the messages
\* are only listed in full once the agent is through.
Quiet ==
  \A t \in Tasks :
    /\ stage[t] \in Unserved \cup {"clone", "session"} => agent[t] = "idle"
    /\ stage[t] = "list" => agent[t] = "ended"

Honesty == HonestTrace /\ Quiet

LEMMA ClientKeepsHonesty ==
  ASSUME Bookkeeping, OneLinePerTask, Honesty, NEW t \in Tasks, Client(t)
  PROVE  Honesty'
  <1>1. /\ TypeOK /\ stage \in [Tasks -> Stages]
        /\ Len(trace) \in Nat
        /\ \A i \in 1..Len(trace) : trace[i].task \in Tasks
    <2>1. TypeOK /\ trace \in Seq(Record)
      BY DEF Bookkeeping, TypeOK
    <2>2. \A i \in 1..Len(trace) : trace[i] \in Record
      BY <2>1
    <2>3. QED
      BY <2>1, <2>2 DEF TypeOK, Record
  <1>2. ASSUME UNCHANGED <<trace, agent>>,
               \A u \in Tasks :
                 \/ stage'[u] = stage[u]
                 \/ stage[u] \in Unserved /\ stage'[u] \in Unserved \cup {"clone"}
                 \/ stage[u] = "clone" /\ stage'[u] = "session"
                 \/ stage[u] = "session" /\ stage'[u] \in {"message", "raised"}
                 \/ stage[u] = "message" /\ stage'[u] = "partial"
                 \/ stage[u] = "message" /\ stage'[u] = "list" /\ agent[u] = "ended"
        PROVE  Honesty'
    <2>1. Quiet'
      BY <1>2 DEF Honesty, Quiet, Unserved
    <2>2. \A u \in Tasks : agent'[u] = "running" =>
            \/ stage'[u] \in {"message", "partial", "raised", "cancelled"}
            \/ \E i \in 1..Len(trace') :
                 trace'[i].task = u /\ trace'[i].error \in {"message", "timeout"}
      BY <1>2 DEF Honesty, HonestTrace, Quiet, Unserved
    <2>3. \A i \in 1..Len(trace') :
            /\ trace'[i].success => agent'[trace'[i].task] = "ended"
            /\ trace'[i].error \in {"clone", "session"} => agent'[trace'[i].task] = "idle"
      BY <1>2 DEF Honesty, HonestTrace
    <2>4. QED
      BY <2>1, <2>2, <2>3 DEF Honesty, HonestTrace
  <1>3. CASE stage[t] \in InSlot /\ \E r : Reports(t, r) /\ Finish(t, r)
    <2>1. PICK r : Reports(t, r) /\ Finish(t, r)
      BY <1>3
    <2>2. /\ r \in Record /\ r.task = t
          /\ r.success => agent[t] = "ended"
          /\ r.error \in {"clone", "session"} => agent[t] = "idle"
          /\ agent[t] = "running" => r.error \in {"message", "timeout"}
      BY <1>3, <2>1 DEF Reports, Honesty, Quiet, InSlot
    <2>3. /\ trace' = trace \/ (/\ Len(trace') = Len(trace) + 1
                                /\ trace'[Len(trace) + 1] = r
                                /\ \A i \in 1..Len(trace) : trace'[i] = trace[i])
          /\ \/ Release(t, "done") /\ Len(trace') = Len(trace) + 1
             \/ Release(t, "raised")
          /\ agent' = agent
      BY <1>1, <2>1, <2>2, FinishAppends DEF Finish
    <2>4. /\ stage'[t] = "raised" \/ (stage'[t] = "done" /\ Len(trace') = Len(trace) + 1)
          /\ \A u \in Tasks \ {t} : stage'[u] = stage[u]
               \/ (stage[u] = "waiting" /\ stage'[u] = "clone")
      BY <1>1, <1>3, <2>3, ReleaseEffect
    <2>5. Quiet'
      BY <2>3, <2>4 DEF Honesty, Quiet, Unserved
    <2>6. \A i \in 1..Len(trace') :
            /\ trace'[i].success => agent'[trace'[i].task] = "ended"
            /\ trace'[i].error \in {"clone", "session"} => agent'[trace'[i].task] = "idle"
      BY <1>1, <2>2, <2>3 DEF Honesty, HonestTrace
    <2>7. ASSUME NEW u \in Tasks, agent'[u] = "running"
          PROVE  \/ stage'[u] \in {"message", "partial", "raised", "cancelled"}
                 \/ \E i \in 1..Len(trace') :
                      trace'[i].task = u /\ trace'[i].error \in {"message", "timeout"}
      <3>1. CASE u = t
        <4>1. CASE Len(trace') = Len(trace) + 1
          <5>1. Len(trace) + 1 \in 1..Len(trace') /\ trace'[Len(trace) + 1] = r
            <6>1. trace' # trace
              BY <1>1, <4>1
            <6>2. QED
              BY <1>1, <2>3, <4>1, <6>1
          <5>2. QED
            BY <2>2, <2>3, <2>7, <3>1, <5>1
        <4>2. QED
          BY <2>4, <3>1, <4>1
      <3>2. CASE u # t
        <4>1. stage'[u] = stage[u]
          BY <2>3, <2>4, <2>7, <3>2 DEF Honesty, Quiet, Unserved
        <4>2. CASE stage[u] \in {"message", "partial", "raised", "cancelled"}
          BY <4>1, <4>2
        <4>3. CASE \E i \in 1..Len(trace) :
                     trace[i].task = u /\ trace[i].error \in {"message", "timeout"}
          <5>1. PICK i \in 1..Len(trace) :
                  trace[i].task = u /\ trace[i].error \in {"message", "timeout"}
            BY <4>3
          <5>2. i \in 1..Len(trace') /\ trace'[i] = trace[i]
            BY <1>1, <2>3, <5>1
          <5>3. QED
            BY <5>1, <5>2
        <4>4. QED
          BY <2>3, <2>7, <4>2, <4>3 DEF Honesty, HonestTrace
      <3>3. QED
        BY <3>1, <3>2
    <2>8. QED
      BY <2>5, <2>6, <2>7 DEF Honesty, HonestTrace
  <1>4. CASE /\ stage[t] = "session"
             /\ Release(t, "raised")
             /\ UNCHANGED <<args, driver, arrived, agent, trace, records, summary>>
    <2>1. /\ stage'[t] = "raised"
          /\ \A u \in Tasks \ {t} :
               stage'[u] = stage[u] \/ (stage[u] = "waiting" /\ stage'[u] = "clone")
      BY <1>4, ReleaseEffect DEF InSlot
    <2>2. QED
      BY <1>2, <1>4, <2>1 DEF Unserved
  <1>5. CASE Start(t)
    <2>1. stage[t] = "created" /\ UNCHANGED <<trace, agent>>
      BY <1>5 DEF Start
    <2>2. \/ stage' = [stage EXCEPT ![t] = "clone"]
          \/ stage' = [stage EXCEPT ![t] = "waiting"]
      BY <1>5 DEF Start, Acquire
    <2>3. QED
      BY <1>1, <1>2, <2>1, <2>2 DEF Unserved
  <1>6. CASE /\ UNCHANGED agent
             /\ \/ Step(t, "clone", "session")
                \/ Step(t, "session", "message")
                \/ agent[t] = "ended" /\ Step(t, "message", "list")
                \/ Step(t, "message", "partial")
    BY <1>1, <1>2, <1>6 DEF Step
  <1>7. QED
    BY <1>3, <1>4, <1>5, <1>6, ClientCases

LEMMA NextKeepsHonesty ==
  Bookkeeping /\ OneLinePerTask /\ Honesty /\ [Next]_vars => Honesty'
  <1> SUFFICES ASSUME Bookkeeping, OneLinePerTask, Honesty, [Next]_vars
               PROVE  Honesty'
    OBVIOUS
  <1>1. /\ stage \in [Tasks -> Stages]
        /\ agent \in [Tasks -> {"idle", "running", "ended"}]
        /\ \A i \in 1..Len(trace) : trace[i].task \in Tasks
    <2>1. TypeOK /\ trace \in Seq(Record)
      BY DEF Bookkeeping, TypeOK
    <2>2. \A i \in 1..Len(trace) : trace[i] \in Record
      BY <2>1
    <2>3. QED
      BY <2>1, <2>2 DEF TypeOK, Record
  <1>2. ASSUME UNCHANGED <<stage, trace, agent>> PROVE Honesty'
    BY <1>2 DEF Honesty, HonestTrace, Quiet
  <1>3. ASSUME NEW t \in Tasks, Client(t) PROVE Honesty'
    BY <1>3, ClientKeepsHonesty
  <1>4. CASE Arrive
    <2>1. /\ arrived + 1 \in Tasks /\ stage[arrived + 1] = "pending"
          /\ stage' = [stage EXCEPT ![arrived + 1] = "created"]
          /\ UNCHANGED <<trace, agent>>
      BY <1>4 DEF Arrive, TypeOK, Tasks, Bookkeeping, Started
    <2>2. /\ stage'[arrived + 1] = "created"
          /\ \A u \in Tasks : u # arrived + 1 => stage'[u] = stage[u]
      BY <1>1, <2>1
    <2>3. agent[arrived + 1] = "idle"
      BY <2>1 DEF Honesty, Quiet, Unserved
    <2>4. Quiet'
      BY <2>1, <2>2, <2>3 DEF Honesty, Quiet, Unserved
    <2>5. HonestTrace'
      BY <2>1, <2>2, <2>3 DEF Honesty, HonestTrace
    <2>6. QED
      BY <2>4, <2>5 DEF Honesty
  <1>5. ASSUME NEW t \in Tasks, AgentBegins(t) \/ AgentEnds(t) PROVE Honesty'
    <2>1. /\ UNCHANGED <<stage, trace>>
          /\ \A u \in Tasks : u # t => agent'[u] = agent[u]
      BY <1>1, <1>5 DEF AgentBegins, AgentEnds
    <2>2. \/ stage[t] = "message" /\ agent[t] = "idle" /\ agent'[t] = "running"
          \/ agent[t] = "running" /\ agent'[t] = "ended"
      BY <1>1, <1>5 DEF AgentBegins, AgentEnds
    <2>3. Quiet'
      BY <2>1, <2>2 DEF Honesty, Quiet, Unserved
    <2>4. \A u \in Tasks : agent'[u] = "running" =>
            \/ stage'[u] \in {"message", "partial", "raised", "cancelled"}
            \/ \E i \in 1..Len(trace') :
                 trace'[i].task = u /\ trace'[i].error \in {"message", "timeout"}
      BY <2>1, <2>2 DEF Honesty, HonestTrace
    <2>5. \A i \in 1..Len(trace) : stage[trace[i].task] # "message"
      BY DEF OneLinePerTask
    <2>6. \A i \in 1..Len(trace') :
            /\ trace'[i].success => agent'[trace'[i].task] = "ended"
            /\ trace'[i].error \in {"clone", "session"} => agent'[trace'[i].task] = "idle"
      BY <1>1, <2>1, <2>2, <2>5 DEF Honesty, HonestTrace
    <2>7. QED
      BY <2>3, <2>4, <2>6 DEF Honesty, HonestTrace
  <1>6. CASE LastArrival \/ WriteSummary
    BY <1>2, <1>6 DEF LastArrival, WriteSummary
  <1>7. CASE Abort
    <2>1. /\ UNCHANGED <<trace, agent>>
          /\ \A u \in Tasks : stage'[u] = IF stage[u] \in InSlot \cup {"created", "waiting"}
                                          THEN "cancelled" ELSE stage[u]
      BY <1>7 DEF Abort
    <2>2. Quiet'
      BY <2>1 DEF Honesty, Quiet, Unserved, InSlot
    <2>3. HonestTrace'
      BY <2>1 DEF Honesty, HonestTrace, InSlot
    <2>4. QED
      BY <2>2, <2>3 DEF Honesty
  <1>8. CASE UNCHANGED vars
    BY <1>2, <1>8 DEF vars
  <1>9. QED
    BY <1>3, <1>4, <1>5, <1>6, <1>7, <1>8 DEF Next

\* Every line of trace.jsonl tells what the server saw of the session, and an agent
\* that runs on without a client belongs to a task that timed out, failed or died.
THEOREM TraceIsHonest == Spec => []HonestTrace
  <1>1. Init => Honesty
    <2> SUFFICES ASSUME Init PROVE Honesty
      OBVIOUS
    <2>1. Len(trace) = 0
          /\ \A t \in Tasks : stage[t] = "pending" /\ agent[t] = "idle"
      BY DEF Init
    <2>2. QED
      BY <2>1 DEF Honesty, HonestTrace, Quiet
  <1>2. Honesty => HonestTrace
    BY DEF Honesty
  <1>3. QED
    BY <1>1, <1>2, BooksInvariant, TraceIsALedger, NextKeepsHonesty, PTL DEF Spec

-------------------------------------------------------------------------------
(* The summary *)

\* As long as no report raised, the file and the in-memory records agree; and a run
\* that is over has nothing left to do.
Agreement ==
  /\ (\A t \in Tasks : stage[t] # "raised") => trace = records
  /\ driver = "done" => \A t \in Tasks : stage[t] = "done"
  /\ driver = "aborted" => \A t \in Tasks : stage[t] \notin InSlot \cup {"created", "waiting"}
  /\ summary # NoSummary => driver = "done" /\ summary = Summarise(records)

LEMMA ClientKeepsAgreement ==
  ASSUME Bookkeeping, Agreement, NEW t \in Tasks, Client(t)
  PROVE  Agreement'
  <1>1. stage \in [Tasks -> Stages] /\ TypeOK
    BY DEF Bookkeeping, TypeOK
  <1>2. stage[t] # "done" /\ stage[t] # "raised" /\ stage[t] \in InSlot \cup {"created"}
    BY ClientCases DEF InSlot, Start, Step
  <1>3. driver \notin {"done", "aborted"} /\ summary = NoSummary
    BY <1>2 DEF Agreement
  <1>4. UNCHANGED <<driver, summary>>
    BY ClientCases DEF Finish, Start, Step
  <1>5. ASSUME \A u \in Tasks : stage'[u] # "raised"
        PROVE  trace' = records'
    <2>1. CASE stage[t] \in InSlot /\ \E r : Reports(t, r) /\ Finish(t, r)
      <3>1. PICK r : Reports(t, r) /\ Finish(t, r)
        BY <2>1
      <3>2. ~Release(t, "raised")
        BY <1>5, <2>1, ReleaseEffect
      <3>3. Release(t, "done") /\ trace' = Append(trace, r) /\ records' = Append(records, r)
        BY <1>1, <3>1, <3>2 DEF Finish
      <3>4. \A u \in Tasks \ {t} : stage[u] # "raised"
        BY <1>5, <2>1, <3>3, ReleaseEffect
      <3>5. QED
        BY <1>2, <3>3, <3>4 DEF Agreement
    <2>2. CASE /\ stage[t] = "session"
               /\ Release(t, "raised")
               /\ UNCHANGED <<args, driver, arrived, agent, trace, records, summary>>
      BY <1>5, <2>2, ReleaseEffect DEF InSlot
    <2>3. CASE Start(t)
      <3>1. UNCHANGED <<trace, records>>
            /\ \/ stage' = [stage EXCEPT ![t] = "clone"]
               \/ stage' = [stage EXCEPT ![t] = "waiting"]
        BY <2>3 DEF Start, Acquire
      <3>2. \A u \in Tasks : stage[u] # "raised"
        BY <1>1, <1>2, <1>5, <3>1
      <3>3. QED
        BY <3>1, <3>2 DEF Agreement
    <2>4. ASSUME NEW from \in InSlot, NEW to \in InSlot, Step(t, from, to)
          PROVE  trace' = records'
      <3>1. UNCHANGED <<trace, records>> /\ stage' = [stage EXCEPT ![t] = to]
        BY <2>4 DEF Step
      <3>2. \A u \in Tasks : stage[u] # "raised"
        BY <1>1, <1>2, <1>5, <3>1
      <3>3. QED
        BY <3>1, <3>2 DEF Agreement
    <2>5. QED
      BY <2>1, <2>2, <2>3, <2>4, ClientCases DEF InSlot
  <1>6. QED
    BY <1>3, <1>4, <1>5 DEF Agreement, NoSummary

LEMMA NextKeepsAgreement == Bookkeeping /\ Agreement /\ [Next]_vars => Agreement'
  <1> SUFFICES ASSUME Bookkeeping, Agreement, [Next]_vars
               PROVE  Agreement'
    OBVIOUS
  <1>1. stage \in [Tasks -> Stages]
    BY DEF Bookkeeping, TypeOK
  <1>2. ASSUME UNCHANGED <<stage, trace, records, summary>>,
               driver \notin {"done", "aborted"}, driver' \notin {"done", "aborted"}
        PROVE  Agreement'
    BY <1>2 DEF Agreement, NoSummary
  <1>3. ASSUME NEW t \in Tasks, Client(t) PROVE Agreement'
    BY <1>3, ClientKeepsAgreement
  <1>4. CASE Arrive
    <2>1. /\ arrived + 1 \in Tasks /\ stage[arrived + 1] = "pending" /\ driver = "arrive"
          /\ stage' = [stage EXCEPT ![arrived + 1] = "created"]
          /\ UNCHANGED <<driver, trace, records, summary>>
      BY <1>4 DEF Arrive, TypeOK, Tasks, Bookkeeping, Started
    <2>2. \A u \in Tasks : stage[u] = "raised" <=> stage'[u] = "raised"
      BY <1>1, <2>1
    <2>3. QED
      BY <2>1, <2>2 DEF Agreement, NoSummary
  <1>5. ASSUME NEW t \in Tasks, AgentBegins(t) \/ AgentEnds(t) PROVE Agreement'
    <2>1. UNCHANGED <<driver, stage, trace, records, summary>>
      BY <1>5 DEF AgentBegins, AgentEnds
    <2>2. QED
      BY <2>1 DEF Agreement, NoSummary, Summarise
  <1>6. CASE LastArrival
    BY <1>2, <1>6 DEF LastArrival
  <1>7. CASE WriteSummary
    BY <1>7 DEF WriteSummary, Agreement, Summarise
  <1>8. CASE Abort
    <2>1. /\ driver # "done" /\ driver' # "done" /\ UNCHANGED <<trace, records, summary>>
          /\ \E u \in Tasks : stage[u] = "raised" /\ stage'[u] = "raised"
          /\ \A u \in Tasks : stage'[u] \notin InSlot \cup {"created", "waiting"}
      BY <1>8 DEF Abort, InSlot
    <2>2. QED
      BY <2>1 DEF Agreement, NoSummary
  <1>9. CASE UNCHANGED vars
    BY <1>9 DEF vars, Agreement, NoSummary, Summarise
  <1>10. QED
    BY <1>3, <1>4, <1>5, <1>6, <1>7, <1>8, <1>9 DEF Next

\* One line for every task makes N lines.
LEMMA CompleteTraceLength ==
  ASSUME TypeOK, OneLinePerTask, \A t \in Tasks : stage[t] = "done"
  PROVE  {trace[i].task : i \in 1..Len(trace)} = Tasks /\ Len(trace) = N
  <1>1. /\ Len(trace) \in Nat
        /\ \A i \in 1..Len(trace) : trace[i].task \in Tasks
    <2>1. trace \in Seq(Record)
      BY DEF TypeOK
    <2>2. \A i \in 1..Len(trace) : trace[i] \in Record
      BY <2>1
    <2>3. QED
      BY <2>1, <2>2 DEF Record
  <1>2. \A t \in Tasks : \E i \in 1..Len(trace) : trace[i].task = t
    BY DEF OneLinePerTask
  <1> DEFINE f == [i \in 1..Len(trace) |-> trace[i].task]
  <1>3. f \in Bijection(1..Len(trace), Tasks)
    <2>1. f \in [1..Len(trace) -> Tasks]
      BY <1>1
    <2>2. \A i, j \in 1..Len(trace) : f[i] = f[j] => i = j
      BY DEF OneLinePerTask
    <2>3. \A t \in Tasks : \E i \in 1..Len(trace) : f[i] = t
      BY <1>2
    <2>4. QED
      BY <2>1, <2>2, <2>3, Fun_IsBij
  <1>4. ExistsBijection(1..Len(trace), Tasks)
    BY <1>3 DEF ExistsBijection
  <1>5. Cardinality(Tasks) = N
    BY FS_Interval DEF Tasks
  <1>6. IsFiniteSet(1..Len(trace)) /\ Cardinality(1..Len(trace)) = Len(trace)
    BY <1>1, FS_Interval
  <1>7. Len(trace) = N
    BY <1>4, <1>5, <1>6, FS_Bijection
  <1>8. QED
    BY <1>1, <1>2, <1>7

\* summary.json is written over a complete trace, and its counts are those of the
\* lines of the trace.
THEOREM SummaryIsComplete == Spec => []SummaryCoversTrace
  <1>1. Init => Agreement
    BY DEF Init, Agreement
  <1>2. Bookkeeping /\ OneLinePerTask /\ Agreement => SummaryCoversTrace
    <2> SUFFICES ASSUME Bookkeeping, OneLinePerTask, Agreement, summary # NoSummary
                 PROVE  /\ {trace[i].task : i \in 1..Len(trace)} = Tasks
                        /\ summary = [count |-> N,
                              ok |-> Cardinality({i \in 1..Len(trace) : trace[i].success})]
      BY DEF SummaryCoversTrace
    <2>1. /\ \A t \in Tasks : stage[t] = "done"
          /\ trace = records /\ summary = Summarise(records)
      BY DEF Agreement
    <2>2. {trace[i].task : i \in 1..Len(trace)} = Tasks /\ Len(trace) = N
      BY <2>1, CompleteTraceLength DEF Bookkeeping
    <2>3. QED
      BY <2>1, <2>2 DEF Summarise
  <1>3. QED
    BY <1>1, <1>2, BooksInvariant, TraceIsALedger, NextKeepsAgreement, PTL DEF Spec

-------------------------------------------------------------------------------
(* Runner implements TaskLedger *)

LEMMA SameCardinality == \A S : Ledger!Cardinality(S) = Cardinality(S)
  BY Zenon DEF Ledger!Cardinality, Cardinality

LEMMA ConcludedTasks ==
  ASSUME TypeOK, OneLinePerTask
  PROVE  Ledger!Concluded = {t \in Tasks : stage[t] = "done"}
  <1>1. \A i \in 1..Len(records) : records[i].task \in Tasks
    <2>1. records \in Seq(Record)
      BY DEF TypeOK
    <2>2. \A i \in 1..Len(records) : records[i] \in Record
      BY <2>1
    <2>3. QED
      BY <2>2 DEF Record
  <1>2. \A t : t \in Ledger!Concluded <=> \E i \in 1..Len(records) : records[i].task = t
    <2>1. \A line : line \in Lines <=>
            \E i \in 1..Len(records) :
              line = [task |-> records[i].task, success |-> records[i].success]
      BY DEF Lines
    <2>2. \A t : t \in Ledger!Concluded <=> \E line \in Lines : t = line.task
      BY DEF Ledger!Concluded
    <2>3. \A i : [task |-> records[i].task, success |-> records[i].success].task = records[i].task
      OBVIOUS
    <2>4. ASSUME NEW t, t \in Ledger!Concluded
          PROVE  \E i \in 1..Len(records) : records[i].task = t
      <3>1. PICK line \in Lines : t = line.task
        BY <2>2, <2>4
      <3>2. PICK i \in 1..Len(records) :
              line = [task |-> records[i].task, success |-> records[i].success]
        BY <2>1, <3>1
      <3>3. line.task = records[i].task
        BY <3>2
      <3>4. QED
        BY <3>1, <3>3
    <2>5. ASSUME NEW t, NEW i \in 1..Len(records), records[i].task = t
          PROVE  t \in Ledger!Concluded
      <3>1. [task |-> records[i].task, success |-> records[i].success] \in Lines
        BY <2>1
      <3>2. QED
        BY <2>2, <2>3, <2>5, <3>1
    <2>6. QED
      BY <2>4, <2>5
  <1>3. \A t \in Tasks : stage[t] = "done" <=> \E i \in 1..Len(records) : records[i].task = t
    BY DEF OneLinePerTask
  <1>4. QED
    BY <1>1, <1>2, <1>3

\* Giving up a slot lets go of the task, and takes up the one the slot goes to.
LEMMA ReleaseLetsGo ==
  ASSUME Bookkeeping, OneLinePerTask, NEW t \in Tasks, stage[t] \in InSlot, Status = "open",
         NEW end \in {"done", "raised"}, Release(t, end), UNCHANGED <<args, driver>>
  PROVE  \E next \in SUBSET Tasks : Ledger!LetGo(t, next)
  <1>1. TypeOK /\ stage \in [Tasks -> Stages]
    BY DEF Bookkeeping, TypeOK
  <1>2. Slots' = Slots /\ Status' = Status
    BY DEF Slots, Status
  <1>3. Ledger!Concluded = {u \in Tasks : stage[u] = "done"}
    BY <1>1, ConcludedTasks
  <1>4. t \in Holders
    BY DEF Holders
  <1>5. CASE queue = <<>>
    <2>1. stage' = [stage EXCEPT ![t] = end]
      BY <1>5 DEF Release
    <2>2. Holders' = (Holders \ {t}) \cup {}
      BY <1>1, <2>1 DEF Holders, InSlot
    <2>3. {} \in SUBSET Tasks /\ Cardinality({}) <= 1
      BY FS_EmptySet
    <2>4. QED
      BY <1>2, <1>4, <2>2, <2>3, SameCardinality DEF Ledger!LetGo
  <1>6. CASE queue # <<>>
    <2> DEFINE h == Head(queue)
    <2>1. h \in Tasks /\ stage[h] = "waiting"
      BY <1>6, QueueHead
    <2>2. stage' = [stage EXCEPT ![t] = end, ![h] = "clone"]
      BY <1>6 DEF Release
    <2>3. Holders' = (Holders \ {t}) \cup {h}
      BY <1>1, <2>1, <2>2 DEF Holders, InSlot
    <2>4. {h} \cap (Holders \cup Ledger!Concluded \cup Lost) = {}
      BY <1>3, <2>1 DEF Holders, Lost, InSlot
    <2>5. {h} \in SUBSET Tasks /\ Cardinality({h}) <= 1
      BY <2>1, FS_Singleton
    <2>6. QED
      BY <1>2, <1>4, <2>3, <2>4, <2>5, SameCardinality DEF Ledger!LetGo
  <1>7. QED
    BY <1>5, <1>6

\* A coroutine that did not raise and holds no slot more or less is not seen.
LEMMA ClientImplements ==
  ASSUME Bookkeeping, OneLinePerTask, Agreement, NEW t \in Tasks, Client(t)
  PROVE  Ledger!Next \/ UNCHANGED Ledger!vars
  <1>1. TypeOK /\ stage \in [Tasks -> Stages] /\ records \in Seq(Record)
    BY DEF Bookkeeping, TypeOK
  <1>2. /\ Status = "open" /\ UNCHANGED <<args, driver>>
        /\ Slots' = Slots /\ Status' = Status
    <2>1. stage[t] \in InSlot \cup {"created"}
      BY ClientCases DEF Start, Step, InSlot
    <2>2. UNCHANGED <<args, driver>>
      BY ClientCases DEF Finish, Start, Step
    <2>3. driver \notin {"done", "aborted"}
      BY <2>1 DEF Agreement, InSlot
    <2>4. QED
      BY <2>2, <2>3 DEF Status, Slots
  <1>3. ASSUME Ledger!Next PROVE Ledger!Next \/ UNCHANGED Ledger!vars
    BY <1>3
  <1>4. CASE stage[t] \in InSlot /\ \E r : Reports(t, r) /\ Finish(t, r)
    <2>1. PICK r : Reports(t, r) /\ Finish(t, r)
      BY <1>4
    <2>2. r \in Record /\ r.task = t /\ r.success \in BOOLEAN
      BY <2>1 DEF Reports, Record
    <2>3. CASE Release(t, "done") /\ records' = Append(records, r)
      <3>1. PICK next \in SUBSET Tasks : Ledger!LetGo(t, next)
        BY <1>2, <1>4, <2>3, ReleaseLetsGo
      <3>2. Lines' = Lines \cup {[task |-> t, success |-> r.success]}
        <4>1. /\ Len(records') = Len(records) + 1 /\ Len(records) \in Nat
              /\ records'[Len(records) + 1] = r
              /\ \A i \in 1..Len(records) : records'[i] = records[i]
          BY <1>1, <2>2, <2>3
        <4>2. 1..Len(records') = 1..Len(records) \cup {Len(records) + 1}
          BY <4>1
        <4>3. QED
          BY <2>2, <4>1, <4>2 DEF Lines
      <3>3. Lost' = Lost
        <4>1. /\ stage'[t] = "done"
              /\ \A u \in Tasks \ {t} :
                   stage'[u] = stage[u] \/ (stage[u] = "waiting" /\ stage'[u] = "clone")
          BY <1>4, <2>3, ReleaseEffect
        <4>2. QED
          BY <1>4, <4>1 DEF Lost, InSlot
      <3>4. Ledger!Conclude(t, r.success, next)
        BY <3>1, <3>2, <3>3 DEF Ledger!Conclude
      <3>5. QED
        BY <2>2, <3>1, <3>4 DEF Ledger!Next
    <2>4. CASE Release(t, "raised") /\ UNCHANGED records
      <3>1. PICK next \in SUBSET Tasks : Ledger!LetGo(t, next)
        BY <1>2, <1>4, <2>4, ReleaseLetsGo
      <3>2. Lines' = Lines
        BY <2>4 DEF Lines
      <3>3. Lost' = Lost \cup {t}
        <4>1. /\ stage'[t] = "raised"
              /\ \A u \in Tasks \ {t} :
                   stage'[u] = stage[u] \/ (stage[u] = "waiting" /\ stage'[u] = "clone")
          BY <1>4, <2>4, ReleaseEffect
        <4>2. QED
          BY <4>1 DEF Lost
      <3>4. Ledger!Lose(t, next)
        BY <3>1, <3>2, <3>3 DEF Ledger!Lose
      <3>5. QED
        BY <3>1, <3>4 DEF Ledger!Next
    <2>5. QED
      BY <2>1, <2>3, <2>4 DEF Finish
  <1>5. CASE /\ stage[t] = "session"
             /\ Release(t, "raised")
             /\ UNCHANGED <<args, driver, arrived, agent, trace, records, summary>>
    <2>1. stage[t] \in InSlot
      BY <1>5 DEF InSlot
    <2>2. PICK next \in SUBSET Tasks : Ledger!LetGo(t, next)
      BY <1>2, <1>5, <2>1, ReleaseLetsGo
    <2>3. Lines' = Lines
      BY <1>5 DEF Lines
    <2>4. Lost' = Lost \cup {t}
      <3>1. /\ stage'[t] = "raised"
            /\ \A u \in Tasks \ {t} :
                 stage'[u] = stage[u] \/ (stage[u] = "waiting" /\ stage'[u] = "clone")
        BY <1>5, <2>1, ReleaseEffect
      <3>2. QED
        BY <3>1 DEF Lost
    <2>5. Ledger!Lose(t, next)
      BY <2>2, <2>3, <2>4 DEF Ledger!Lose
    <2>6. QED
      BY <2>2, <2>5 DEF Ledger!Next
  <1>6. CASE Start(t)
    <2>1. stage[t] = "created" /\ Lines' = Lines
      BY <1>6 DEF Start, Lines
    <2>2. CASE /\ free > 0
               /\ stage' = [stage EXCEPT ![t] = "clone"]
      <3>1. Holders' = Holders \cup {t} /\ Lost' = Lost
        BY <1>1, <2>1, <2>2 DEF Holders, Lost, InSlot
      <3>2. t \notin Holders \cup Ledger!Concluded \cup Lost
        BY <1>1, <2>1, ConcludedTasks DEF Holders, Lost, InSlot
      <3>3. Cardinality(Holders) < Slots
        BY <1>1, <2>2, HoldersFinite, SlotsType DEF Bookkeeping, NoSlotLost, TypeOK
      <3>4. Ledger!Take(t)
        BY <1>2, <2>1, <3>1, <3>2, <3>3, SameCardinality DEF Ledger!Take
      <3>5. QED
        BY <3>4 DEF Ledger!Next
    <2>3. CASE stage' = [stage EXCEPT ![t] = "waiting"]
      <3>1. Holders' = Holders /\ Lost' = Lost
        BY <1>1, <2>1, <2>3 DEF Holders, Lost, InSlot
      <3>2. QED
        BY <1>2, <2>1, <3>1 DEF Ledger!vars
    <2>4. QED
      BY <1>6, <2>2, <2>3 DEF Start, Acquire
  <1>7. ASSUME NEW from \in InSlot, NEW to \in InSlot, Step(t, from, to)
        PROVE  UNCHANGED Ledger!vars
    <2>1. /\ stage[t] = from /\ stage' = [stage EXCEPT ![t] = to]
          /\ Lines' = Lines
      BY <1>7 DEF Step, Lines
    <2>2. Holders' = Holders /\ Lost' = Lost
      BY <1>1, <2>1 DEF Holders, Lost, InSlot
    <2>3. QED
      BY <1>2, <2>1, <2>2 DEF Ledger!vars
  <1>8. QED
    BY <1>4, <1>5, <1>6, <1>7, ClientCases DEF InSlot

LEMMA StepImplements ==
  ASSUME Bookkeeping, OneLinePerTask, Agreement, [Next]_vars
  PROVE  Ledger!Next \/ UNCHANGED Ledger!vars
  <1>1. TypeOK /\ stage \in [Tasks -> Stages]
    BY DEF Bookkeeping, TypeOK
  <1>2. ASSUME UNCHANGED <<args, stage, records>>, Status' = Status
        PROVE  UNCHANGED Ledger!vars
    BY <1>2 DEF Ledger!vars, Slots, Holders, Lines, Lost
  <1>3. ASSUME NEW t \in Tasks, Client(t) PROVE Ledger!Next \/ UNCHANGED Ledger!vars
    BY <1>3, ClientImplements
  <1>4. CASE Arrive
    <2>1. /\ arrived + 1 \in Tasks /\ stage[arrived + 1] = "pending"
          /\ stage' = [stage EXCEPT ![arrived + 1] = "created"]
          /\ UNCHANGED <<args, driver, records>>
      BY <1>4 DEF Arrive, TypeOK, Tasks, Bookkeeping, Started
    <2>2. Holders' = Holders /\ Lost' = Lost
      BY <1>1, <2>1 DEF Holders, Lost, InSlot
    <2>3. QED
      BY <2>1, <2>2 DEF Ledger!vars, Slots, Lines, Status
  <1>5. ASSUME NEW t \in Tasks, AgentBegins(t) \/ AgentEnds(t)
        PROVE  UNCHANGED Ledger!vars
    BY <1>2, <1>5 DEF AgentBegins, AgentEnds, Status
  <1>6. CASE LastArrival
    BY <1>2, <1>6 DEF LastArrival, Status
  <1>7. CASE WriteSummary
    <2>1. Status = "open" /\ Status' = "complete"
      BY <1>7 DEF WriteSummary, Status
    <2>2. Ledger!Concluded = Tasks
      BY <1>1, <1>7, ConcludedTasks DEF WriteSummary
    <2>3. UNCHANGED <<Slots, Holders, Lines, Lost>>
      BY <1>7 DEF WriteSummary, Slots, Holders, Lines, Lost
    <2>4. QED
      BY <2>1, <2>2, <2>3 DEF Ledger!Next, Ledger!Complete
  <1>8. CASE Abort
    <2>1. Status = "open" /\ Status' = "abandoned"
      BY <1>8 DEF Abort, Status
    <2>2. Lost # {} /\ Lost' = Lost /\ Holders' = {}
      BY <1>8 DEF Abort, Lost, Holders, InSlot
    <2>3. UNCHANGED <<Slots, Lines>>
      BY <1>8 DEF Abort, Slots, Lines
    <2>4. QED
      BY <2>1, <2>2, <2>3 DEF Ledger!Next, Ledger!Abandon
  <1>9. CASE UNCHANGED vars
    BY <1>2, <1>9 DEF vars, Status
  <1>10. QED
    BY <1>3, <1>4, <1>5, <1>6, <1>7, <1>8, <1>9 DEF Next

\* Every run keeps the promises of TaskLedger: at most the allowed number of tasks at
\* once, each taken up once and concluded at most once, and completion only with a
\* line for every task.
THEOREM RunnerImplementsLedger == Spec => RefinesLedger
  <1>1. Init => Ledger!Init
    <2> SUFFICES ASSUME Init PROVE Ledger!Init
      OBVIOUS
    <2>1. Slots \in Nat /\ Status = "open"
      BY DEF Init, Slots, Status
    <2>2. Holders = {} /\ Lost = {}
      BY DEF Init, Holders, Lost, InSlot
    <2>3. Len(records) = 0
      BY DEF Init
    <2>4. Lines = {}
      BY <2>3 DEF Lines
    <2>5. QED
      BY <2>1, <2>2, <2>4 DEF Ledger!Init
  <1>2. Init => Agreement
    BY DEF Init, Agreement
  <1>3. QED
    BY <1>1, <1>2, BooksInvariant, TraceIsALedger, NextKeepsAgreement, StepImplements, PTL
       DEF Spec, RefinesLedger, Ledger!Spec
===============================================================================
