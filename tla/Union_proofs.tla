---------------------------- MODULE Union_proofs ----------------------------
(***************************************************************************)
(* The union scorer is safe for every number of comparators and every      *)
(* requested concurrency: proofs of what module Union states.  None of the *)
(* properties is inductive; UnionInv adds where every job fed so far is    *)
(* (with a worker, or among the results), what the caller has kept of the  *)
(* results it received, and in what order the two channels are closed.     *)
(***************************************************************************)
EXTENDS Union, TLAPS

Busy == {"clear", "insert", "fuse"}
Result == [index : Lanes, ok : BOOLEAN]

UnionTypeOK ==
  /\ width \in 1..N /\ preinserted \in BOOLEAN /\ inserted \in BOOLEAN
  /\ main \in {"open", "run", "closing", "ok", "error"}
  /\ context \in {"none", "open", "closed"}
  /\ worker \in [Lanes -> [at : {"clear", "insert", "fuse", "wait", "gone"}, job : 0..N]]
  /\ fed \in 0..N /\ closed \subseteq {"jobs", "results"}
  /\ results \in Seq(Result) /\ taken \in 0..Len(results)
  /\ stored \subseteq Lanes /\ firstErr \in 0..N

(* Before the context exists nothing has happened. *)
Fresh == fed = 0 /\ closed = {} /\ results = << >> /\ taken = 0 /\ stored = {} /\ firstErr = 0

(* The context is open exactly while lanes may run on it. *)
Contexts == /\ main = "open" => context = "none" /\ Fresh
            /\ main \in {"run", "closing"} => context = "open"
            /\ (main = "error" /\ firstErr = 0) => Fresh
            /\ main = "ok" => firstErr = 0

(* Side by side, lanes never touch the key table. *)
LaneTable == /\ width > 1 => preinserted
             /\ (main = "run" /\ preinserted) => inserted
             /\ preinserted => \A w \in Workers : worker[w].at \notin {"clear", "insert"}
             /\ LaneKeys

(* A goroutine is at work on a job that was fed, and leaves only when the  *)
(* jobs are closed; the results are closed when all of them have left.     *)
Pool == /\ \A w \in Workers : /\ worker[w].at \in Busy => worker[w].job \in 1..fed
                              /\ worker[w].at = "gone" => "jobs" \in closed
        /\ "jobs" \in closed => fed = N /\ width > 1
        /\ "results" \in closed => "jobs" \in closed /\ AllGone

(* A job that was fed is with a worker or has a result. *)
NoneLost == width > 1 => \A j \in 1..fed :
              \/ \E w \in Workers : worker[w].at \in Busy /\ worker[w].job = j
              \/ \E i \in 1..Len(results) : results[i].index = j

(* What the caller kept of the results it has received. *)
Kept == /\ width > 1 => \A i \in 1..taken : results[i].ok => results[i].index \in stored
        /\ (width > 1 /\ firstErr = 0) => \A i \in 1..taken : results[i].ok
        /\ (width > 1 /\ firstErr # 0) =>
              \E i \in 1..taken : /\ results[i] = [index |-> firstErr, ok |-> FALSE]
                                  /\ \A j \in 1..(i - 1) : results[j].ok
        /\ (width > 1 /\ main \notin {"open", "run"} /\ fed > 0) =>
              "results" \in closed /\ taken = Len(results)
        /\ (width > 1 /\ main \in {"closing", "ok"}) => fed > 0

(* The loop without a pool. *)
InOrder == width = 1 =>
  /\ results = << >> /\ taken = 0
  /\ worker[1].at \in Busy => worker[1].job = fed /\ main = "run"
  /\ main = "run" => firstErr = 0
  /\ firstErr = 0 => stored = 1..(IF worker[1].at \in Busy THEN fed - 1 ELSE fed)
  /\ (main \in {"closing", "ok"} /\ firstErr = 0) => fed = N

UnionInv == /\ UnionTypeOK /\ Contexts /\ LaneTable /\ Pool /\ NoneLost /\ Kept /\ InOrder

(* The workers are lanes, and a step that moves one leaves the others. *)
LEMMA WorkerMoved ==
  ASSUME UnionTypeOK, NEW w \in Workers, NEW r, worker' = [worker EXCEPT ![w] = r]
  PROVE  /\ w \in Lanes /\ Workers \subseteq Lanes
         /\ worker'[w] = r
         /\ \A v \in Lanes \ {w} : worker'[v] = worker[v]
BY UnionBounds DEF UnionTypeOK, Workers, Lanes

(* Opening the context and starting the workers establishes the bookkeeping. *)
LEMMA OpenKeeps ==
  ASSUME UnionInv, ChunkedUnionScore
  PROVE  UnionInv'
<1>1. UnionTypeOK'
  BY UnionBounds DEF UnionInv, ChunkedUnionScore, pool, state, UnionTypeOK, Result, Lanes, Workers, Busy
<1>2. Contexts'
  BY UnionBounds DEF UnionInv, ChunkedUnionScore, pool, state, UnionTypeOK, Contexts, Fresh, Pool, Kept, InOrder, Busy, Workers, Lanes, Result, AllGone
<1>3. LaneTable'
  BY UnionBounds DEF UnionInv, ChunkedUnionScore, pool, state, UnionTypeOK, LaneTable, LaneKeys, Workers, Lanes, Contexts, Fresh, Pool, Busy
<1>4. Pool'
  BY UnionBounds DEF UnionInv, ChunkedUnionScore, pool, state, UnionTypeOK, Pool, AllGone, Workers, Lanes, Busy, Contexts, Fresh, InOrder
<1>5. NoneLost'
  BY UnionBounds DEF UnionInv, ChunkedUnionScore, pool, state, UnionTypeOK, NoneLost, Workers, Lanes, Busy, Contexts, Fresh, Result, Pool
<1>6. Kept'
  BY UnionBounds DEF UnionInv, ChunkedUnionScore, pool, state, UnionTypeOK, Kept, Contexts, Fresh, Pool, Lanes, Result, AllGone, Workers, Busy
<1>7. InOrder'
  BY UnionBounds DEF UnionInv, ChunkedUnionScore, pool, state, UnionTypeOK, InOrder, Contexts, Fresh, Busy, Workers, Lanes, Pool
<1> QED
  BY <1>1, <1>2, <1>3, <1>4, <1>5, <1>6, <1>7 DEF UnionInv

(* Closing the jobs channel after the last send keeps the invariant. *)
LEMMA CloseJobsKeeps ==
  ASSUME UnionInv, CloseJobs
  PROVE  UnionInv'
<1>1. UnionTypeOK'
  BY UnionBounds DEF UnionInv, CloseJobs, Pooled, pool, state, UnionTypeOK, Result, Lanes, Workers, Busy
<1>2. Contexts'
  BY UnionBounds DEF UnionInv, CloseJobs, Pooled, pool, state, UnionTypeOK, Contexts, Fresh, Pool, Kept, InOrder, Busy, Workers, Lanes, Result, AllGone
<1>3. LaneTable'
  BY UnionBounds DEF UnionInv, CloseJobs, Pooled, pool, state, UnionTypeOK, LaneTable, LaneKeys, Workers, Lanes, Contexts
<1>4. Pool'
  BY UnionBounds DEF UnionInv, CloseJobs, Pooled, pool, state, UnionTypeOK, Pool, AllGone, Workers, Lanes, Busy, Contexts, Fresh, InOrder
<1>5. NoneLost'
  BY UnionBounds, Zenon DEF UnionInv, CloseJobs, Pooled, pool, state, UnionTypeOK, NoneLost, Workers, Lanes, Busy, Contexts, Fresh, Result, Pool
<1>6. Kept'
  BY UnionBounds, Zenon DEF UnionInv, CloseJobs, Pooled, pool, state, UnionTypeOK, Kept, Contexts, Fresh, Pool, Lanes, Result, AllGone, Workers, Busy
<1>7. InOrder'
  BY UnionBounds DEF UnionInv, CloseJobs, Pooled, pool, state, UnionTypeOK, InOrder, Contexts, Fresh, Busy, Workers, Lanes, Pool
<1> QED
  BY <1>1, <1>2, <1>3, <1>4, <1>5, <1>6, <1>7 DEF UnionInv

(* The goroutine that waits for the workers closes results only when all are gone. *)
LEMMA CloseResultsKeeps ==
  ASSUME UnionInv, CloseResults
  PROVE  UnionInv'
<1>1. UnionTypeOK'
  BY UnionBounds DEF UnionInv, CloseResults, Pooled, pool, state, UnionTypeOK, Result, Lanes, Workers, Busy
<1>2. Contexts'
  BY UnionBounds DEF UnionInv, CloseResults, Pooled, pool, state, UnionTypeOK, Contexts, Fresh, Pool, Kept, InOrder, Busy, Workers, Lanes, Result, AllGone
<1>3. LaneTable'
  BY UnionBounds DEF UnionInv, CloseResults, Pooled, pool, state, UnionTypeOK, LaneTable, LaneKeys, Workers, Lanes, Contexts
<1>4. Pool'
  BY UnionBounds DEF UnionInv, CloseResults, Pooled, pool, state, UnionTypeOK, Pool, AllGone, Workers, Lanes, Busy, Contexts, Fresh, InOrder
<1>5. NoneLost'
  BY UnionBounds, Zenon DEF UnionInv, CloseResults, Pooled, pool, state, UnionTypeOK, NoneLost, Workers, Lanes, Busy, Contexts, Fresh, Result, Pool
<1>6. Kept'
  BY UnionBounds, Zenon DEF UnionInv, CloseResults, Pooled, pool, state, UnionTypeOK, Kept, Contexts, Fresh, Pool, Lanes, Result, AllGone, Workers, Busy
<1>7. InOrder'
  BY UnionBounds DEF UnionInv, CloseResults, Pooled, pool, state, UnionTypeOK, InOrder, Contexts, Fresh, Busy, Workers, Lanes, Pool
<1> QED
  BY <1>1, <1>2, <1>3, <1>4, <1>5, <1>6, <1>7 DEF UnionInv

(* Receiving one result keeps it, or the first error, and loses none. *)
LEMMA CollectKeeps ==
  ASSUME UnionInv, Collect
  PROVE  UnionInv'
<1>1. UnionTypeOK'
  <2>1. results[taken + 1] \in Result /\ taken + 1 \in 1..Len(results)
    BY DEF UnionInv, UnionTypeOK, Collect, Pooled
  <2>2. stored' \subseteq Lanes /\ firstErr' \in 0..N
    <3>1. results[taken + 1].index \in Lanes /\ Lanes \subseteq 0..N
      BY <2>1, UnionBounds DEF Result, Lanes
    <3> QED
      BY <3>1, Zenon DEF UnionInv, UnionTypeOK, Collect
  <2>3. taken' \in 0..Len(results')
    BY <2>1 DEF UnionInv, UnionTypeOK, Collect, pool
  <2> QED
    BY <2>2, <2>3 DEF UnionInv, UnionTypeOK, Collect, pool
<1>2. Contexts'
  BY UnionBounds DEF UnionInv, Collect, Pooled, pool, state, UnionTypeOK, Contexts, Fresh, Pool, Kept, InOrder, Busy, Workers, Lanes, Result, AllGone
<1>3. LaneTable'
  BY UnionBounds DEF UnionInv, Collect, Pooled, pool, state, UnionTypeOK, LaneTable, LaneKeys, Workers, Lanes, Contexts
<1>4. Pool'
  BY UnionBounds DEF UnionInv, Collect, Pooled, pool, state, UnionTypeOK, Pool, AllGone, Workers, Lanes, Busy, Contexts, Fresh, InOrder
<1>5. NoneLost'
  BY UnionBounds, Zenon DEF UnionInv, Collect, Pooled, pool, state, UnionTypeOK, NoneLost, Workers, Lanes, Busy, Contexts, Fresh, Result, Pool
<1>6. Kept'
  <2>1. results[taken + 1] \in Result /\ taken \in Nat /\ taken' = taken + 1 /\ results' = results
        /\ width' = width /\ main = "run" /\ main' = main
    BY DEF UnionInv, UnionTypeOK, Collect, Pooled, pool
  <2>2. results[taken + 1] = [index |-> results[taken + 1].index, ok |-> results[taken + 1].ok]
        /\ results[taken + 1].ok \in BOOLEAN /\ results[taken + 1].index \in 1..N
    BY <2>1 DEF Result, Lanes
  <2>3. CASE ~results[taken + 1].ok /\ firstErr = 0
    <3>1. firstErr' = results[taken + 1].index /\ stored' = stored
      BY <2>3 DEF Collect
    <3>2. (\A i \in 1..taken : results[i].ok) \/ ~(width > 1)
      BY <2>3 DEF UnionInv, Kept
    <3>3. results[taken + 1] = [index |-> firstErr', ok |-> FALSE]
      BY <2>2, <2>3, <3>1, Zenon
    <3>4. firstErr' # 0 /\ taken + 1 \in 1..(taken + 1) /\ taken + 1 - 1 = taken
      BY <2>1, <2>2, <3>1, UnionBounds
    <3>5. width > 1 => \E i \in 1..(taken + 1) : /\ results[i] = [index |-> firstErr', ok |-> FALSE]
                                                /\ \A j \in 1..(i - 1) : results[j].ok
      <4> SUFFICES ASSUME width > 1
                   PROVE  \E i \in 1..(taken + 1) : /\ results[i] = [index |-> firstErr', ok |-> FALSE]
                                                    /\ \A j \in 1..(i - 1) : results[j].ok
        OBVIOUS
      <4>1. PICK i \in 1..(taken + 1) : i = taken + 1
        BY <3>4
      <4>2. results[i] = [index |-> firstErr', ok |-> FALSE]
        BY <3>3, <4>1
      <4>3. \A j \in 1..(i - 1) : results[j].ok
        <5>1. i - 1 = taken
          BY <2>1, <4>1
        <5>2. \A j \in 1..taken : results[j].ok
          BY <3>2
        <5> QED
          BY <5>1, <5>2
      <4> QED
        BY <4>2, <4>3
    <3>6. width > 1 => \A i \in 1..(taken + 1) : results[i].ok => results[i].index \in stored
      BY <2>1, <2>3 DEF UnionInv, Kept
    <3> QED
      BY <2>1, <3>1, <3>4, <3>5, <3>6, Zenon DEF Kept
  <2>4. CASE ~(~results[taken + 1].ok /\ firstErr = 0)
    <3>1. stored' = stored \cup {results[taken + 1].index} /\ firstErr' = firstErr
      BY <2>4 DEF Collect
    <3>2. width > 1 => \A i \in 1..(taken + 1) : results[i].ok => results[i].index \in stored'
      BY <2>1, <3>1 DEF UnionInv, Kept
    <3>3. (width > 1 /\ firstErr = 0) => \A i \in 1..(taken + 1) : results[i].ok
      BY <2>1, <2>4 DEF UnionInv, Kept
    <3>4. (width > 1 /\ firstErr # 0) =>
            \E i \in 1..(taken + 1) : /\ results[i] = [index |-> firstErr, ok |-> FALSE]
                                      /\ \A j \in 1..(i - 1) : results[j].ok
      <4>1. 1..taken \subseteq 1..(taken + 1)
        BY <2>1
      <4> QED
        BY <4>1, Zenon DEF UnionInv, Kept
    <3> QED
      BY <2>1, <3>1, <3>2, <3>3, <3>4, Zenon DEF Kept
  <2> QED
    BY <2>3, <2>4
<1>7. InOrder'
  BY UnionBounds DEF UnionInv, Collect, Pooled, pool, state, UnionTypeOK, InOrder, Contexts, Fresh, Busy, Workers, Lanes, Pool
<1> QED
  BY <1>1, <1>2, <1>3, <1>4, <1>5, <1>6, <1>7 DEF UnionInv

(* The range over results ends only when the closed channel is drained. *)
LEMMA CollectedKeeps ==
  ASSUME UnionInv, Collected
  PROVE  UnionInv'
<1>1. UnionTypeOK'
  BY UnionBounds DEF UnionInv, Collected, Pooled, pool, state, UnionTypeOK, Result, Lanes, Workers, Busy
<1>2. Contexts'
  BY UnionBounds DEF UnionInv, Collected, Pooled, pool, state, UnionTypeOK, Contexts, Fresh, Pool, Kept, InOrder, Busy, Workers, Lanes, Result, AllGone
<1>3. LaneTable'
  BY UnionBounds DEF UnionInv, Collected, Pooled, pool, state, UnionTypeOK, LaneTable, LaneKeys, Workers, Lanes, Contexts
<1>4. Pool'
  BY UnionBounds DEF UnionInv, Collected, Pooled, pool, state, UnionTypeOK, Pool, AllGone, Workers, Lanes, Busy, Contexts, Fresh, InOrder
<1>5. NoneLost'
  BY UnionBounds, Zenon DEF UnionInv, Collected, Pooled, pool, state, UnionTypeOK, NoneLost, Workers, Lanes, Busy, Contexts, Fresh, Result, Pool
<1>6. Kept'
  <2>1. results' = results /\ taken' = taken /\ stored' = stored /\ firstErr' = firstErr /\ width' = width
        /\ fed' = fed /\ closed' = closed
    BY DEF Collected, pool, state
  <2>2. "results" \in closed /\ taken = Len(results) /\ fed > 0
    BY UnionBounds DEF Collected, UnionInv, Pool
  <2> QED
    BY <2>1, <2>2, Zenon DEF UnionInv, Kept
<1>7. InOrder'
  BY UnionBounds DEF UnionInv, Collected, Pooled, pool, state, UnionTypeOK, InOrder, Contexts, Fresh, Busy, Workers, Lanes, Pool
<1> QED
  BY <1>1, <1>2, <1>3, <1>4, <1>5, <1>6, <1>7 DEF UnionInv

(* The loop used for one worker keeps its results in order and stops at an error. *)
LEMMA SequentialKeeps ==
  ASSUME UnionInv, Sequential
  PROVE  UnionInv'
<1>1. UnionTypeOK'
  <2>1. worker[1] \in [at : {"clear", "insert", "fuse", "wait", "gone"}, job : 0..N] /\ 1 \in Lanes
    BY UnionBounds DEF UnionInv, UnionTypeOK, Lanes
  <2>2. worker[1].at \notin {"wait", "gone"} => worker[1].job \in Lanes
    BY <2>1 DEF UnionInv, Pool, UnionTypeOK, Workers, Lanes, Busy, Sequential
  <2>3. worker[1].at # "gone"
    BY DEF UnionInv, Pool, UnionTypeOK, Workers, Sequential
  <2>4. worker' \in [Lanes -> [at : {"clear", "insert", "fuse", "wait", "gone"}, job : 0..N]]
    <3> DEFINE T == [at : {"clear", "insert", "fuse", "wait", "gone"}, job : 0..N]
    <3>1. AtJobs \in T
      BY UnionBounds DEF AtJobs
    <3>2. fed < N => [at |-> IF preinserted THEN "fuse" ELSE "clear", job |-> fed + 1] \in T
      BY UnionBounds DEF UnionInv, UnionTypeOK
    <3> HIDE DEF T
    <3> QED
      BY <3>1, <3>2, <2>1 DEF UnionInv, UnionTypeOK, Sequential, T
  <2>5. stored' \subseteq Lanes /\ firstErr' \in 0..N /\ fed' \in 0..N
    <3>1. worker[1].at # "wait" => worker[1].job \in Lanes /\ worker[1].job \in 0..N
      BY <2>2, <2>3, UnionBounds DEF Lanes
    <3>2. stored' \subseteq Lanes
      BY <3>1 DEF UnionInv, UnionTypeOK, Sequential
    <3>3. firstErr' \in 0..N
      BY <3>1 DEF UnionInv, UnionTypeOK, Sequential
    <3>4. fed' \in 0..N
      BY UnionBounds DEF UnionInv, UnionTypeOK, Sequential
    <3> QED
      BY <3>2, <3>3, <3>4
  <2> QED
    BY <2>4, <2>5 DEF UnionInv, UnionTypeOK, Sequential
<1>2. Contexts'
  BY UnionBounds DEF UnionInv, Sequential, AtJobs, pool, state, UnionTypeOK, Contexts, Fresh, Pool, Kept, InOrder, Busy, Workers, Lanes, Result, AllGone
<1>3. LaneTable'
  BY UnionBounds DEF UnionInv, Sequential, AtJobs, pool, state, UnionTypeOK, LaneTable, LaneKeys, Workers, Lanes, Contexts
<1>4. Pool'
  BY UnionBounds DEF UnionInv, Sequential, AtJobs, pool, state, UnionTypeOK, Pool, AllGone, Workers, Lanes, Busy, Contexts, Fresh, InOrder
<1>5. NoneLost'
  BY UnionBounds DEF UnionInv, Sequential, AtJobs, pool, state, UnionTypeOK, NoneLost, Workers, Lanes, Busy, Contexts, Fresh, Result, Pool
<1>6. Kept'
  BY UnionBounds DEF UnionInv, Sequential, AtJobs, pool, state, UnionTypeOK, Kept, Contexts, Fresh, Pool, Lanes, Result, AllGone, Workers, Busy
<1>7. InOrder'
  <2>1. worker[1] \in [at : {"clear", "insert", "fuse", "wait", "gone"}, job : 0..N] /\ 1 \in Lanes
    BY UnionBounds DEF UnionInv, UnionTypeOK, Lanes
  <2>2. width = 1 /\ width' = 1 /\ results' = results /\ taken' = taken /\ main = "run" /\ firstErr = 0
        /\ results = << >> /\ taken = 0 /\ fed \in 0..N
    BY DEF UnionInv, InOrder, Sequential, UnionTypeOK
  <2>3. worker[1].at \in Busy \cup {"wait"}
    BY <2>1, <2>2 DEF UnionInv, Pool, Workers, Busy
  <2>4. CASE worker[1].at = "wait" /\ fed < N /\ fed' = fed + 1
    <3>1. worker'[1].at \in Busy /\ worker'[1].job = fed + 1 /\ main' = main /\ stored' = stored /\ firstErr' = 0
      <4>1. worker' = [worker EXCEPT ![1] = [at |-> IF preinserted THEN "fuse" ELSE "clear", job |-> fed + 1]]
            /\ main' = main /\ stored' = stored /\ firstErr' = firstErr
        BY <2>2, <2>4 DEF Sequential
      <4>2. worker'[1] = [at |-> IF preinserted THEN "fuse" ELSE "clear", job |-> fed + 1]
        BY <2>1, <4>1 DEF UnionInv, UnionTypeOK
      <4> QED
        BY <2>2, <4>1, <4>2 DEF Busy
    <3>2. stored = 1..fed
      BY <2>2, <2>4 DEF UnionInv, InOrder, Busy
    <3>3. 1..fed = 1..(fed' - 1)
      BY <2>2, <2>4
    <3> QED
      BY <2>2, <2>4, <3>1, <3>2, <3>3 DEF InOrder
  <2>5. CASE worker[1].at # "wait"
    <3>1. worker'[1].at = "wait" /\ fed' = fed /\ worker[1].job = fed /\ fed \in 1..N
      <4>1. worker' = [worker EXCEPT ![1] = AtJobs] /\ fed' = fed
        BY <2>5 DEF Sequential
      <4>2. worker'[1].at = "wait"
        BY <2>1, <4>1 DEF UnionInv, UnionTypeOK, AtJobs
      <4>3. worker[1].job = fed /\ worker[1].job \in 1..fed
        BY <2>2, <2>3, <2>5 DEF UnionInv, InOrder, Pool, Workers
      <4> QED
        BY <2>2, <4>1, <4>2, <4>3
    <3>2. stored = 1..(fed - 1)
      BY <2>2, <2>3, <2>5 DEF UnionInv, InOrder
    <3>3. CASE stored' = stored \cup {worker[1].job} /\ UNCHANGED <<main, firstErr>>
      <4>1. stored' = 1..fed
        BY <3>1, <3>2, <3>3
      <4> QED
        BY <2>2, <3>1, <3>3, <4>1 DEF InOrder, Busy
    <3>4. CASE firstErr' = worker[1].job /\ main' = "closing"
      BY <2>2, <3>1, <3>4 DEF InOrder, Busy
    <3> QED
      BY <2>5, <3>3, <3>4 DEF Sequential
  <2>6. CASE worker[1].at = "wait" /\ fed = N
    BY <2>2, <2>6 DEF UnionInv, InOrder, Sequential, Busy
  <2> QED
    BY <2>4, <2>5, <2>6, <2>2 DEF Sequential
<1> QED
  BY <1>1, <1>2, <1>3, <1>4, <1>5, <1>6, <1>7 DEF UnionInv

(* Returning closes the context, after the last lane. *)
LEMMA UnionReturnKeeps ==
  ASSUME UnionInv, UnionReturn
  PROVE  UnionInv'
<1>1. UnionTypeOK'
  BY UnionBounds, Zenon DEF UnionInv, UnionReturn, pool, state, UnionTypeOK, Result, Lanes, Workers, Busy
<1>2. Contexts'
  BY UnionBounds DEF UnionInv, UnionReturn, pool, state, UnionTypeOK, Contexts, Fresh, Pool, Kept, InOrder, Busy, Workers, Lanes, Result, AllGone
<1>3. LaneTable'
  BY UnionBounds DEF UnionInv, UnionReturn, pool, state, UnionTypeOK, LaneTable, LaneKeys, Workers, Lanes, Contexts
<1>4. Pool'
  BY UnionBounds DEF UnionInv, UnionReturn, pool, state, UnionTypeOK, Pool, AllGone, Workers, Lanes, Busy, Contexts, Fresh, InOrder
<1>5. NoneLost'
  BY UnionBounds, Zenon DEF UnionInv, UnionReturn, pool, state, UnionTypeOK, NoneLost, Workers, Lanes, Busy, Contexts, Fresh, Result, Pool
<1>6. Kept'
  BY UnionBounds, Zenon DEF UnionInv, UnionReturn, pool, state, UnionTypeOK, Kept, Contexts, Fresh, Pool, Lanes, Result, AllGone, Workers, Busy
<1>7. InOrder'
  BY UnionBounds DEF UnionInv, UnionReturn, pool, state, UnionTypeOK, InOrder, Contexts, Fresh, Busy, Workers, Lanes, Pool
<1> QED
  BY <1>1, <1>2, <1>3, <1>4, <1>5, <1>6, <1>7 DEF UnionInv

(* Handing a job to a waiting worker adds it to the jobs that are with a worker. *)
LEMMA FeedKeeps ==
  ASSUME UnionInv, NEW w \in Workers, Feed(w)
  PROVE  UnionInv'
<1>1. UnionTypeOK'
  BY UnionBounds DEF UnionInv, Feed, Pooled, pool, state, UnionTypeOK, Result, Lanes, Workers, Busy
<1>2. Contexts'
  BY UnionBounds DEF UnionInv, Feed, Pooled, pool, state, UnionTypeOK, Contexts, Fresh, Pool, Kept, InOrder, Busy, Workers, Lanes, Result, AllGone
<1>3. LaneTable'
  BY UnionBounds DEF UnionInv, Feed, Pooled, pool, state, UnionTypeOK, LaneTable, LaneKeys, Workers, Lanes, Contexts
<1>4. Pool'
  BY UnionBounds DEF UnionInv, Feed, Pooled, pool, state, UnionTypeOK, Pool, AllGone, Workers, Lanes, Busy, Contexts, Fresh, InOrder
<1>5. NoneLost'
  <2> SUFFICES ASSUME width > 1, NEW j \in 1..(fed + 1)
               PROVE  \/ \E v \in Workers : worker'[v].at \in Busy /\ worker'[v].job = j
                      \/ \E i \in 1..Len(results) : results[i].index = j
    BY DEF NoneLost, Feed, state, Workers
  <2>1. w \in Lanes /\ worker'[w].at \in Busy /\ worker'[w].job = fed + 1 /\ worker[w].at = "wait"
        /\ Workers \subseteq Lanes /\ \A v \in Lanes \ {w} : worker'[v] = worker[v]
    <3> DEFINE r == [at |-> IF preinserted THEN "fuse" ELSE "clear", job |-> fed + 1]
    <3>1. worker' = [worker EXCEPT ![w] = r] /\ worker[w].at = "wait"
      BY DEF Feed
    <3>2. r.at \in Busy /\ r.job = fed + 1
      BY DEF Busy
    <3> HIDE DEF r
    <3>3. worker'[w] = r /\ w \in Lanes /\ Workers \subseteq Lanes /\ \A v \in Lanes \ {w} : worker'[v] = worker[v]
      BY <3>1, WorkerMoved, Zenon DEF UnionInv
    <3> QED
      BY <3>1, <3>2, <3>3
  <2>2. CASE j = fed + 1
    BY <2>1, <2>2
  <2>3. CASE j # fed + 1
    <3>1. j \in 1..fed
      BY <2>3 DEF UnionInv, UnionTypeOK
    <3>2. \A v \in Workers : worker[v].at \in Busy => worker'[v] = worker[v]
      BY <2>1 DEF Busy
    <3> QED
      BY <3>1, <3>2 DEF UnionInv, NoneLost
  <2> QED
    BY <2>2, <2>3
<1>6. Kept'
  BY UnionBounds, Zenon DEF UnionInv, Feed, Pooled, pool, state, UnionTypeOK, Kept, Contexts, Fresh, Pool, Lanes, Result, AllGone, Workers, Busy
<1>7. InOrder'
  BY UnionBounds DEF UnionInv, Feed, Pooled, pool, state, UnionTypeOK, InOrder, Contexts, Fresh, Busy, Workers, Lanes, Pool
<1> QED
  BY <1>1, <1>2, <1>3, <1>4, <1>5, <1>6, <1>7 DEF UnionInv

(* Clearing and inserting the evaluation keys touches only the table and the lane. *)
LEMMA LaneInsertKeeps ==
  ASSUME UnionInv, NEW w \in Workers, LaneInsert(w)
  PROVE  UnionInv'
<1>1. UnionTypeOK'
  BY UnionBounds, ZenonT(60) DEF UnionInv, LaneInsert, pool, state, UnionTypeOK, Result, Lanes, Workers, Busy
<1>2. Contexts'
  BY UnionBounds DEF UnionInv, LaneInsert, pool, state, UnionTypeOK, Contexts, Fresh, Pool, Kept, InOrder, Busy, Workers, Lanes, Result, AllGone
<1>3. LaneTable'
  <2>1. ~preinserted
    BY DEF UnionInv, LaneTable, LaneInsert
  <2>2. width = 1 /\ w = 1
    BY <2>1 DEF UnionInv, LaneTable, UnionTypeOK, Workers
  <2>3. worker'[1].at = "fuse" => inserted'
    BY <2>2, ZenonT(60) DEF LaneInsert, UnionInv, UnionTypeOK, Lanes, Workers
  <2> QED
    BY <2>1, <2>2, <2>3 DEF LaneInsert, LaneTable, LaneKeys, Workers
<1>4. Pool'
  BY UnionBounds DEF UnionInv, LaneInsert, pool, state, UnionTypeOK, Pool, AllGone, Workers, Lanes, Busy, Contexts, Fresh, InOrder
<1>5. NoneLost'
  <2>1. width = 1 /\ width' = width
    BY DEF UnionInv, LaneTable, LaneInsert, UnionTypeOK, Workers
  <2> QED
    BY <2>1 DEF NoneLost
<1>6. Kept'
  BY UnionBounds, Zenon DEF UnionInv, LaneInsert, pool, state, UnionTypeOK, Kept, Contexts, Fresh, Pool, Lanes, Result, AllGone, Workers, Busy
<1>7. InOrder'
  BY UnionBounds DEF UnionInv, LaneInsert, pool, state, UnionTypeOK, InOrder, Contexts, Fresh, Busy, Workers, Lanes, Pool
<1> QED
  BY <1>1, <1>2, <1>3, <1>4, <1>5, <1>6, <1>7 DEF UnionInv

(* A lane that fuses moves its job from the worker to the results. *)
LEMMA LaneFuseKeeps ==
  ASSUME UnionInv, NEW w \in Workers, LaneFuse(w)
  PROVE  UnionInv'
<1>1. UnionTypeOK'
  <2>1. w \in Lanes /\ worker[w].job \in Lanes
    BY UnionBounds DEF UnionInv, UnionTypeOK, Pool, Busy, Workers, Lanes, LaneFuse
  <2>2. PICK ok \in BOOLEAN : results' = Append(results, [index |-> worker[w].job, ok |-> ok])
    BY Zenon DEF LaneFuse
  <2>3. results' \in Seq(Result) /\ Len(results') = Len(results) + 1
    BY <2>1, <2>2 DEF UnionInv, UnionTypeOK, Result
  <2>4. worker' \in [Lanes -> [at : {"clear", "insert", "fuse", "wait", "gone"}, job : 0..N]]
    BY <2>1, UnionBounds DEF UnionInv, UnionTypeOK, LaneFuse, AtJobs, Lanes
  <2>5. taken' \in 0..Len(results')
    BY <2>3 DEF UnionInv, UnionTypeOK, LaneFuse, state
  <2> QED
    BY <2>3, <2>4, <2>5 DEF UnionInv, UnionTypeOK, LaneFuse, state
<1>2. Contexts'
  BY UnionBounds DEF UnionInv, LaneFuse, Pooled, AtJobs, pool, state, UnionTypeOK, Contexts, Fresh, Pool, Kept, InOrder, Busy, Workers, Lanes, Result, AllGone
<1>3. LaneTable'
  BY UnionBounds DEF UnionInv, LaneFuse, Pooled, AtJobs, pool, state, UnionTypeOK, LaneTable, LaneKeys, Workers, Lanes, Contexts
<1>4. Pool'
  BY UnionBounds DEF UnionInv, LaneFuse, Pooled, AtJobs, pool, state, UnionTypeOK, Pool, AllGone, Workers, Lanes, Busy, Contexts, Fresh, InOrder
<1>5. NoneLost'
  <2>1. PICK ok \in BOOLEAN : results' = Append(results, [index |-> worker[w].job, ok |-> ok])
    BY Zenon DEF LaneFuse
  <2>2. /\ Len(results') = Len(results) + 1 /\ results'[Len(results) + 1].index = worker[w].job
        /\ \A i \in 1..Len(results) : results'[i] = results[i]
    BY <2>1 DEF UnionInv, UnionTypeOK
  <2>3. /\ width' = width /\ fed' = fed
        /\ Workers \subseteq Lanes /\ \A v \in Lanes \ {w} : worker'[v] = worker[v]
    BY WorkerMoved, Zenon DEF UnionInv, LaneFuse
  <2> SUFFICES ASSUME width > 1, NEW j \in 1..fed
               PROVE  \/ \E v \in Workers : worker'[v].at \in Busy /\ worker'[v].job = j
                      \/ \E i \in 1..Len(results') : results'[i].index = j
    BY <2>3 DEF NoneLost, Workers
  <2>4. CASE worker[w].job = j
    <3>1. Len(results) + 1 \in 1..Len(results')
      BY <2>2 DEF UnionInv, UnionTypeOK
    <3> QED
      BY <2>2, <2>4, <3>1
  <2>5. CASE worker[w].job # j
    <3>1. CASE \E v \in Workers : worker[v].at \in Busy /\ worker[v].job = j
      BY <2>3, <2>5, <3>1
    <3>2. CASE \E i \in 1..Len(results) : results[i].index = j
      BY <2>2, <3>2 DEF UnionInv, UnionTypeOK
    <3> QED
      BY <3>1, <3>2 DEF UnionInv, NoneLost
  <2> QED
    BY <2>4, <2>5
<1>6. Kept'
  <2>1. PICK ok \in BOOLEAN : results' = Append(results, [index |-> worker[w].job, ok |-> ok])
    BY Zenon DEF LaneFuse
  <2>2. /\ Len(results') = Len(results) + 1 /\ results'[Len(results) + 1].index = worker[w].job
        /\ \A i \in 1..Len(results) : results'[i] = results[i]
    BY <2>1 DEF UnionInv, UnionTypeOK
  <2>3. /\ main = "run" /\ main' = main /\ taken' = taken /\ stored' = stored /\ firstErr' = firstErr
        /\ width' = width /\ taken \in 0..Len(results) /\ Len(results) \in Nat
    BY DEF LaneFuse, Pooled, state, UnionInv, UnionTypeOK
  <2>4. \A i \in 1..taken : results'[i] = results[i]
    BY <2>2, <2>3
  <2>5. (width > 1 /\ firstErr # 0) =>
          \E i \in 1..taken : /\ results'[i] = [index |-> firstErr, ok |-> FALSE]
                              /\ \A j \in 1..(i - 1) : results'[j].ok
    <3> SUFFICES ASSUME width > 1, firstErr # 0
                 PROVE  \E i \in 1..taken : /\ results'[i] = [index |-> firstErr, ok |-> FALSE]
                                            /\ \A j \in 1..(i - 1) : results'[j].ok
      BY Zenon
    <3>1. PICK i \in 1..taken : /\ results[i] = [index |-> firstErr, ok |-> FALSE]
                               /\ \A j \in 1..(i - 1) : results[j].ok
      BY Zenon DEF UnionInv, Kept
    <3>2. \A j \in 1..(i - 1) : j \in 1..taken
      BY <2>3, <3>1
    <3> QED
      BY <2>4, <3>1, <3>2
  <2> QED
    BY <2>3, <2>4, <2>5, Zenon DEF UnionInv, Kept
<1>7. InOrder'
  BY UnionBounds DEF UnionInv, LaneFuse, Pooled, AtJobs, pool, state, UnionTypeOK, InOrder, Contexts, Fresh, Busy, Workers, Lanes, Pool
<1> QED
  BY <1>1, <1>2, <1>3, <1>4, <1>5, <1>6, <1>7 DEF UnionInv

(* A worker leaves only when the jobs channel is closed. *)
LEMMA WorkerExitKeeps ==
  ASSUME UnionInv, NEW w \in Workers, WorkerExit(w)
  PROVE  UnionInv'
<1>1. UnionTypeOK'
  BY UnionBounds DEF UnionInv, WorkerExit, Pooled, pool, state, UnionTypeOK, Result, Lanes, Workers, Busy
<1>2. Contexts'
  BY UnionBounds DEF UnionInv, WorkerExit, Pooled, pool, state, UnionTypeOK, Contexts, Fresh, Pool, Kept, InOrder, Busy, Workers, Lanes, Result, AllGone
<1>3. LaneTable'
  BY UnionBounds DEF UnionInv, WorkerExit, Pooled, pool, state, UnionTypeOK, LaneTable, LaneKeys, Workers, Lanes, Contexts
<1>4. Pool'
  BY UnionBounds DEF UnionInv, WorkerExit, Pooled, pool, state, UnionTypeOK, Pool, AllGone, Workers, Lanes, Busy, Contexts, Fresh, InOrder
<1>5. NoneLost'
  <2>1. /\ Workers \subseteq Lanes /\ \A v \in Lanes \ {w} : worker'[v] = worker[v]
        /\ width' = width /\ fed' = fed /\ results' = results /\ worker[w].at = "wait"
    BY WorkerMoved, Zenon DEF UnionInv, WorkerExit
  <2>2. \A v \in Workers : worker[v].at \in Busy => worker'[v] = worker[v]
    BY <2>1 DEF Busy
  <2> QED
    BY <2>1, <2>2 DEF UnionInv, NoneLost, Workers
<1>6. Kept'
  BY UnionBounds, Zenon DEF UnionInv, WorkerExit, Pooled, pool, state, UnionTypeOK, Kept, Contexts, Fresh, Pool, Lanes, Result, AllGone, Workers, Busy
<1>7. InOrder'
  BY UnionBounds DEF UnionInv, WorkerExit, Pooled, pool, state, UnionTypeOK, InOrder, Contexts, Fresh, Busy, Workers, Lanes, Pool
<1> QED
  BY <1>1, <1>2, <1>3, <1>4, <1>5, <1>6, <1>7 DEF UnionInv

(* UnionInv holds throughout: every job fed is with a worker or among the  *)
(* results, and the two channels of the pool close one after the other,    *)
(* for any number of comparators and any concurrency.                      *)
THEOREM UnionInductive == UnionSpec => []UnionInv
<1>1. UnionInit => UnionInv
  <2> SUFFICES ASSUME UnionInit PROVE UnionInv
    OBVIOUS
  <2>1. PICK c \in Requested, refs \in BOOLEAN :
          width = clampUnionConcurrency(c) /\ preinserted = Preinsert(clampUnionConcurrency(c), refs)
    BY DEF UnionInit
  <2>2. width \in 1..N /\ preinserted \in BOOLEAN /\ (width > 1 => preinserted)
    <3>1. clampUnionConcurrency(c) \in 1..N
      BY UnionBounds DEF clampUnionConcurrency
    <3>2. preinserted = (refs \/ width > 1)
      BY <2>1 DEF Preinsert
    <3>3. preinserted \in BOOLEAN /\ (width > 1 => preinserted)
      BY <3>2, Zenon
    <3> QED
      BY <2>1, <3>1, <3>3
  <2>3. UnionTypeOK
    <3>1. AtJobs \in [at : {"clear", "insert", "fuse", "wait", "gone"}, job : 0..N]
      BY UnionBounds DEF AtJobs
    <3>2. worker \in [Lanes -> [at : {"clear", "insert", "fuse", "wait", "gone"}, job : 0..N]]
      BY <3>1 DEF UnionInit, Lanes
    <3>3. results \in Seq(Result) /\ Len(results) = 0
      BY DEF UnionInit
    <3>4. /\ main = "open" /\ context = "none" /\ inserted = FALSE /\ fed = 0 /\ closed = {}
          /\ taken = 0 /\ stored = {} /\ firstErr = 0
      BY DEF UnionInit
    <3>5. fed \in 0..N /\ taken \in 0..Len(results) /\ firstErr \in 0..N
      BY <3>3, <3>4, UnionBounds
    <3> QED
      BY <2>2, <3>2, <3>3, <3>4, <3>5, Zenon DEF UnionTypeOK
  <2>4. \A w \in Workers : worker[w].at = "wait"
    BY <2>2, UnionBounds DEF UnionInit, AtJobs, Workers
  <2>5. Contexts /\ Pool /\ LaneTable
    BY <2>2, <2>4, Zenon DEF UnionInit, Contexts, Fresh, Pool, LaneTable, LaneKeys, Busy
  <2>6. NoneLost /\ Kept
    BY DEF UnionInit, NoneLost, Kept
  <2>7. InOrder
    BY <2>4 DEF UnionInit, InOrder, Busy, Workers
  <2> QED
    BY <2>3, <2>5, <2>6, <2>7 DEF UnionInv
<1>2. UnionInv /\ [UnionNext]_unionVars => UnionInv'
  <2> SUFFICES ASSUME UnionInv, [UnionNext]_unionVars PROVE UnionInv'
    OBVIOUS
  <2>1. CASE UNCHANGED unionVars
    <3>1. UnionTypeOK'
      BY <2>1 DEF unionVars, UnionInv, UnionTypeOK
    <3>2. Contexts' /\ LaneTable'
      BY <2>1 DEF unionVars, UnionInv, Contexts, Fresh, LaneTable, LaneKeys,
                  Workers, Busy, AtJobs
    <3>3. Pool'
      BY <2>1 DEF unionVars, UnionInv, Pool, AllGone, Workers
    <3>4. NoneLost' /\ Kept'
      BY <2>1, Zenon DEF unionVars, UnionInv, NoneLost, Kept, AllGone, Workers
    <3>5. InOrder'
      BY <2>1 DEF unionVars, UnionInv, InOrder, Workers
    <3> QED BY <3>1, <3>2, <3>3, <3>4, <3>5 DEF UnionInv
  <2>2. CASE UnionNext
    BY <2>2, OpenKeeps, CloseJobsKeeps, CloseResultsKeeps, CollectKeeps, CollectedKeeps, SequentialKeeps,
       UnionReturnKeeps, FeedKeeps, LaneInsertKeeps, LaneFuseKeeps, WorkerExitKeeps DEF UnionNext
  <2> QED
    BY <2>1, <2>2
<1> QED
  BY <1>1, <1>2, PTL DEF UnionSpec

(* Close never frees the context under a lane, for any number of           *)
(* comparators and any concurrency the caller of the union scorer asks for.*)
THEOREM ContextSafe == UnionSpec => []ContextOutlivesLanes
<1>1. UnionInv => ContextOutlivesLanes
  <2> SUFFICES ASSUME UnionInv, context = "closed", NEW w \in Workers
               PROVE  /\ worker[w].at \in {"wait", "gone"}
                      /\ (width > 1 /\ fed > 0 => worker[w].at = "gone")
    BY DEF ContextOutlivesLanes
  <2>1. main \in {"ok", "error"} /\ worker[w].at \in Busy \cup {"wait", "gone"}
    BY UnionBounds DEF UnionInv, UnionTypeOK, Contexts, Workers, Lanes, Busy
  <2>2. CASE width = 1
    BY <2>1, <2>2 DEF UnionInv, InOrder, Workers
  <2>3. CASE width > 1 /\ fed > 0
    BY <2>1, <2>3 DEF UnionInv, Kept, Pool, AllGone
  <2>4. CASE width > 1 /\ ~(fed > 0)
    BY <2>1, <2>4 DEF UnionInv, UnionTypeOK, Pool
  <2> QED
    BY <2>2, <2>3, <2>4 DEF UnionInv, UnionTypeOK
<1> QED
  BY <1>1, UnionInductive, PTL

(* The scorer returns results only when every lane succeeded, and an error *)
(* of the pool is the first failure received, for any number of lanes.     *)
THEOREM ReturnSafe == UnionSpec => []ReturnMatchesLanes
<1>1. UnionInv => ReturnMatchesLanes
  <2> SUFFICES ASSUME UnionInv PROVE ReturnMatchesLanes
    OBVIOUS
  <2>1. ASSUME main = "ok" PROVE stored = Lanes /\ \A i \in 1..Len(results) : results[i].ok
    <3>1. CASE width = 1
      <4>1. firstErr = 0 /\ fed = N /\ worker[1].at \notin Busy /\ results = << >>
        BY <2>1, <3>1 DEF UnionInv, InOrder, Contexts
      <4>2. stored = 1..N
        BY <3>1, <4>1 DEF UnionInv, InOrder
      <4> QED
        BY <4>1, <4>2 DEF Lanes
    <3>2. CASE width > 1
      <4>1. firstErr = 0 /\ taken = Len(results) /\ "results" \in closed
        BY <2>1, <3>2 DEF UnionInv, Kept, Contexts
      <4>2. fed = N /\ \A w \in Workers : worker[w].at \notin Busy
        BY <4>1 DEF UnionInv, Pool, AllGone, Busy
      <4>3. \A i \in 1..Len(results) : results[i].ok /\ results[i].index \in stored
        BY <3>2, <4>1 DEF UnionInv, Kept
      <4>4. \A j \in 1..N : \E i \in 1..Len(results) : results[i].index = j
        BY <3>2, <4>2 DEF UnionInv, NoneLost
      <4>5. stored = 1..N
        <5>1. \A j \in 1..N : j \in stored
          BY <4>3, <4>4
        <5> QED
          BY <5>1, Zenon DEF UnionInv, UnionTypeOK, Lanes
      <4> QED
        BY <4>3, <4>5 DEF Lanes
    <3> QED
      BY <3>1, <3>2 DEF UnionInv, UnionTypeOK
  <2>2. ASSUME main = "error", firstErr # 0, width > 1
        PROVE  \E i \in 1..Len(results) : /\ results[i] = [index |-> firstErr, ok |-> FALSE]
                                          /\ \A j \in 1..(i - 1) : results[j].ok
    <3>1. 1..taken \subseteq 1..Len(results)
      BY DEF UnionInv, UnionTypeOK
    <3> QED
      BY <2>2, <3>1, Zenon DEF UnionInv, Kept
  <2> QED
    BY <2>1, <2>2, Zenon DEF ReturnMatchesLanes
<1> QED
  BY <1>1, UnionInductive, PTL

(* A lane finds the evaluation keys in the table whenever it fuses, for    *)
(* any number of lanes side by side.                                       *)
THEOREM LaneKeysSafe == UnionSpec => []LaneKeys
<1>1. UnionInv => LaneKeys
  BY DEF UnionInv, LaneTable
<1> QED
  BY <1>1, UnionInductive, PTL
=============================================================================
