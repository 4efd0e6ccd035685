------------------------------- MODULE Union -------------------------------
(***************************************************************************)
(* The union scorer of the cgo bridge: every comparator lane is fused on   *)
(* one shared context, in order or by a pool of goroutines.  The jobs      *)
(* channel is unbuffered, the results channel has room for every lane; a   *)
(* feeder closes both, the second only after the workers are gone; the     *)
(* caller collects, keeps the first error and closes the context.          *)
(*                                                                         *)
(* What a lane computes is not modelled.  A lane that is passed key bytes  *)
(* clears the context's evaluation keys and inserts its own before it      *)
(* looks them up; otherwise the keys were inserted once, before the lanes. *)
(***************************************************************************)
EXTENDS Integers, Sequences

CONSTANTS N,           \* comparators of the union
          Requested    \* the concurrencies a caller may ask for

ASSUME UnionBounds == N \in Nat \ {0} /\ Requested \subseteq Int

VARIABLES width,       \* goroutines of the pool; 1 is the loop without a pool
          preinserted, \* usePreinsertedEvalKeys
          main,        \* the calling function: "open", "run", "closing", "ok", "error"
          worker,      \* per goroutine: where it is and its job
          fed,         \* jobs handed out
          closed,      \* channels closed: a subset of {"jobs", "results"}
          results,     \* the results sent so far, oldest first
          taken,       \* how many the caller has received
          stored,      \* the lanes whose chunks the caller stored
          firstErr,    \* the lane whose error is kept, or 0
          context,     \* "none", "open", "closed"
          inserted     \* the context's evaluation keys are in the table

pool  == <<worker, fed, closed, results>>
state == <<taken, stored, firstErr>>
unionVars  == <<width, preinserted, main, worker, fed, closed, results, taken, stored, firstErr, context, inserted>>

Lanes   == 1..N
Workers == 1..width
AtJobs == [at |-> "wait", job |-> 0]

(* Zero or less is one, and there are never more goroutines than lanes. *)
clampUnionConcurrency(c) == IF c <= 0 THEN 1 ELSE IF c > N THEN N ELSE c

PreinsertRefsOnly(w, refs) == refs
(* The per-index entry points always insert the keys first; the others     *)
(* only when lanes run side by side.                                       *)
Preinsert(w, refs) == refs \/ w > 1

UnionInit ==
  /\ \E c \in Requested, refs \in BOOLEAN :
       /\ width = clampUnionConcurrency(c)
       /\ preinserted = Preinsert(clampUnionConcurrency(c), refs)
  /\ main = "open" /\ context = "none" /\ inserted = FALSE
  /\ worker = [w \in 1..N |-> AtJobs]
  /\ fed = 0 /\ closed = {} /\ results = << >>
  /\ taken = 0 /\ stored = {} /\ firstErr = 0

(* The context, then the keys; a failure of either ends the call. *)
ChunkedUnionScore ==
  /\ main = "open"
  /\ \/ main' = "error" /\ UNCHANGED <<context, inserted>>
     \/ /\ context' = "open" /\ inserted' = preinserted
        /\ main' = "run"
     \/ preinserted /\ main' = "error" /\ context' = "closed" /\ UNCHANGED inserted
  /\ UNCHANGED <<width, preinserted, pool, state>>

Pooled == main = "run" /\ width > 1

(* The feeder hands the next job to a goroutine that is waiting for one. *)
Feed(w) ==
  /\ Pooled /\ fed < N /\ worker[w].at = "wait"
  /\ fed' = fed + 1
  /\ worker' = [worker EXCEPT ![w] = [at |-> IF preinserted THEN "fuse" ELSE "clear", job |-> fed + 1]]
  /\ UNCHANGED <<width, preinserted, main, closed, results, state, context, inserted>>

CloseJobsForgotten == FALSE /\ UNCHANGED unionVars
CloseJobs ==
  /\ Pooled /\ fed = N /\ "jobs" \notin closed
  /\ closed' = closed \cup {"jobs"}
  /\ UNCHANGED <<width, preinserted, main, worker, fed, results, state, context, inserted>>

(* A lane that was passed key bytes: clear, insert, then the look-up. *)
LaneInsert(w) ==
  /\ main = "run" /\ worker[w].at \in {"clear", "insert"}
  /\ inserted' = (worker[w].at = "insert")
  /\ worker' = [worker EXCEPT ![w].at = IF @ = "clear" THEN "insert" ELSE "fuse"]
  /\ UNCHANGED <<width, preinserted, main, fed, closed, results, state, context>>

(* The fusion succeeds or the lane fails, and its result is sent. *)
LaneFuse(w) ==
  /\ Pooled /\ worker[w].at \in {"clear", "insert", "fuse"}
  /\ \E ok \in {FALSE, worker[w].at = "fuse"} : results' = Append(results, [index |-> worker[w].job, ok |-> ok])
  /\ worker' = [worker EXCEPT ![w] = AtJobs]
  /\ UNCHANGED <<width, preinserted, main, fed, closed, state, context, inserted>>

WorkerExit(w) ==
  /\ Pooled /\ worker[w].at = "wait" /\ "jobs" \in closed
  /\ worker' = [worker EXCEPT ![w].at = "gone"]
  /\ UNCHANGED <<width, preinserted, main, fed, closed, results, state, context, inserted>>

SomeGone == TRUE
(* wg.Wait, then close(results). *)
AllGone == \A w \in Workers : worker[w].at = "gone"
CloseResults ==
  /\ Pooled /\ "jobs" \in closed /\ "results" \notin closed /\ AllGone
  /\ closed' = closed \cup {"results"}
  /\ UNCHANGED <<width, preinserted, main, worker, fed, results, state, context, inserted>>

CollectLastError ==
  /\ Pooled /\ taken < Len(results)
  /\ LET res == results[taken + 1] IN
     IF ~res.ok THEN firstErr' = res.index /\ UNCHANGED stored
                ELSE stored' = stored \cup {res.index} /\ UNCHANGED firstErr
  /\ taken' = taken + 1
  /\ UNCHANGED <<width, preinserted, main, pool, context, inserted>>

(* range results: the first error is kept; what comes after it is stored   *)
(* in a slice that is never returned.                                      *)
Collect ==
  /\ Pooled /\ taken < Len(results)
  /\ LET res == results[taken + 1] IN
     IF ~res.ok /\ firstErr = 0 THEN firstErr' = res.index /\ UNCHANGED stored
                                ELSE stored' = stored \cup {res.index} /\ UNCHANGED firstErr
  /\ taken' = taken + 1
  /\ UNCHANGED <<width, preinserted, main, pool, context, inserted>>

Collected ==
  /\ Pooled /\ "results" \in closed /\ taken = Len(results)
  /\ main' = "closing"
  /\ UNCHANGED <<width, preinserted, pool, state, context, inserted>>

(* One lane at a time: the caller itself runs them, and the first error    *)
(* ends the loop.                                                          *)
Sequential ==
  /\ main = "run" /\ width = 1
  /\ \/ /\ worker[1].at = "wait" /\ fed < N
        /\ fed' = fed + 1
        /\ worker' = [worker EXCEPT ![1] = [at |-> IF preinserted THEN "fuse" ELSE "clear", job |-> fed + 1]]
        /\ UNCHANGED <<main, stored, firstErr>>
     \/ /\ worker[1].at # "wait"
        /\ worker' = [worker EXCEPT ![1] = AtJobs]
        /\ \/ worker[1].at = "fuse" /\ stored' = stored \cup {worker[1].job} /\ UNCHANGED <<main, firstErr>>
           \/ firstErr' = worker[1].job /\ main' = "closing" /\ UNCHANGED stored
        /\ UNCHANGED fed
     \/ /\ worker[1].at = "wait" /\ fed = N
        /\ main' = "closing"
        /\ UNCHANGED <<worker, fed, stored, firstErr>>
  /\ UNCHANGED <<width, preinserted, closed, results, taken, context, inserted>>

(* The deferred Close, and the return. *)
UnionReturn ==
  /\ main = "closing"
  /\ context' = "closed" /\ inserted' = FALSE
  /\ main' = IF firstErr # 0 THEN "error" ELSE "ok"
  /\ UNCHANGED <<width, preinserted, pool, state>>

Returned == main \in {"ok", "error"}

UnionNext == \/ ChunkedUnionScore \/ CloseJobs \/ CloseResults \/ Collect \/ Collected
             \/ Sequential \/ UnionReturn
             \/ \E w \in Workers : Feed(w) \/ LaneInsert(w) \/ LaneFuse(w) \/ WorkerExit(w)

(* Goroutines run until they block: once the call is made, no step that    *)
(* stays enabled waits for ever.                                           *)
UnionFairness == WF_unionVars(main # "open" /\ UnionNext)
UnionSpec == UnionInit /\ [][UnionNext]_unionVars /\ UnionFairness

(***************************************************************************)
(* Properties.                                                             *)
(***************************************************************************)
(* A result is returned only when every lane succeeded, each stored at its *)
(* own index; an error after the pool ran means a lane failed, and it is   *)
(* the first failure that was received.                                    *)
ReturnMatchesLanes ==
  /\ main = "ok" => stored = Lanes /\ \A i \in 1..Len(results) : results[i].ok
  /\ (main = "error" /\ firstErr # 0 /\ width > 1) =>
        \E i \in 1..Len(results) : /\ results[i] = [index |-> firstErr, ok |-> FALSE]
                                   /\ \A j \in 1..(i - 1) : results[j].ok

(* The context is closed after the last lane: no goroutine is inside the   *)
(* native code, or still waiting for a job, when Close frees the context,  *)
(* whichever lane failed and however early.                                *)
ContextOutlivesLanes ==
  context = "closed" => \A w \in Workers : worker[w].at \in {"wait", "gone"}
                                           /\ (width > 1 /\ fed > 0 => worker[w].at = "gone")

(* A lane finds the evaluation keys when it looks them up: no other lane   *)
(* is between clearing and inserting them.                                 *)
LaneKeys == \A w \in Workers : (main = "run" /\ worker[w].at = "fuse") => inserted

(* The call returns, whichever lanes fail. *)
UnionReturns == main = "run" ~> Returned
=============================================================================
