--------------------------- MODULE Service_proofs ---------------------------
(***************************************************************************)
(* Proofs about the session services: what the example applications rest   *)
(* on when they settle, whom the bound check blames and that a key bundle  *)
(* stands, for any number of participants, any norms and any number of     *)
(* lost, damaged or failed messages and helper calls.                      *)
(***************************************************************************)
EXTENDS ServiceSteps_proofs

-----------------------------------------------------------------------------
(* Base is inductive.                                                      *)

LEMMA BaseStart ==
  ASSUME Base, Start
  PROVE  Base'
<1>0. /\ pc[admin] = "idle" /\ ThreadInv /\ current = NoPhase
      /\ UNCHANGED <<app, ctx, bundle, bucket, value, withheld>>
  BY Zenon DEF Start, Base, ThreadInv, stored, clients
<1>1. StoreInv'
  BY <1>0, StoreStays, Zenon DEF Base
<1>2. PICK a \in Attrs :
        \/ TriggerOf(a).refuses /\ Goto(admin, "refused") /\ UNCHANGED <<attrs, current>>
        \/ /\ ~TriggerOf(a).refuses /\ attrs' = a /\ current' = Pipelines[app][1]
           /\ Goto(admin, "seed")
  BY Zenon DEF Start, BeginSession
<1>3. PICK l \in {"refused", "seed"} :
        /\ Goto(admin, l)
        /\ l = "refused" => current' = NoPhase
        /\ l = "seed" => current' = Pipelines[app][1] /\ ~TriggerOf(attrs').refuses
  <2>1. CASE TriggerOf(a).refuses /\ Goto(admin, "refused") /\ UNCHANGED <<attrs, current>>
    BY <1>0, <2>1
  <2>2. CASE /\ ~TriggerOf(a).refuses /\ attrs' = a /\ current' = Pipelines[app][1]
             /\ Goto(admin, "seed")
    BY <2>2
  <2> QED BY <1>2, <2>1, <2>2
<1>4. ThreadInv' /\ pc'[admin] = l
  BY <1>0, <1>3, AdminTurn DEF Before
<1>5. ~TriggerOf(attrs').refuses => ~TriggerOf(attrs)'.refuses
  BY <1>0, Zenon
     DEF TriggerOf, auctionTrigger, rideShareTrigger, formationTrigger, weeklyTrigger,
         votingTrigger, admissionTrigger
<1>6. /\ bundle' = [pk |-> NoKey, ek |-> NoKey] /\ "handle" \notin ctx'
      /\ bundle'.pk = NoKey /\ admin' = admin
  BY <1>0 DEF Base, SeedInv, Before, admin
<1>7. SeedInv'
  BY <1>3, <1>4, <1>5, <1>6 DEF SeedInv
<1> QED BY <1>1, <1>4, <1>7 DEF Base

LEMMA BaseSeed ==
  ASSUME Base, Seed
  PROVE  Base'
<1>0. /\ pc[admin] = "seed" /\ ThreadInv /\ current = Pipelines[app][1]
      /\ UNCHANGED <<app, current, bucket, value, withheld>>
      /\ ctx' = ctx \cup TriggerOf(attrs).seeds
      /\ bundle' = [pk |-> Decoded(attrs.pk), ek |-> Decoded(attrs.ek)]
  BY Zenon DEF Seed, Base, ThreadInv, stored, clients
<1>1. StoreInv'
  BY <1>0, StoreStays, Zenon DEF Base
<1>2. PICK l \in {"crypto", "walk"} : Goto(admin, l) /\ (l = "crypto" => app = "admission")
  BY DEF Seed
<1>3. ThreadInv' /\ pc'[admin] = l
  BY <1>0, <1>2, AdminTurn DEF Before
<1>4. app \in AppNames /\ ~TriggerOf(attrs).refuses
  BY <1>0 DEF Base, ThreadInv, SeedInv
<1>5. /\ SeedKeys \subseteq TriggerOf(attrs).seeds
      /\ "handle" \notin TriggerOf(attrs).seeds
      /\ Decoded(attrs.pk) # NoKey => "pk" \in TriggerOf(attrs).seeds
  BY <1>4, SeedsOf
<1>6. SeedKeys' = SeedKeys /\ admin' = admin
  BY <1>0 DEF SeedKeys, admin
<1>7. "handle" \notin ctx' /\ SeedKeys \subseteq ctx'
  BY <1>0, <1>5 DEF Base, SeedInv, Before
<1>8. "pk" \notin ctx' => bundle'.pk = NoKey
  BY <1>0, <1>5
<1>9. SeedInv'
  BY <1>2, <1>3, <1>6, <1>7, <1>8 DEF SeedInv
<1> QED BY <1>1, <1>3, <1>9 DEF Base

LEMMA BaseCrypto ==
  ASSUME Base, BuildSessionCrypto
  PROVE  Base'
<1>0. /\ pc[admin] = "crypto" /\ ThreadInv /\ current = Pipelines[app][1] /\ app = "admission"
      /\ UNCHANGED <<app, current, bundle, bucket, value, withheld>>
      /\ Goto(admin, "walk")
  BY Zenon DEF BuildSessionCrypto, Base, ThreadInv, stored, clients
<1>1. StoreInv'
  BY <1>0, StoreStays, Zenon DEF Base
<1>2. ThreadInv' /\ pc'[admin] = "walk"
  BY <1>0, AdminTurn DEF Before
<1>3. ctx \subseteq ctx'
  BY DEF BuildSessionCrypto
<1>4. SeedKeys' = SeedKeys /\ admin' = admin
  BY <1>0 DEF SeedKeys, admin
<1>5. SeedKeys \subseteq ctx' /\ ("pk" \notin ctx' => bundle'.pk = NoKey)
  BY <1>0, <1>3 DEF Base, SeedInv
<1>6. SeedInv'
  BY <1>0, <1>2, <1>4, <1>5 DEF SeedInv, Before
<1> QED BY <1>1, <1>2, <1>6 DEF Base

LEMMA BaseWalk ==
  ASSUME Base, AdvanceToState
  PROVE  Base' /\ UNCHANGED <<ctx, current, value, bucket, app, helper>>
<1>0. /\ pc[admin] = "walk"
      /\ UNCHANGED <<app, helper, attrs, ctx, current, bundle, bucket, value, withheld>>
  BY Zenon DEF AdvanceToState, session, stored, clients
<1>1. StoreInv'
  BY <1>0, StoreStays, Zenon DEF Base
<1>2. admin \in Threads /\ current # NoPhase /\ InPipeline(current)
  BY <1>0, ThreadFacts DEF Base, ThreadInv, InRunner
<1>3. ThreadInv' /\ pc[admin] \notin Before /\ pc'[admin] \notin Before
  <2>1. CASE Goto(admin, "exit")
    BY <1>0, <1>2, <2>1, RunnerTurn DEF Base, InRunner
  <2>2. CASE Goto(admin, "ok")
    BY <1>0, <1>2, <2>2, RunnerTurn DEF Base, InRunner
  <2> QED BY <2>1, <2>2 DEF AdvanceToState
<1>4. Grows /\ BundleKept
  BY <1>0 DEF Grows, BundleKept
<1>5. SeedInv'
  BY <1>0, <1>3, <1>4, SeedKeeps DEF Base
<1> QED BY <1>0, <1>1, <1>3, <1>5 DEF Base

\* A step of the runner keeps Base when it keeps the store and the seeds and
\* goes to a phase of the pipeline.
LEMMA BaseTurn ==
  ASSUME Base, NEW t \in Threads, pc[t] \in InRunner, Kept, Grows, BundleKept, NEW l, Goto(t, l),
         l = After(t) \/ (l \in InRunner /\ current' # NoPhase),
         l = "commitments" => current'.enter = "bound",
         InPipeline(current')
  PROVE  Base'
<1>0. ThreadInv /\ UNCHANGED <<app, attrs, bucket, value, withheld>>
  BY Zenon DEF Base, Kept
<1>1. ThreadInv' /\ pc[admin] \notin Before /\ pc'[admin] \notin Before
  BY <1>0, RunnerTurn
<1>2. StoreInv'
  BY <1>0, StoreStays DEF Base
<1>3. SeedInv'
  BY <1>0, <1>1, SeedKeeps DEF Base
<1> QED BY <1>1, <1>2, <1>3 DEF Base

LEMMA BaseExit ==
  ASSUME Base, NEW t \in Threads, ExitsPhase(t)
  PROVE  Base'
<1>1. pc[t] \in InRunner /\ Kept /\ Grows /\ BundleKept
  BY Zenon DEF ExitsPhase, InRunner
<1>2. current' = current /\ current # NoPhase /\ InPipeline(current')
  BY DEF ExitsPhase, Active, Base, ThreadInv
<1>3. PICK l \in {"leave", After(t)} : Goto(t, l)
  BY Zenon DEF ExitsPhase
<1>4. l # "commitments" /\ (l = After(t) \/ l \in InRunner)
  BY AfterFacts DEF InRunner
<1> QED BY <1>1, <1>2, <1>3, <1>4, BaseTurn

LEMMA BaseEnter ==
  ASSUME Base, NEW t \in Threads, EntersPhase(t)
  PROVE  Base'
<1>1. pc[t] \in InRunner /\ Kept /\ Grows /\ bundle' = bundle
  BY Zenon DEF EntersPhase, InRunner
<1>2. current' = current /\ current # NoPhase /\ InPipeline(current')
  BY <1>1 DEF EntersPhase, Base, ThreadInv
<1>3. PICK l \in {After(t), "commitments", "walk", "exit"} :
        Goto(t, l) /\ (l = "commitments" => current.enter = "bound" \/ l = After(t))
  BY DEF EntersPhase
<1>4. /\ l = "commitments" => current'.enter = "bound"
      /\ l = After(t) \/ l \in InRunner
  BY <1>2, <1>3, AfterFacts DEF InRunner
<1> QED BY <1>1, <1>2, <1>3, <1>4, BaseTurn DEF BundleKept

\* Where Leave goes: past the last phase, nowhere, or to the next phase.
LEMMA LeaveStep ==
  ASSUME Base, NEW t \in Threads, Leave(t)
  PROVE  \E k \in DOMAIN Pipelines[app] :
           /\ current = Pipelines[app][k]
           /\ \/ /\ k = Len(Pipelines[app]) /\ state' = None /\ current' = NoPhase
                 /\ Goto(t, After(t))
              \/ UNCHANGED <<state, current>> /\ Goto(t, After(t))
              \/ /\ k + 1 \in DOMAIN Pipelines[app] /\ current' = Pipelines[app][k + 1]
                 /\ state' # None /\ current' # NoPhase /\ Goto(t, "enter")
<1>1. pc[t] \in InRunner /\ app \in AppNames /\ ThreadInv
  BY DEF Leave, InRunner, Base, ThreadInv
<1>2. PICK k \in DOMAIN Pipelines[app] : current = Pipelines[app][k]
  BY <1>1, AtPhase DEF ThreadInv
<1>3. /\ Pipelines[app][k].out = None => k = Len(Pipelines[app])
      /\ \A j \in DOMAIN Pipelines[app] : Pipelines[app][j].in # None
  BY <1>1, Shape
<1>4. CASE current.out = None /\ state' = None /\ current' = NoPhase /\ Goto(t, After(t))
  BY <1>2, <1>3, <1>4
<1>5. CASE Goto(t, After(t)) /\ UNCHANGED <<state, current>>
  BY <1>2, <1>5
<1>6. ASSUME NEW j \in DOMAIN Pipelines[app], Pipelines[app][j].in = current.out,
             current' = Pipelines[app][j], state' = current.out, Goto(t, "enter")
      PROVE  /\ k + 1 \in DOMAIN Pipelines[app] /\ current' = Pipelines[app][k + 1]
             /\ state' # None /\ current' # NoPhase
  <2>1. j = k + 1
    BY <1>1, <1>2, <1>6, Follows
  <2>2. state' # None /\ current'.in # None
    BY <1>3, <1>6
  <2>3. NoPhase.in = None
    BY DEF NoPhase, Phase
  <2> QED BY <1>6, <2>1, <2>2, <2>3
<1> DEFINE next == {j \in DOMAIN Pipelines[app] : Pipelines[app][j].in = current.out}
<1>7. \/ current.out = None /\ state' = None /\ current' = NoPhase /\ Goto(t, After(t))
      \/ Goto(t, After(t)) /\ UNCHANGED <<state, current>>
      \/ \E j \in next : /\ current' = Pipelines[app][j] /\ state' = current.out
                         /\ Goto(t, "enter")
  BY Zenon DEF Leave
<1>8. CASE \E j \in next : /\ current' = Pipelines[app][j] /\ state' = current.out
                           /\ Goto(t, "enter")
  BY <1>2, <1>6, <1>8
<1> QED BY <1>4, <1>5, <1>7, <1>8, Zenon

LEMMA BaseLeave ==
  ASSUME Base, NEW t \in Threads, Leave(t)
  PROVE  Base'
<1>1. pc[t] \in InRunner /\ UNCHANGED <<app, helper, attrs, ctx, bundle, bucket, value, withheld>>
  BY Zenon DEF Leave, InRunner, stored, clients
<1>2. Kept /\ Grows /\ BundleKept
  BY <1>1 DEF Kept, Grows, BundleKept
<1>3. PICK l \in {"enter", After(t)} :
        /\ Goto(t, l) /\ (l = "enter" /\ l # After(t) => current' # NoPhase)
        /\ current' = NoPhase \/ InPipeline(current')
  <2>1. PICK k \in DOMAIN Pipelines[app] :
           /\ current = Pipelines[app][k]
           /\ \/ /\ k = Len(Pipelines[app]) /\ state' = None /\ current' = NoPhase
                 /\ Goto(t, After(t))
              \/ UNCHANGED <<state, current>> /\ Goto(t, After(t))
              \/ /\ k + 1 \in DOMAIN Pipelines[app] /\ current' = Pipelines[app][k + 1]
                 /\ state' # None /\ current' # NoPhase /\ Goto(t, "enter")
    BY LeaveStep
  <2>2. CASE Goto(t, After(t)) /\ (current' = NoPhase \/ current' = current)
    BY <2>1, <2>2 DEF InPipeline
  <2>3. CASE /\ k + 1 \in DOMAIN Pipelines[app] /\ current' = Pipelines[app][k + 1]
             /\ current' # NoPhase /\ Goto(t, "enter")
    BY <2>3 DEF InPipeline
  <2> QED BY <2>1, <2>2, <2>3
<1>4. InPipeline(current')
  BY <1>3 DEF InPipeline
<1>5. l # "commitments" /\ (l = After(t) \/ (l \in InRunner /\ current' # NoPhase))
  BY <1>3, AfterFacts DEF InRunner
<1> QED BY <1>1, <1>2, <1>3, <1>4, <1>5, BaseTurn

LEMMA BaseDispatch ==
  ASSUME Base, NEW p \in People, Dispatches(p)
  PROVE  Base'
<1>0. /\ ThreadInv /\ pc[p] = "idle" /\ Free /\ Active
      /\ UNCHANGED <<app, attrs, ctx, bundle, current>> /\ withheld \subseteq withheld'
  BY Zenon DEF Base, Dispatches, session
<1>1. After(p) \in {"hook", "idle"}
  BY AfterFacts, ThreadFacts
<1>2. pc[p] \notin InRunner /\ Grows
  BY <1>0 DEF InRunner, Grows
<1>3. StoreInv'
  <2>1. CASE UNCHANGED stored
    <3>1. UNCHANGED <<bucket, value>> /\ People' = People
      BY <1>0, <2>1 DEF stored, People, N
    <3> QED BY <1>0, <3>1 DEF Base, StoreInv
  <2>2. ASSUME NEW type \in current.takes, NEW load \in {"good", "bad", "short"},
               NEW v \in Values \cup {0},
               bucket' = [bucket EXCEPT ![BucketOf(type)][p] = load],
               load = "short" => p \in withheld',
               value' = IF type = "input" THEN [value EXCEPT ![p] = v] ELSE value
        PROVE  StoreInv'
    <3>1. v \in Int /\ value \in [People -> Int]
      BY ServiceBounds DEF Base, StoreInv
    <3>2. value' \in [People -> Int]
      BY <2>2, <3>1
    <3>3. load \in Loads
      BY DEF Loads
    <3> QED BY <1>0, <2>2, <3>2, <3>3, StoreTurn, Zenon DEF Base
  <2> QED BY <2>1, <2>2, Zenon DEF Dispatches
<1>4. ThreadInv' /\ pc'[admin] = pc[admin]
  <2>1. CASE Goto(p, After(p))
    BY <1>0, <1>1, <1>2, <2>1, OutsideTurn
  <2>2. CASE current.takes # {} /\ Goto(p, "exit")
    BY <1>0, <2>2, EnterTurn
  <2>3. Goto(p, After(p)) \/ (current.takes # {} /\ Goto(p, "exit"))
    BY Zenon DEF Dispatches
  <2> QED BY <2>1, <2>2, <2>3
<1>5. SeedInv'
  BY <1>0, <1>2, <1>4, SeedStays DEF Base
<1> QED BY <1>3, <1>4, <1>5 DEF Base

LEMMA BaseHook ==
  ASSUME Base, NEW p \in People, HookRuns(p)
  PROVE  Base'
<1>0. /\ ThreadInv /\ pc[p] \in {"hook", "challenge", "bare_challenge"}
      /\ UNCHANGED <<app, attrs, bundle, current, bucket, value, withheld>>
  BY Zenon DEF Base, HookRuns, Kept
<1>1. Grows
  BY DEF HookRuns, Grows
<1>2. pc[p] \notin InRunner
  BY <1>0 DEF InRunner
<1>3. ThreadInv' /\ pc'[admin] = pc[admin]
  <2>1. CASE UNCHANGED pc
    <3>1. People' = People /\ Threads' = Threads
      BY <1>0 DEF People, N, Threads, admin
    <3>2. InPipeline(current)'
      BY <1>0 DEF ThreadInv, InPipeline
    <3> QED BY <1>0, <2>1, <3>1, <3>2 DEF ThreadInv
  <2>2. ASSUME NEW l \in {"idle", "challenge", "bare_challenge"}, Goto(p, l)
        PROVE  ThreadInv' /\ pc'[admin] = pc[admin]
    BY <1>0, <1>2, <2>2, OutsideTurn
  <2> QED BY <2>1, <2>2 DEF HookRuns
<1>4. StoreInv'
  BY <1>0, StoreStays DEF Base
<1>5. SeedInv'
  BY <1>0, <1>1, <1>3, SeedStays DEF Base
<1> QED BY <1>3, <1>4, <1>5 DEF Base

LEMMA BaseIdle ==
  ASSUME Base, UNCHANGED vars
  PROVE  Base'
<1>0. UNCHANGED <<app, attrs, ctx, bundle, current, bucket, value, withheld, pc>>
  BY DEF vars, session, stored, clients
<1>1. People' = People /\ Threads' = Threads /\ admin' = admin
  BY <1>0 DEF People, N, Threads, admin
<1>2. InPipeline(current)'
  BY <1>0 DEF Base, ThreadInv, InPipeline
<1>3. ThreadInv'
  BY <1>0, <1>1, <1>2 DEF Base, ThreadInv
<1>4. StoreInv'
  BY <1>0, StoreStays DEF Base
<1>5. SeedInv'
  BY <1>0, SeedStays DEF Base, Grows
<1> QED BY <1>3, <1>4, <1>5 DEF Base

LEMMA BaseStep ==
  ASSUME Base, [Next]_vars
  PROVE  Base' /\ SessionStep
<1>1. SessionStep
  BY StepShape
<1>2. CASE Trigger
  <2>1. CASE Start
    BY <1>1, <2>1, BaseStart
  <2>2. CASE Seed
    BY <1>1, <2>2, BaseSeed
  <2>3. CASE BuildSessionCrypto
    BY <1>1, <2>3, BaseCrypto
  <2>4. CASE AdvanceToState
    BY <1>1, <2>4, BaseWalk
  <2> QED BY <1>2, <2>1, <2>2, <2>3, <2>4 DEF Trigger
<1>3. ASSUME NEW t \in Threads, ExitsPhase(t) \/ EntersPhase(t) \/ Leave(t) PROVE Base'
  BY <1>3, BaseExit, BaseEnter, BaseLeave, Zenon
<1>4. ASSUME NEW p \in People, Dispatches(p) \/ HookRuns(p) PROVE Base'
  BY <1>4, BaseDispatch, BaseHook, Zenon
<1> QED BY <1>1, <1>2, <1>3, <1>4, BaseIdle, Zenon DEF SessionStep

\* A complete key bundle is never replaced, whichever Exit runs and how often.
THEOREM BundleSafe == Spec => BundleStands
<1> DEFINE Stands == bundle.pk # NoKey /\ bundle.ek # NoKey => bundle' = bundle
<1>1. Base /\ [Next]_vars => Base'
  BY BaseStep
<1>2. Base /\ [Next]_vars => [Stands]_vars
  <2> SUFFICES ASSUME Base, [Next]_vars PROVE Stands \/ UNCHANGED vars
    BY Zenon
  <2>1. SessionStep
    BY BaseStep
  <2>2. CASE Trigger
    <3>1. CASE Seed
      <4>1. bundle = [pk |-> NoKey, ek |-> NoKey]
        BY <3>1 DEF Seed, Base, SeedInv
      <4> QED BY <4>1
    <3>2. CASE Start \/ BuildSessionCrypto \/ AdvanceToState
      BY <3>2, ZenonT(60) DEF Start, BuildSessionCrypto, AdvanceToState, session
    <3> QED BY <2>2, <3>1, <3>2 DEF Trigger
  <2>3. ASSUME NEW t \in Threads, ExitsPhase(t) \/ EntersPhase(t) \/ Leave(t) PROVE Stands
    BY <2>3 DEF ExitsPhase, BundleKept, EntersPhase, Leave
  <2>4. ASSUME NEW p \in People, Dispatches(p) \/ HookRuns(p) PROVE Stands
    BY <2>4 DEF Dispatches, HookRuns, session
  <2> QED BY <2>1, <2>2, <2>3, <2>4, Zenon DEF SessionStep
<1>3. Init => Base
  BY BaseInit
<1> QED BY <1>1, <1>2, <1>3, PTL DEF Spec, BundleStands

-----------------------------------------------------------------------------
(* What the phases behind the current one have established.                *)

Behind(k) == \A j \in DOMAIN Pipelines[app] :
               j < k => EnterFruit(Pipelines[app][j]) /\ ExitFruit(Pipelines[app][j])

FruitInv ==
  /\ \A k \in DOMAIN Pipelines[app] : current = Pipelines[app][k] => Behind(k)
  /\ state = None => current = NoPhase /\ Behind(Len(Pipelines[app]) + 1)
  /\ \A t \in Threads : pc[t] = "leave" => EnterFruit(current) /\ ExitFruit(current)
  /\ \A t \in Threads : pc[t] \in {"exit", "walk"} => EnterFruit(current)

LEMMA FruitInit ==
  ASSUME Init
  PROVE  FruitInv
<1>1. app \in AppNames /\ current = NoPhase /\ pc = [t \in Threads |-> "idle"]
  BY Zenon DEF Init, Threads
<1>2. \A k \in DOMAIN Pipelines[app] : Pipelines[app][k].in # None
  BY <1>1, Shape
<1>3. \A k \in DOMAIN Pipelines[app] : current # Pipelines[app][k]
  BY <1>1, <1>2 DEF NoPhase, Phase
<1>4. state # None
  BY Zenon DEF Init, Unknown, None
<1> QED BY <1>1, <1>3, <1>4, Zenon DEF FruitInv

\* What the phases established outlasts every step but a dispatch.
LEMMA FruitKept ==
  ASSUME Grows, UNCHANGED <<app, helper, bucket, value>>, NEW ph
  PROVE  /\ EnterFruit(ph) => EnterFruit(ph)'
         /\ ExitFruit(ph) => ExitFruit(ph)'
<1>1. People' = People
  BY DEF People, N
<1>2. EnterFruit(ph) => EnterFruit(ph)'
  BY <1>1 DEF EnterFruit, Grows, AllGood
<1>3. ExitFruit(ph) => ExitFruit(ph)'
  BY <1>1 DEF ExitFruit, Grows, AllGood, Checking
<1> QED BY <1>2, <1>3

LEMMA BehindKept ==
  ASSUME Grows, UNCHANGED <<app, helper, bucket, value>>, NEW k, Behind(k)
  PROVE  Behind(k)'
BY FruitKept DEF Behind

\* A dispatch replaces nothing an earlier phase has looked at.
LEMMA BehindDispatch ==
  ASSUME Base, NEW p \in People, Dispatches(p), NEW k \in DOMAIN Pipelines[app],
         current = Pipelines[app][k], Behind(k)
  PROVE  Behind(k)'
<1>0. /\ app \in AppNames /\ UNCHANGED <<app, helper, ctx>> /\ StoreInv
      /\ People' = People
  BY DEF Base, ThreadInv, Dispatches, session, People, N
<1>1. CASE UNCHANGED stored
  BY <1>0, <1>1, BehindKept DEF stored, Grows
<1>2. ASSUME NEW type \in current.takes, NEW load \in {"good", "bad", "short"},
             NEW v \in Values \cup {0},
             bucket' = [bucket EXCEPT ![BucketOf(type)][p] = load],
             value' = IF type = "input" THEN [value EXCEPT ![p] = v] ELSE value
      PROVE  Behind(k)'
  <2> SUFFICES ASSUME NEW j \in DOMAIN Pipelines[app], j < k
               PROVE  EnterFruit(Pipelines[app][j])' /\ ExitFruit(Pipelines[app][j])'
    BY <1>0 DEF Behind
  <2>0. PICK ph : ph = Pipelines[app][j]
    OBVIOUS
  <2> DEFINE b == BucketOf(type)
  <2>1. j \in 1 .. k - 1
    BY <1>0, Shape
  <2>2. /\ ph.enter = "score" => b # "bid"
        /\ ph.exit = "verify" => b # "slot.submit"
        /\ ph.exit = "ballots" => b # "ballot"
        /\ ph.exit = "decrypt" => b # "decrypt.partial"
        /\ ph.exit = "bound" => type # "input"
    BY <1>0, <1>2, <2>0, <2>1, Frozen, Zenon
  <2>3. /\ ph.enter = "score" => "bid" \in DOMAIN bucket
        /\ ph.exit = "verify" => "slot.submit" \in DOMAIN bucket
        /\ ph.exit = "ballots" => "ballot" \in DOMAIN bucket
        /\ ph.exit = "decrypt" => "decrypt.partial" \in DOMAIN bucket
    BY <1>0, <2>0, Buckets DEF StoreInv, None
  <2>4. EnterFruit(ph) /\ ExitFruit(ph)
    BY <2>0 DEF Behind
  <2> HIDE DEF b
  <2>5. \A c \in DOMAIN bucket : c # b => bucket'[c] = bucket[c]
    BY <1>2 DEF b
  <2>6. \A c \in DOMAIN bucket : c # b /\ AllGood(c) => AllGood(c)'
    BY <1>0, <2>5 DEF AllGood
  <2>7. EnterFruit(ph)'
    BY <1>0, <2>2, <2>3, <2>4, <2>6 DEF EnterFruit
  <2>8. ph.exit = "bound" => value' = value
    BY <1>2, <2>2
  <2>9. ExitFruit(ph)'
    BY <1>0, <2>2, <2>3, <2>4, <2>6, <2>8, Zenon DEF ExitFruit, Checking
  <2>10. Pipelines[app'][j] = ph
    BY <1>0, <2>0, Zenon
  <2> QED BY <2>7, <2>9, <2>10
<1> QED BY <1>1, <1>2, ZenonT(60) DEF Dispatches

\* A step that stays in its phase and takes nobody to "leave", "exit" or "walk".
LEMMA FruitStay ==
  ASSUME FruitInv, Grows, UNCHANGED <<app, helper, bucket, value, current, state>>,
         \A t \in Threads : pc'[t] \in {"leave", "exit", "walk"} => pc'[t] = pc[t]
  PROVE  FruitInv'
<1>1. Threads' = Threads
  BY DEF Threads, People, N, admin
<1>2. \A k : Behind(k) => Behind(k)'
  BY BehindKept, Zenon
<1>3. /\ EnterFruit(current) => EnterFruit(current)'
      /\ ExitFruit(current) => ExitFruit(current)'
  BY FruitKept
<1>4. /\ \A k \in DOMAIN Pipelines[app'] : current' = Pipelines[app'][k] => Behind(k)'
      /\ state' = None => current' = NoPhase /\ Behind(Len(Pipelines[app]) + 1)'
  BY <1>2 DEF FruitInv
<1>5. \A t \in Threads : pc'[t] = "leave" => EnterFruit(current)' /\ ExitFruit(current)'
  BY <1>3 DEF FruitInv
<1>6. \A t \in Threads : pc'[t] \in {"exit", "walk"} => EnterFruit(current)'
  BY <1>3, Zenon DEF FruitInv
<1> QED BY <1>1, <1>4, <1>5, <1>6 DEF FruitInv

\* A thread of the runner takes its turn and stays in its phase.
LEMMA FruitTurn ==
  ASSUME Base, FruitInv, NEW t \in Threads, NEW l, Goto(t, l), Grows, Kept,
         UNCHANGED <<current, state>>,
         l = "leave" => EnterFruit(current)' /\ ExitFruit(current)',
         l \in {"exit", "walk"} => EnterFruit(current)'
  PROVE  FruitInv'
<1>0. UNCHANGED <<app, helper, bucket, value>>
  BY DEF Kept
<1>1. Threads' = Threads
  BY <1>0, Zenon DEF Threads, People, N, admin
<1>2. /\ \A k \in DOMAIN Pipelines[app'] : current' = Pipelines[app'][k] => Behind(k)'
      /\ state' = None => current' = NoPhase /\ Behind(Len(Pipelines[app]) + 1)'
  BY <1>0, BehindKept DEF FruitInv
<1>3. /\ EnterFruit(current) => EnterFruit(current)'
      /\ ExitFruit(current) => ExitFruit(current)'
  BY <1>0, FruitKept, Zenon
<1>4. pc'[t] = l /\ \A u \in Threads \ {t} : pc'[u] = pc[u]
  BY Zenon DEF Base, ThreadInv, Goto
<1>5. \A u \in Threads : pc'[u] = "leave" => EnterFruit(current)' /\ ExitFruit(current)'
  BY <1>3, <1>4, Zenon DEF FruitInv
<1>6. \A u \in Threads : pc'[u] \in {"exit", "walk"} => EnterFruit(current)'
  BY <1>3, <1>4 DEF FruitInv
<1> QED BY <1>0, <1>1, <1>2, <1>5, <1>6 DEF FruitInv

LEMMA FruitExit ==
  ASSUME Base, FruitInv, NEW t \in Threads, ExitsPhase(t)
  PROVE  FruitInv'
<1>1. /\ pc[t] = "exit" /\ Grows /\ Kept /\ UNCHANGED <<current, state>>
  BY Zenon DEF ExitsPhase
<1>2. EnterFruit(current)'
  <2>1. EnterFruit(current)
    BY <1>1 DEF FruitInv
  <2> QED BY <1>1, <2>1, FruitKept DEF Kept
<1>3. CASE Goto(t, "leave") /\ ExitFruit(current)'
  BY <1>1, <1>2, <1>3, FruitTurn
<1>4. CASE Goto(t, After(t))
  BY <1>1, <1>2, <1>4, AfterFacts, FruitTurn
<1> QED BY <1>3, <1>4, Zenon DEF ExitsPhase

LEMMA FruitEnter ==
  ASSUME Base, FruitInv, NEW t \in Threads, EntersPhase(t)
  PROVE  FruitInv'
<1>1. Grows /\ Kept /\ UNCHANGED <<current, state>>
  BY Zenon DEF EntersPhase
<1>2. CASE Goto(t, After(t))
  BY <1>1, <1>2, AfterFacts, FruitTurn
<1>3. CASE Goto(t, "commitments")
  BY <1>1, <1>3, FruitTurn
<1>4. CASE Goto(t, "walk") /\ EnterFruit(current)'
  BY <1>1, <1>4, FruitTurn
<1>5. CASE Goto(t, "exit") /\ EnterFruit(current)'
  BY <1>1, <1>5, FruitTurn, Zenon
<1> QED BY <1>2, <1>3, <1>4, <1>5, Zenon DEF EntersPhase

LEMMA FruitLeave ==
  ASSUME Base, FruitInv, NEW t \in Threads, Leave(t)
  PROVE  FruitInv'
<1>0. /\ pc[t] = "leave" /\ app \in AppNames /\ ThreadInv
      /\ UNCHANGED <<app, helper, attrs, ctx, bundle, bucket, value, withheld>>
  BY ZenonT(60) DEF Leave, Base, ThreadInv, stored, clients
<1>1. PICK k \in DOMAIN Pipelines[app] :
         /\ current = Pipelines[app][k]
         /\ \/ /\ k = Len(Pipelines[app]) /\ state' = None /\ current' = NoPhase
               /\ Goto(t, After(t))
            \/ UNCHANGED <<state, current>> /\ Goto(t, After(t))
            \/ /\ k + 1 \in DOMAIN Pipelines[app] /\ current' = Pipelines[app][k + 1]
               /\ state' # None /\ current' # NoPhase /\ Goto(t, "enter")
  BY LeaveStep
<1>2. Grows /\ Kept /\ Threads' = Threads
  BY <1>0 DEF Grows, Kept, Threads, People, N, admin
<1>3. DOMAIN Pipelines[app] = 1 .. Len(Pipelines[app]) /\ Len(Pipelines[app]) \in Nat
  BY <1>0, Shape
<1>4. Behind(k + 1)
  <2>1. Behind(k) /\ EnterFruit(Pipelines[app][k]) /\ ExitFruit(Pipelines[app][k])
    BY <1>0, <1>1 DEF FruitInv
  <2>2. \A j \in DOMAIN Pipelines[app] : j < k + 1 => j < k \/ j = k
    BY <1>3
  <2> QED BY <2>1, <2>2, Zenon DEF Behind
<1>5. Behind(k + 1)'
  BY <1>0, <1>2, <1>4, BehindKept
<1>6. CASE UNCHANGED <<state, current>> /\ Goto(t, After(t))
  BY <1>2, <1>6, AfterFacts, FruitTurn, Zenon
<1>7. ASSUME NEW l, Goto(t, l), l \notin {"leave", "exit", "walk"}
      PROVE  \A u \in Threads : pc'[u] \notin {"leave", "exit", "walk"}
  <2>1. pc'[t] = l /\ \A u \in Threads \ {t} : pc'[u] = pc[u]
    BY <1>0, <1>7 DEF ThreadInv, Goto
  <2>2. \A u \in Threads \ {t} : pc[u] \notin InRunner
    BY <1>0, ZenonT(60) DEF ThreadInv, InRunner
  <2> QED BY <1>7, <2>1, <2>2, Zenon DEF InRunner
<1>8. CASE /\ k = Len(Pipelines[app]) /\ state' = None /\ current' = NoPhase
           /\ Goto(t, After(t))
  <2>1. \A u \in Threads : pc'[u] \notin {"leave", "exit", "walk"}
    BY <1>7, <1>8, AfterFacts
  <2>2. \A j \in DOMAIN Pipelines[app] : Pipelines[app][j].in # None
    BY <1>0, Shape, Zenon
  <2>3. \A j \in DOMAIN Pipelines[app] : current' # Pipelines[app][j]
    BY <1>8, <2>2, SMTT(30) DEF NoPhase, Phase
  <2> QED BY <1>0, <1>2, <1>5, <1>8, <2>1, <2>3, ZenonT(60) DEF FruitInv
<1>9. CASE /\ k + 1 \in DOMAIN Pipelines[app] /\ current' = Pipelines[app][k + 1]
           /\ state' # None /\ Goto(t, "enter")
  <2>1. \A u \in Threads : pc'[u] \notin {"leave", "exit", "walk"}
    BY <1>7, <1>9
  <2>2. \A j \in DOMAIN Pipelines[app] : current' = Pipelines[app][j] => j = k + 1
    BY <1>0, <1>9, Distinct, ZenonT(60)
  <2> QED BY <1>0, <1>2, <1>5, <1>9, <2>1, <2>2, ZenonT(60) DEF FruitInv
<1> QED BY <1>1, <1>6, <1>8, <1>9

LEMMA FruitDispatch ==
  ASSUME Base, FruitInv, NEW p \in People, Dispatches(p)
  PROVE  FruitInv'
<1>0. /\ Free /\ current # NoPhase /\ app \in AppNames /\ ThreadInv
      /\ UNCHANGED <<app, helper, state, current>>
  BY Zenon DEF Dispatches, Active, session, Base, ThreadInv
<1>1. Threads' = Threads /\ p \in Threads
  BY <1>0, ThreadFacts DEF Threads, People, N, admin
<1>2. \A u \in Threads : pc[u] \notin InRunner
  BY <1>0, Zenon DEF Free, ThreadInv
<1>3. \A k \in DOMAIN Pipelines[app'] : current' = Pipelines[app'][k] => Behind(k)'
  BY <1>0, BehindDispatch DEF FruitInv
<1>4. state' # None
  BY <1>0 DEF FruitInv
<1>5. PICK l \in {"exit", After(p)} : Goto(p, l) /\ (l = "exit" => current.takes # {})
  <2>1. After(p) # "exit"
    BY <1>1, AfterFacts
  <2> QED BY <2>1, Zenon DEF Dispatches
<1>6. pc'[p] = l /\ \A u \in Threads \ {p} : pc'[u] = pc[u]
  BY <1>0, <1>1, <1>5 DEF ThreadInv, Goto
<1>7. \A u \in Threads : pc'[u] \in {"leave", "exit", "walk"} => pc'[u] = "exit" /\ l = "exit"
  BY <1>1, <1>2, <1>5, <1>6, AfterFacts, Zenon DEF InRunner
<1>8. l = "exit" => EnterFruit(current)'
  <2>1. PICK k \in DOMAIN Pipelines[app] : current = Pipelines[app][k]
    BY <1>0, AtPhase, Zenon
  <2>2. current.takes # {} => current.enter \notin {"score", "tally"}
    BY <1>0, <2>1, Codes
  <2> QED BY <1>0, <1>5, <2>2 DEF EnterFruit
<1>9. \A u \in Threads : pc'[u] # "leave"
  BY <1>7, Zenon
<1> QED BY <1>0, <1>1, <1>3, <1>4, <1>7, <1>8, <1>9 DEF FruitInv

\* A session that is not started, or still at its first phase, has nothing to keep.
LEMMA FruitFirst ==
  ASSUME Base, UNCHANGED app, pc[admin] \in Before, NEW l, Goto(admin, l), l \in Before \cup {"walk"},
         current' = NoPhase \/ current' = Pipelines[app][1],
         state' # None
  PROVE  FruitInv'
<1>0. ThreadInv /\ app \in AppNames /\ admin \in Threads
  BY ThreadFacts DEF Base, ThreadInv
<1>1. Threads' = Threads
  BY DEF Threads, People, N, admin
<1>2. pc'[admin] = l /\ \A u \in Threads \ {admin} : pc'[u] = pc[u]
  BY <1>0 DEF ThreadInv, Goto
<1>3. \A u \in Threads \ {admin} : pc[u] \notin InRunner
  BY <1>0 DEF ThreadInv, Threads
<1>4. \A u \in Threads : pc'[u] \notin {"leave", "exit"}
  BY <1>2, <1>3 DEF InRunner, Before
<1>5. current'.enter = None
  <2>1. Pipelines[app][1].enter = None /\ NoPhase.enter = None
    BY <1>0, Shape, ZenonT(60) DEF NoPhase, Phase
  <2> QED BY <2>1, ZenonT(60)
<1>6. EnterFruit(current)'
  BY <1>5 DEF EnterFruit, None
<1>7. \A k \in DOMAIN Pipelines[app] : current' = Pipelines[app][k] => k = 1
  <2>1. \A k \in DOMAIN Pipelines[app] : Pipelines[app][k].in # None
    BY <1>0, Shape, Zenon
  <2>2. NoPhase.in = None
    BY DEF NoPhase, Phase
  <2>3. 1 \in DOMAIN Pipelines[app]
    BY <1>0, Shape
  <2> QED BY <1>0, <2>1, <2>2, <2>3, Distinct, Zenon
<1>8. Behind(1)'
  <2>1. \A j \in DOMAIN Pipelines[app] : ~(j < 1)
    BY <1>0, Shape
  <2> QED BY <2>1 DEF Behind
<1> QED BY <1>1, <1>4, <1>6, <1>7, <1>8, Zenon DEF FruitInv

LEMMA FruitHook ==
  ASSUME Base, FruitInv, NEW p \in People, HookRuns(p)
  PROVE  FruitInv'
<1>1. UNCHANGED <<app, helper, bucket, value, current, state>>
  BY Zenon DEF HookRuns, Kept
<1>2. Grows
  BY DEF HookRuns, Grows
<1>3. \A t \in Threads : pc'[t] \in {"leave", "exit", "walk"} => pc'[t] = pc[t]
  <2>1. CASE UNCHANGED pc
    BY <2>1
  <2>2. ASSUME NEW l \in {"idle", "challenge", "bare_challenge"}, Goto(p, l)
        PROVE  \A t \in Threads : pc'[t] \in {"leave", "exit", "walk"} => pc'[t] = pc[t]
    BY <2>2, ThreadFacts DEF Base, ThreadInv, Goto
  <2> QED BY <2>1, <2>2 DEF HookRuns
<1> QED BY <1>1, <1>2, <1>3, FruitStay

LEMMA FruitTrigger ==
  ASSUME Base, FruitInv, Trigger
  PROVE  FruitInv'
<1>0. ThreadInv /\ app \in AppNames /\ admin \in Threads
  BY ThreadFacts, Zenon DEF Base, ThreadInv
<1>1. /\ Pipelines[app][1].in # None /\ NoPhase.in = None
  BY <1>0, Shape DEF NoPhase, Phase
<1>2. CASE Start
  <2>0. /\ pc[admin] = "idle" /\ UNCHANGED <<app, helper, ctx, bucket, value>>
    BY <1>2, ZenonT(60) DEF Start, stored
  <2>1. CASE Goto(admin, "refused") /\ UNCHANGED <<state, current>>
    <3>1. \A t \in Threads : pc'[t] \in {"leave", "exit", "walk"} => pc'[t] = pc[t]
      BY <1>0, <2>1 DEF ThreadInv, Goto
    <3>2. Grows
      BY <2>0, ZenonT(60) DEF Grows
    <3> QED BY <2>0, <2>1, <3>1, <3>2, FruitStay, Zenon
  <2>2. CASE BeginSession
    <3>1. /\ current' = Pipelines[app][1] /\ Goto(admin, "seed") /\ state' # None
      BY <1>1, <2>2 DEF BeginSession
    <3>2. pc[admin] \in Before /\ "seed" \in Before
      BY <2>0 DEF Before
    <3> QED BY <2>0, <3>1, <3>2, FruitFirst, ZenonT(60)
  <2> QED BY <1>2, <2>1, <2>2, Zenon DEF Start
<1>3. CASE Seed \/ BuildSessionCrypto
  <2>1. /\ pc[admin] \in {"seed", "crypto"} /\ UNCHANGED <<app, state, current>>
        /\ Goto(admin, "crypto") \/ Goto(admin, "walk")
    BY <1>3, ZenonT(60) DEF Seed, BuildSessionCrypto
  <2>2. current = Pipelines[app][1]
    BY <1>0, <2>1, Zenon DEF ThreadInv
  <2>3. state' # None
    BY <1>1, <2>1, <2>2 DEF FruitInv
  <2>4. pc[admin] \in Before /\ "crypto" \in Before
    BY <2>1 DEF Before
  <2> QED BY <2>1, <2>2, <2>3, <2>4, FruitFirst
<1>4. CASE AdvanceToState
  <2>1. UNCHANGED <<app, helper, attrs, ctx, bucket, value, withheld, current, state>>
    BY <1>4, Zenon DEF AdvanceToState, session, stored, clients
  <2>2. Grows /\ Kept
    BY <2>1 DEF Grows, Kept
  <2>3. EnterFruit(current)'
    <3>1. EnterFruit(current)
      BY <1>0, <1>4 DEF FruitInv, AdvanceToState
    <3> QED BY <2>1, <2>2, <3>1, FruitKept, Zenon
  <2>4. CASE Goto(admin, "ok")
    BY <1>0, <2>1, <2>2, <2>4, FruitTurn
  <2>5. CASE Goto(admin, "exit")
    BY <1>0, <2>1, <2>2, <2>3, <2>5, FruitTurn
  <2> QED BY <1>4, <2>4, <2>5 DEF AdvanceToState
<1> QED BY <1>2, <1>3, <1>4, Zenon DEF Trigger

LEMMA FruitStep ==
  ASSUME Base, FruitInv, [Next]_vars
  PROVE  Base' /\ FruitInv' /\ SessionStep
<1>1. Base' /\ SessionStep
  BY BaseStep
<1>2. CASE UNCHANGED vars
  <2>1. UNCHANGED <<app, helper, ctx, bucket, value, current, state, pc>>
    BY <1>2 DEF vars, session, stored
  <2> QED BY <1>1, <2>1, FruitStay DEF Grows
<1>3. CASE Trigger
  BY <1>1, <1>3, FruitTrigger
<1>4. ASSUME NEW t \in Threads, ExitsPhase(t) \/ EntersPhase(t) \/ Leave(t) PROVE FruitInv'
  BY <1>4, FruitExit, FruitEnter, FruitLeave, Zenon
<1>5. ASSUME NEW p \in People, Dispatches(p) \/ HookRuns(p) PROVE FruitInv'
  BY <1>5, FruitDispatch, FruitHook, Zenon
<1> QED BY <1>1, <1>2, <1>3, <1>4, <1>5, ZenonT(60) DEF SessionStep

\* The inductive invariant of a session service: one thread at a time in the runner,
\* none before the trigger has seeded the context, and every phase the session has left
\* behind established what its Enter and Exit look at, which no later frame changes.
THEOREM ServiceInductive == Spec => [](Base /\ FruitInv)
<1>1. Init => Base /\ FruitInv
  BY BaseInit, FruitInit
<1>2. Base /\ FruitInv /\ [Next]_vars => (Base /\ FruitInv)'
  BY FruitStep
<1> QED BY <1>1, <1>2, PTL DEF Spec

\* Once a thread is in the runner the trigger's keys are in the context.
LEMMA Seeded ==
  ASSUME Base, NEW t \in Threads, pc[t] \in InRunner
  PROVE  SeedKeys \subseteq ctx
<1>1. pc[admin] \notin Before
  <2>1. CASE t = admin
    BY <2>1 DEF InRunner, Before
  <2>2. CASE t # admin
    BY <2>2 DEF Base, ThreadInv, Threads
  <2> QED BY <2>1, <2>2
<1> QED BY <1>1 DEF Base, SeedInv, Before

LEMMA ReadsFound ==
  ASSUME Base, FruitInv, NEW t \in Threads
  PROVE  /\ pc[t] = "enter" => EnterReads(current) \subseteq ctx
         /\ pc[t] = "exit" /\ Active => ExitReads(current) \subseteq ctx
<1> SUFFICES ASSUME pc[t] \in {"enter", "exit"}
             PROVE  EnterReads(current) \subseteq ctx /\ ExitReads(current) \subseteq ctx
  BY Zenon
<1>1. ThreadInv /\ app \in AppNames /\ pc[t] \in InRunner
  BY Zenon DEF Base, ThreadInv, InRunner
<1>2. PICK k \in DOMAIN Pipelines[app] : current = Pipelines[app][k]
  BY <1>1, AtPhase DEF ThreadInv
<1>3. SeedKeys \subseteq ctx
  BY <1>1, Seeded
<1>4. \A j \in 1 .. k - 1 : EnterFruit(Pipelines[app][j]) /\ ExitFruit(Pipelines[app][j])
  <2>1. Behind(k)
    BY <1>2 DEF FruitInv
  <2>2. DOMAIN Pipelines[app] = 1 .. Len(Pipelines[app]) /\ Len(Pipelines[app]) \in Nat
    BY <1>1, Shape
  <2>3. \A j \in 1 .. k - 1 : j \in DOMAIN Pipelines[app] /\ j < k
    BY <2>2
  <2> QED BY <2>1, <2>3, Zenon DEF Behind
<1>5. EnterReads(current) \subseteq ctx
  <2>1. CASE current.enter = "score"
    <3>1. app \in {"auction", "ride", "weekly"}
      BY <1>1, <1>2, <2>1, Codes
    <3>2. "contract" \in ctx
      BY <1>3, <3>1 DEF SeedKeys
    <3>3. "ek" \in ctx
      <4>1. CASE app = "weekly"
        BY <1>3, <4>1, Zenon DEF SeedKeys, Bundle
      <4>2. CASE app # "weekly"
        <5>1. PICK j \in 1 .. k - 1 : Pipelines[app][j].exit = "keygen"
          BY <1>1, <1>2, <2>1, <4>2, Codes
        <5> QED BY <1>4, <5>1, Zenon DEF ExitFruit, Bundle
      <4> QED BY <4>1, <4>2
    <3> QED BY <2>1, <3>2, <3>3, Zenon DEF EnterReads
  <2>2. CASE current.enter = "lookup"
    <3>1. app = "weekly"
      BY <1>1, <1>2, <2>2, Codes
    <3> QED BY <1>3, <2>2, <3>1, ZenonT(60) DEF EnterReads, SeedKeys
  <2>3. CASE current.enter = "tally"
    <3>1. PICK j \in 1 .. k - 1 : Pipelines[app][j].exit = "ballots"
      BY <1>1, <1>2, <2>3, Codes
    <3> QED BY <1>4, <2>3, <3>1, Zenon DEF EnterReads, ExitFruit
  <2>4. CASE current.enter = "settle_vote"
    <3>1. PICK j \in 1 .. k - 1 : Pipelines[app][j].enter = "tally"
      BY <1>1, <1>2, <2>4, Codes
    <3> QED BY <1>4, <2>4, <3>1, Zenon DEF EnterReads, EnterFruit
  <2>5. CASE current.enter = "bound"
    <3>1. app = "admission" /\ \E j \in 1 .. k - 1 : Pipelines[app][j].exit = "collect"
      BY <1>1, <1>2, <2>5, Codes
    <3>2. PICK j \in 1 .. k - 1 : Pipelines[app][j].exit = "collect"
      BY <3>1, Zenon
    <3>3. "inputs" \in ctx /\ "dim" \in ctx
      BY <1>3, <1>4, <3>1, <3>2 DEF ExitFruit, SeedKeys
    <3> QED BY <2>5, <3>3, Zenon DEF EnterReads
  <2>6. CASE current.enter \notin {"score", "lookup", "tally", "settle_vote", "bound"}
    BY <2>6 DEF EnterReads
  <2> QED BY <2>1, <2>2, <2>3, <2>4, <2>5, <2>6
<1>6. ExitReads(current) \subseteq ctx
  <2>1. CASE current.exit \in {"keygen", "decrypt"}
    <3>1. app \in {"auction", "ride"}
      BY <1>1, <1>2, <2>1, Codes
    <3>2. "participants" \in ctx /\ "contract" \in ctx
      BY <1>3, <3>1 DEF SeedKeys
    <3> QED BY <2>1, <3>2, Zenon DEF ExitReads
  <2>2. CASE current.exit = "cohort_keygen"
    <3>1. "participants" \in ctx
      BY <1>3 DEF SeedKeys
    <3> QED BY <2>2, <3>1 DEF ExitReads
  <2>3. CASE current.exit \notin {"keygen", "cohort_keygen", "decrypt"}
    BY <2>3 DEF ExitReads
  <2> QED BY <2>1, <2>2, <2>3
<1> QED BY <1>5, <1>6

\* No Enter or Exit of any application misses a context key it reads, for every way the
\* admin POST seeds the context, the helper fails and the phases are re-run.
THEOREM NothingMissingSafe == Spec => []NothingMissing
<1>1. Base /\ FruitInv => NothingMissing
  <2> SUFFICES ASSUME Base, FruitInv PROVE NothingMissing
    OBVIOUS
  <2>1. DOMAIN pc = Threads
    BY DEF Base, ThreadInv
  <2> QED BY <2>1, ReadsFound, Zenon DEF NothingMissing
<1> QED BY <1>1, ServiceInductive, PTL

\* A settled session rests on what its phases looked at: norms within the tolerance,
\* payloads and ballots that decode, for any number of participants and any norms.
THEOREM SettledSafe == Spec => []SettledSoundly
<1>1. Base /\ FruitInv => SettledSoundly
  <2> SUFFICES ASSUME Base, FruitInv, Finished
               PROVE  /\ Checking => \A p \in People : Tolerable(value[p])
                      /\ helper /\ app \in {"auction", "ride"} =>
                           AllGood("bid") /\ AllGood("decrypt.partial")
                      /\ helper /\ app = "weekly" => AllGood("bid")
                      /\ app = "voting" => AllGood("slot.submit") /\ AllGood("ballot")
    BY ZenonT(60) DEF SettledSoundly
  <2>1. app \in AppNames
    BY DEF Base, ThreadInv
  <2>2. \A k \in DOMAIN Pipelines[app] :
          EnterFruit(Pipelines[app][k]) /\ ExitFruit(Pipelines[app][k])
    <3>1. Behind(Len(Pipelines[app]) + 1)
      BY DEF FruitInv, Finished
    <3>2. \A k \in DOMAIN Pipelines[app] : k < Len(Pipelines[app]) + 1
      BY <2>1, Shape
    <3> QED BY <3>1, <3>2 DEF Behind
  <2>3. ASSUME Checking PROVE \A p \in People : Tolerable(value[p])
    <3>1. app = "admission"
      BY <2>3 DEF Base, SeedInv, Checking
    <3>2. PICK k \in DOMAIN Pipelines[app] : Pipelines[app][k].exit = "bound"
      BY <2>1, <3>1, Stations, Zenon
    <3> QED BY <2>2, <2>3, <3>2 DEF ExitFruit
  <2>4. ASSUME helper, app \in {"auction", "ride", "weekly"} PROVE AllGood("bid")
    <3>1. PICK k \in DOMAIN Pipelines[app] : Pipelines[app][k].enter = "score"
      BY <2>1, <2>4, Stations, Zenon
    <3> QED BY <2>2, <2>4, <3>1, Zenon DEF EnterFruit
  <2>5. ASSUME helper, app \in {"auction", "ride"} PROVE AllGood("decrypt.partial")
    <3>1. PICK k \in DOMAIN Pipelines[app] : Pipelines[app][k].exit = "decrypt"
      BY <2>1, <2>5, Stations, Zenon
    <3> QED BY <2>2, <2>5, <3>1, Zenon DEF ExitFruit
  <2>6. ASSUME app = "voting" PROVE AllGood("slot.submit") /\ AllGood("ballot")
    <3>1. PICK k \in DOMAIN Pipelines[app] : Pipelines[app][k].exit = "verify"
      BY <2>1, <2>6, Stations
    <3>2. PICK j \in DOMAIN Pipelines[app] : Pipelines[app][j].exit = "ballots"
      BY <2>1, <2>6, Stations
    <3> QED BY <2>2, <3>1, <3>2, Zenon DEF ExitFruit
  <2> QED BY <2>3, <2>4, <2>5, <2>6
<1> QED BY <1>1, ServiceInductive, PTL

-----------------------------------------------------------------------------
(* Whom the bound check blames.                                            *)

Blamed == \E p \in People : results[p] # None

\* A violator is recorded during the bound check, and no input changes after that.
BlameInv ==
  /\ pc[admin] \in Before => ~Blamed
  /\ Blamed => \/ state = None \/ current.exit = "bound" \/ current.enter = "settle_admission"
  /\ BlameDeserved

LEMMA BlameInit ==
  ASSUME Init
  PROVE  BlameInv
<1>1. \A p \in People : results[p] = None
  BY DEF Init
<1> QED BY <1>1, ZenonT(60) DEF BlameInv, Blamed, BlameDeserved

\* Exit of the bound check blames a participant that withheld or exceeded.
LEMMA BlameVerdict ==
  ASSUME Base, NEW k \in DOMAIN Pipelines[app], current = Pipelines[app][k],
         current.exit = "bound", NEW p \in People, Verdict(p) # "ok"
  PROVE  p \in withheld \/ ~Tolerable(value[p])
<1>1. "bound.partial" \in DOMAIN bucket
  <2>1. PICK j \in DOMAIN Pipelines[app] : Pipelines[app][j].bucket = "bound.partial"
    BY Buckets DEF Base, ThreadInv
  <2> QED BY <2>1, Zenon DEF Base, StoreInv, None
<1>2. p \in Short => p \in withheld
  BY <1>1 DEF Short, Base, StoreInv
<1>3. p \notin Short => classify(value[p]) # "ok"
  BY DEF Verdict
<1>4. value[p] \in Int
  BY Zenon DEF Base, StoreInv
<1> QED BY <1>2, <1>3, <1>4, Verdicts

LEMMA BlameSame ==
  ASSUME BlameInv, UNCHANGED <<app, results, value>>, withheld \subseteq withheld',
         pc'[admin] \in Before => pc[admin] \in Before,
         Blamed => \/ state' = None \/ current'.exit = "bound"
                   \/ current'.enter = "settle_admission"
  PROVE  BlameInv'
<1>1. People' = People /\ admin' = admin
  BY DEF People, N, admin
<1>2. Blamed' <=> Blamed
  BY <1>1, Zenon DEF Blamed
<1>3. BlameDeserved'
  BY <1>1 DEF BlameInv, BlameDeserved, Tolerable
<1> QED BY <1>1, <1>2, <1>3 DEF BlameInv

LEMMA BlameExit ==
  ASSUME Base, BlameInv, NEW t \in Threads, ExitsPhase(t)
  PROVE  BlameInv'
<1>0. /\ ThreadInv /\ pc[t] = "exit" /\ Active /\ UNCHANGED <<app, value, withheld, current, state>>
  BY ZenonT(60) DEF ExitsPhase, Kept, Base
<1>1. pc[admin] \notin Before /\ pc'[admin] \notin Before
  <2>1. pc[t] \in InRunner /\ InPipeline(current') /\ current' # NoPhase
    BY <1>0 DEF ThreadInv, InRunner
  <2>2. PICK l \in {"leave", After(t)} : Goto(t, l)
    BY Zenon DEF ExitsPhase
  <2>3. l # "commitments" /\ (l = After(t) \/ l \in InRunner)
    BY AfterFacts, ZenonT(60) DEF InRunner
  <2> QED BY <1>0, <2>1, <2>2, <2>3, RunnerTurn, Zenon
<1>2. CASE results' = results
  BY <1>0, <1>1, <1>2, BlameSame, Zenon DEF BlameInv
<1>3. CASE Blames
  <2>1. PICK k \in DOMAIN Pipelines[app] : current = Pipelines[app][k]
    BY <1>0, AtPhase DEF Active
  <2>2. People' = People /\ admin' = admin
    BY <1>0, Zenon DEF People, N, admin
  <2>3. \A p \in People : results'[p] = results[p] \/ Verdict(p) # "ok"
    BY <1>3 DEF Blames
  <2>4. current.exit = "bound"
    BY <1>3, Zenon DEF Blames
  <2>5. \A p \in People : results'[p] # None => p \in withheld \/ ~Tolerable(value[p])
    BY <2>1, <2>3, <2>4, BlameVerdict DEF BlameInv, BlameDeserved
  <2>6. BlameDeserved'
    BY <1>0, <2>2, <2>5, ZenonT(60) DEF BlameDeserved, Tolerable
  <2> QED BY <1>0, <1>1, <2>2, <2>4, <2>6, Zenon DEF BlameInv
<1> QED BY <1>2, <1>3 DEF ExitsPhase

LEMMA BlameEnter ==
  ASSUME Base, BlameInv, NEW t \in Threads, EntersPhase(t)
  PROVE  BlameInv'
<1>0. /\ ThreadInv /\ pc[t] \in InRunner
      /\ UNCHANGED <<app, results, value, withheld, current, state>>
  BY Zenon DEF EntersPhase, Kept, Base, InRunner
<1>1. PICK l \in {After(t), "commitments", "walk", "exit"} : Goto(t, l)
  BY DEF EntersPhase
<1>2. l \notin Before \/ t # admin
  BY AfterFacts DEF Before
<1>3. pc'[admin] \in Before => pc[admin] \in Before
  BY <1>0, <1>1, <1>2, ThreadFacts, ZenonT(60) DEF ThreadInv, Goto
<1> QED BY <1>0, <1>3, BlameSame DEF BlameInv

LEMMA BlameLeave ==
  ASSUME Base, BlameInv, FruitInv, NEW t \in Threads, Leave(t)
  PROVE  BlameInv'
<1>0. /\ ThreadInv /\ pc[t] = "leave" /\ app \in AppNames
      /\ UNCHANGED <<app, results, value, withheld>>
  BY ZenonT(60) DEF Leave, Base, ThreadInv, stored, clients
<1>1. PICK k \in DOMAIN Pipelines[app] :
         /\ current = Pipelines[app][k]
         /\ \/ /\ k = Len(Pipelines[app]) /\ state' = None /\ current' = NoPhase
               /\ Goto(t, After(t))
            \/ UNCHANGED <<state, current>> /\ Goto(t, After(t))
            \/ /\ k + 1 \in DOMAIN Pipelines[app] /\ current' = Pipelines[app][k + 1]
               /\ state' # None /\ current' # NoPhase /\ Goto(t, "enter")
  BY LeaveStep, Zenon
<1>2. current # NoPhase
  BY <1>0, Zenon DEF ThreadInv, InRunner
<1>3. pc'[admin] \in Before => pc[admin] \in Before
  <2>1. PICK l \in {After(t), "enter"} : Goto(t, l)
    BY <1>1
  <2>2. l \notin Before \/ t # admin
    BY <2>1, AfterFacts, Zenon DEF Before
  <2> QED BY <1>0, <2>1, <2>2, ThreadFacts, Zenon DEF ThreadInv, Goto
<1>4. Blamed => current.exit = "bound" \/ current.enter = "settle_admission"
  BY <1>2, Zenon DEF BlameInv, FruitInv
<1>5. /\ current.exit = "bound" => Pipelines[app][k + 1].enter = "settle_admission"
      /\ current.enter = "settle_admission" => k = Len(Pipelines[app])
  BY <1>0, <1>1, AfterBound, Zenon
<1>6. k + 1 \in DOMAIN Pipelines[app] => k # Len(Pipelines[app])
  BY <1>0, Shape
<1>7. Blamed => \/ state' = None \/ current'.exit = "bound"
                \/ current'.enter = "settle_admission"
  BY <1>1, <1>4, <1>5, <1>6, Zenon
<1> QED BY <1>0, <1>3, <1>7, BlameSame

LEMMA BlameDispatch ==
  ASSUME Base, BlameInv, FruitInv, NEW p \in People, Dispatches(p)
  PROVE  BlameInv'
<1>0. /\ ThreadInv /\ current # NoPhase /\ app \in AppNames
      /\ UNCHANGED <<app, results, current, state>> /\ withheld \subseteq withheld'
  BY Zenon DEF Dispatches, Active, Base, ThreadInv, session
<1>1. PICK k \in DOMAIN Pipelines[app] : current = Pipelines[app][k]
  BY <1>0, AtPhase, ZenonT(60)
<1>2. Blamed => "input" \notin current.takes
  BY <1>0, <1>1, AfterBound, Zenon DEF BlameInv, FruitInv
<1>3. value' = value \/ "input" \in current.takes
  BY DEF Dispatches, stored
<1>4. pc'[admin] = pc[admin]
  BY <1>0, ThreadFacts, ZenonT(60) DEF Dispatches, ThreadInv, Goto
<1>5. CASE value' = value
  BY <1>0, <1>4, <1>5, BlameSame, ZenonT(60) DEF BlameInv
<1>6. CASE ~Blamed
  <2>1. People' = People /\ admin' = admin
    BY <1>0 DEF People, N, admin
  <2>2. ~Blamed'
    BY <1>0, <1>6, <2>1, Zenon DEF Blamed
  <2> QED BY <2>1, <2>2, ZenonT(60) DEF BlameInv, Blamed, BlameDeserved
<1> QED BY <1>2, <1>3, <1>5, <1>6

LEMMA BlameHook ==
  ASSUME Base, BlameInv, NEW p \in People, HookRuns(p)
  PROVE  BlameInv'
<1>1. UNCHANGED <<app, results, value, withheld, current, state>>
  BY ZenonT(60) DEF HookRuns, Kept
<1>2. pc'[admin] = pc[admin]
  BY ThreadFacts DEF HookRuns, Base, ThreadInv, Goto
<1> QED BY <1>1, <1>2, BlameSame, Zenon DEF BlameInv

LEMMA BlameTrigger ==
  ASSUME Base, BlameInv, Trigger
  PROVE  BlameInv'
<1>1. UNCHANGED <<app, results, value, withheld>>
  BY ZenonT(60)
     DEF Trigger, Start, Seed, BuildSessionCrypto, AdvanceToState, session, stored, clients
<1>2. CASE Start \/ Seed \/ BuildSessionCrypto
  <2>1. pc[admin] \in Before
    BY <1>2, Zenon DEF Start, Seed, BuildSessionCrypto, Before
  <2>2. ~Blamed
    BY <2>1, ZenonT(60) DEF BlameInv
  <2> QED BY <1>1, <2>1, <2>2, BlameSame, ZenonT(60)
<1>3. CASE AdvanceToState
  <2>1. UNCHANGED <<current, state>>
    BY <1>3, ZenonT(60) DEF AdvanceToState, session
  <2>2. pc'[admin] \notin Before
    BY <1>3, ThreadFacts DEF AdvanceToState, Base, ThreadInv, Goto, Before
  <2> QED BY <1>1, <2>1, <2>2, BlameSame DEF BlameInv
<1> QED BY <1>2, <1>3 DEF Trigger

\* Whom the bound check records as a violator withheld a partial or submitted an input
\* outside the tolerance, for any norms and however often its Exit is re-run.
THEOREM BlameSafe == Spec => []BlameDeserved
<1> DEFINE Inv == Base /\ FruitInv /\ BlameInv
<1>1. Init => Inv
  BY BaseInit, FruitInit, BlameInit
<1>2. Inv /\ [Next]_vars => Inv'
  <2> SUFFICES ASSUME Base, FruitInv, BlameInv, [Next]_vars PROVE BlameInv'
    BY FruitStep
  <2>1. SessionStep
    BY FruitStep
  <2>2. CASE UNCHANGED vars
    <3>1. UNCHANGED <<app, results, value, withheld, current, state, pc>>
      BY <2>2 DEF vars, session, stored, clients
    <3> QED BY <3>1, BlameSame DEF BlameInv
  <2>3. CASE Trigger
    BY <2>3, BlameTrigger
  <2>4. ASSUME NEW t \in Threads, ExitsPhase(t) \/ EntersPhase(t) \/ Leave(t) PROVE BlameInv'
    BY <2>4, BlameExit, BlameEnter, BlameLeave, Zenon
  <2>5. ASSUME NEW p \in People, Dispatches(p) \/ HookRuns(p) PROVE BlameInv'
    BY <2>5, BlameDispatch, BlameHook, Zenon
  <2> QED BY <2>1, <2>2, <2>3, <2>4, <2>5, ZenonT(60) DEF SessionStep
<1>3. Inv => BlameDeserved
  BY DEF BlameInv
<1> QED BY <1>1, <1>2, <1>3, PTL DEF Spec

=============================================================================
