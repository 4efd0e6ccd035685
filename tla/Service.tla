------------------------------ MODULE Service ------------------------------
(***************************************************************************)
(* A session service of the example applications: the admin trigger that   *)
(* starts a session, the runner driving the application's phases, the      *)
(* readPumps that dispatch the participants' frames and run the            *)
(* application's PostDispatchHook, and the participants.                   *)
(*                                                                         *)
(* A thread is a participant's readPump or admin, the goroutine of the     *)
(* POST /admin/sessions handler.  SessionRunner models what overlapping    *)
(* calls of the runner do to a session; here the calls for one session are *)
(* taken one at a time (Free), while hooks, the trigger's steps outside    *)
(* the runner and the participants interleave with them.                   *)
(***************************************************************************)
EXTENDS Apps

CONSTANTS
  Size,       \* number of participants
  Shufflers,  \* number of participants of a voting session, which shuffles their ballots
  Values,     \* the squared norms, in thousandths, of the inputs of bounded admission
  MaxBad,     \* bound on frames that are damaged or out of phase
  MaxLost,    \* bound on sends the hub drops
  MaxFails    \* bound on failed calls of the OpenFHE helper

ASSUME ServiceBounds == Size \in Nat /\ Shufflers \in Nat /\ Values \subseteq Int

VARIABLES
  app,        \* the application served
  helper,     \* whether the service runs with a helper (admission: an openfhe build)
  attrs,      \* the attrs of the admin POST, until the trigger has used them
  state,      \* the tracker's state, Unknown before BeginSession and None after the last phase
  current,    \* the tracker's phase
  ctx,        \* the keys of the SessionContext that are set
  bundle,     \* which key bundle "pk" and "ek" hold, NoKey when no bytes
  bucket,     \* per message type, what each participant's stored payload is worth
  peeled,     \* layers peeled off the batch in each participant's stored peel_forward
  value,      \* the squared norm each stored admission.input encrypts
  results,    \* CtxAdmissionResults: the severity recorded for a participant
  failed,     \* the current phase's Enter returned an error
  pc,         \* what each thread does next
  frame,      \* the frame a readPump is handling
  todo,       \* index of the next participant a hook sends the challenge to
  batch,      \* layers peeled off the batch a participant was sent, NoBatch when none
  challenged, \* participants that received the check ciphertexts and commitments
  withheld,   \* participants that sent a partial map with an entry missing
  bads, lost, fails

session == <<state, current, ctx, bundle, results, failed>>
stored == <<bucket, peeled, value>>
clients == <<batch, challenged, withheld>>
bounds == <<bads, lost, fails>>
vars == <<app, helper, attrs, session, stored, pc, frame, todo, clients, bounds>>

\* Participants are numbered in the order of the admin POST.
N == IF app = "voting" THEN Shufflers ELSE Size
People == 1 .. N
admin == 0

Unknown == ""
NoPhase == Phase(None, None, {}, {}, {})
Finished == state = None
Active == current # NoPhase

NoKey == 0
ClientKey == 1
StubKey == 2
NoBatch == -1
Garbage == -2   \* a batch no peeler can peel
NoFrame == [type |-> None, layer |-> NoBatch]

\* ride.bid and ride.request are stored in one bucket.
BucketOf(type) == IF type = "ride.request" THEN "bid" ELSE type
Types == DOMAIN bucket \cup (IF app = "ride" THEN {"ride.request"} ELSE {})

\* bounded admission checks inputs only in a session with its own crypto handle.
Checking == "handle" \in ctx

-----------------------------------------------------------------------------
(* The admin POST.                                                         *)

Attr == {"absent", "empty", "hex", "badhex"}
NoAttrs == [pk |-> "absent", ek |-> "absent", sum |-> "absent", shares |-> FALSE,
            dim |-> TRUE, enough |-> TRUE]

\* dim says whether the dimension is the circuit's, and enough whether the POST names the
\* participants its trigger insists on: two for ride and voting, one for the others.
Attrs ==
  {[NoAttrs EXCEPT !.pk = p, !.ek = e, !.sum = s, !.shares = h, !.dim = d, !.enough = n] :
     p, e \in IF app = "voting" THEN {"absent"} ELSE Attr,
     s \in IF app = "admission" THEN Attr ELSE {"absent"},
     h \in IF app = "weekly" THEN BOOLEAN ELSE {FALSE},
     d \in IF app = "admission" THEN BOOLEAN ELSE {TRUE},
     n \in BOOLEAN}

\* A trigger: does it refuse the POST, which context keys does it seed, and to which state
\* does it walk the session.  ManualAdminTrigger, which they all call, refuses a POST
\* without participants.
Starter(a, refuses, seeds, target) ==
  [refuses |-> refuses \/ ~a.enough, seeds |-> seeds, target |-> target]

When(cond, key) == IF cond THEN {key} ELSE {}

decodeHexAttrs(a) == "badhex" \in {a.pk, a.ek}

\* Every attr that is present is copied, an empty one too.
Copied(a) == When(a.pk # "absent", "pk") \cup When(a.ek # "absent", "ek")
               \cup When(a.shares, "shares")

auctionTrigger(a) == Starter(a, "badhex" \in {a.pk, a.ek},
                             {"participants", "contract"} \cup Copied(a), "LOCKED")
rideShareTrigger(a) == Starter(a, ~a.enough \/ "badhex" \in {a.pk, a.ek},
                               {"participants", "roles", "contract"} \cup Copied(a), "KEYGEN")
formationTrigger(a) == Starter(a, decodeHexAttrs(a),
                               {"participants", "contract"} \cup Copied(a), "COHORT_KEYGEN")
weeklyTrigger(a) ==
  Starter(a, a.pk = "absent" \/ a.ek = "absent" \/ ~a.shares \/ decodeHexAttrs(a),
          {"participants", "contract"} \cup Copied(a), "RANK_BIDDING")
votingTrigger(a) == Starter(a, ~a.enough, {"participants"} \cup Copied(a), "GOSSIP")
\* Leaves an empty key out.
admissionTrigger(a) ==
  Starter(a, "badhex" \in {a.pk, a.ek, a.sum},
          {"participants", "dim"} \cup When(a.dim, "dim_matches")
            \cup When(a.pk = "hex", "pk") \cup When(a.ek = "hex", "ek"),
          "SUBMITTING")

TriggerOf(a) ==
  CASE app = "auction" -> auctionTrigger(a)
    [] app = "ride" -> rideShareTrigger(a)
    [] app = "formation" -> formationTrigger(a)
    [] app = "weekly" -> weeklyTrigger(a)
    [] app = "voting" -> votingTrigger(a)
    [] app = "admission" -> admissionTrigger(a)

Decoded(v) == IF v = "hex" THEN ClientKey ELSE NoKey

-----------------------------------------------------------------------------
Init ==
  /\ app \in AppNames
  /\ helper \in (IF app = "voting" THEN {FALSE} ELSE BOOLEAN)
  /\ attrs = NoAttrs
  /\ state = Unknown /\ current = NoPhase /\ ctx = {}
  /\ bundle = [pk |-> NoKey, ek |-> NoKey]
  /\ bucket = LET own == {Pipelines[app][k].bucket : k \in DOMAIN Pipelines[app]} \ {None}
                  extra == IF app = "voting" THEN {"onion.batch"} ELSE {}
              IN [b \in own \cup extra |-> [p \in People |-> None]]
  /\ peeled = [p \in People |-> NoBatch]
  /\ value = [p \in People |-> 0]
  /\ results = [p \in People |-> None]
  /\ failed = FALSE
  /\ pc = [t \in People \cup {admin} |-> "idle"]
  /\ frame = [p \in People |-> NoFrame]
  /\ todo = [p \in People |-> 0]
  /\ batch = [p \in People |-> NoBatch]
  /\ challenged = {} /\ withheld = {}
  /\ bads = 0 /\ lost = 0 /\ fails = 0

Goto(t, l) == pc' = [pc EXCEPT ![t] = l]

\* Slip: the trigger walks the session on before it seeds the context.
BeginSession_WalksFirst ==
  /\ current' = Pipelines[app][1] /\ state' = current'.in
  /\ Goto(admin, "walk")

\* BeginSession publishes the tracker on the first phase, runs its Enter and does not
\* cascade: the trigger has yet to seed the context.
BeginSession ==
  /\ current' = Pipelines[app][1] /\ state' = current'.in
  /\ Goto(admin, "seed")

Start ==
  /\ pc[admin] = "idle"
  /\ \E a \in Attrs :
       \/ /\ TriggerOf(a).refuses
          /\ Goto(admin, "refused") /\ UNCHANGED <<attrs, state, current>>
       \/ ~TriggerOf(a).refuses /\ attrs' = a /\ BeginSession
  /\ UNCHANGED <<app, helper, ctx, bundle, results, failed, stored, frame, todo, clients, bounds>>

\* The inner trigger's ctx.Set loop, then its invitation broadcast.
Seed ==
  /\ pc[admin] = "seed"
  /\ ctx' = ctx \cup TriggerOf(attrs).seeds
  /\ bundle' = [pk |-> Decoded(attrs.pk), ek |-> Decoded(attrs.ek)]
  /\ IF app = "admission" THEN Goto(admin, "crypto") /\ UNCHANGED attrs
     ELSE Goto(admin, "walk") /\ attrs' = NoAttrs
  /\ UNCHANGED <<app, helper, state, current, results, failed, stored, frame, todo, clients,
                 bounds>>

\* The handle and the fuse function of the session; a build without openfhe has none.
BuildSessionCrypto ==
  /\ pc[admin] = "crypto"
  /\ ctx' = IF helper /\ {attrs.pk, attrs.ek, attrs.sum} = {"hex"}
            THEN ctx \cup {"handle"} ELSE ctx
  /\ Goto(admin, "walk") /\ attrs' = NoAttrs
  /\ UNCHANGED <<app, helper, state, current, bundle, results, failed, stored, frame, todo,
                 clients, bounds>>

-----------------------------------------------------------------------------
(* The runner.  A thread inside it is at "exit" or "enter" of the current  *)
(* phase, or at "commitments" inside the Enter of the bound check.         *)

InRunner == {"walk", "exit", "leave", "enter", "commitments"}
Free == \A t \in DOMAIN pc : pc[t] \notin InRunner

\* A readPump that leaves the runner runs the hook of its application.
After(t) ==
  IF t = admin THEN "error"
  ELSE IF app \in {"voting", "admission"} THEN "hook" ELSE "idle"

AdvanceToState ==
  /\ pc[admin] = "walk"
  /\ Goto(admin, IF current.in = TriggerOf(attrs).target THEN "ok" ELSE "exit")
  /\ UNCHANGED <<app, helper, attrs, session, stored, frame, todo, clients, bounds>>

\* What advance and AdvanceToState do once Exit has returned nil.
Leave(t) ==
  /\ pc[t] = "leave"
  /\ LET next == {k \in DOMAIN Pipelines[app] : Pipelines[app][k].in = current.out} IN
     \/ /\ current.out = None
        /\ state' = None /\ current' = NoPhase /\ failed' = FALSE /\ Goto(t, After(t))
     \/ /\ current.out # None /\ next = {}
        /\ Goto(t, After(t)) /\ UNCHANGED <<state, current, failed>>
     \/ \E k \in next :
        /\ current' = Pipelines[app][k] /\ state' = current.out /\ failed' = FALSE
        /\ Goto(t, "enter")
  /\ UNCHANGED <<app, helper, attrs, ctx, bundle, results, stored, frame, todo, clients, bounds>>

\* Slip: a dispatch stops at the next phase, even one no message completes.
Entered_NoCascade(t) == Goto(t, IF t = admin THEN "walk" ELSE After(t))

\* What they do once Enter has returned nil: the walk looks at the state again, a
\* dispatch stops at a phase that waits for messages and cascades past any other.
Entered(t) ==
  Goto(t, IF t = admin THEN "walk" ELSE IF current.takes = {} THEN "exit" ELSE After(t))

Exits(t) == Goto(t, "leave")
ExitFails(t) == Goto(t, After(t))
EnterFails(t) == Goto(t, After(t)) /\ failed' = TRUE

\* A call of the helper: it succeeds, or fails as often as the bound allows.
HelperOk == UNCHANGED fails
HelperFails == fails < MaxFails /\ fails' = fails + 1

AllGood(b) == \A p \in People : bucket[b][p] = "good"

\* Slip: a bundle is kept only together with its secret shares.
PreShared_WithShares == bundle.pk # NoKey /\ bundle.ek # NoKey /\ "shares" \in ctx

PreShared == bundle.pk # NoKey /\ bundle.ek # NoKey

-----------------------------------------------------------------------------
(* Exit of the current phase, by thread t.                                 *)

AtExit(t, kind) ==
  /\ pc[t] = "exit" /\ Active /\ current.exit = kind
  /\ UNCHANGED <<app, helper, attrs, state, current, failed, stored, frame, todo, clients, bads,
                 lost>>

ExitNothing(t) ==
  /\ AtExit(t, None) /\ Exits(t)
  /\ UNCHANGED <<ctx, bundle, results, fails>>

\* Keep a bundle that is already there, else the stub's, else one from the helper.
ExitKeygen(t, kind) ==
  /\ AtExit(t, kind)
  /\ UNCHANGED results
  /\ \/ /\ PreShared \/ ~helper
        /\ bundle' = IF PreShared THEN bundle ELSE [pk |-> StubKey, ek |-> StubKey]
        /\ ctx' = ctx \cup Bundle \cup current.gives
        /\ Exits(t) /\ UNCHANGED fails
     \/ /\ ~PreShared /\ helper /\ HelperOk
        /\ bundle' = LET new == bundle.pk + bundle.ek + StubKey + 1 IN [pk |-> new, ek |-> new]
        /\ ctx' = ctx \cup Bundle \cup current.gives
        /\ Exits(t)
     \/ /\ ~PreShared /\ helper /\ HelperFails
        /\ ExitFails(t) /\ UNCHANGED <<ctx, bundle>>

ExitCollect(t) ==
  /\ AtExit(t, "collect") /\ Exits(t)
  /\ ctx' = ctx \cup {"inputs"}
  /\ UNCHANGED <<bundle, results, fails>>

\* Both decode every partial and call the helper only when the phase has one.
ExitDecrypt(t) ==
  /\ AtExit(t, "decrypt")
  /\ UNCHANGED <<bundle, results>>
  /\ \/ /\ ~helper \/ AllGood("decrypt.partial")
        /\ ctx' = ctx \cup {"result"} /\ Exits(t) /\ UNCHANGED fails
     \/ /\ helper
        /\ IF AllGood("decrypt.partial") THEN HelperFails ELSE UNCHANGED fails
        /\ ExitFails(t) /\ UNCHANGED ctx

ExitStubDecrypt(t) ==
  /\ AtExit(t, "stub_decrypt") /\ Exits(t)
  /\ ctx' = ctx \cup {"result"}
  /\ UNCHANGED <<bundle, results, fails>>

ExitShuffle(t) ==
  /\ AtExit(t, "shuffle") /\ Exits(t)
  /\ ctx' = ctx \cup {"peel_rounds"}
  /\ UNCHANGED <<bundle, results, fails>>

\* PhaseGVerify and PhaseSubmitVote decode what they stored only now; a slot submission
\* is good when it decodes and its slot index is its own.
ExitDecoding(t, kind, key) ==
  /\ AtExit(t, kind)
  /\ UNCHANGED <<bundle, results, fails>>
  /\ \/ AllGood(current.bucket) /\ ctx' = ctx \cup {key} /\ Exits(t)
     \/ ~AllGood(current.bucket) /\ ExitFails(t) /\ UNCHANGED ctx

ExitAdmissionKeygen(t) ==
  /\ AtExit(t, "admission_keygen") /\ Exits(t)
  /\ IF "pk" \in ctx THEN UNCHANGED <<ctx, bundle>>
     ELSE /\ ctx' = ctx \cup {"dim", "dim_matches", "ek", "pk"}
          /\ bundle' = [pk |-> StubKey, ek |-> StubKey]
  /\ UNCHANGED <<results, fails>>

-----------------------------------------------------------------------------
(* The verdict of the bound check.                                         *)

\* NormCircuit with Eps 0.05 and DefaultParams, in thousandths.  A fused value that is
\* not a number fails every comparison.
NaN == -1
Lo == 950
Hi == 1050
EpsNorm == 10
NuHard == 1250

AtMost(nu, bound) == nu # NaN /\ nu <= bound

Excess(v) ==
  IF v = NaN THEN NaN ELSE IF v < Lo THEN Lo - v ELSE IF v > Hi THEN v - Hi ELSE 0

\* Slip: the worst case is tested first, so what fails every test is "ok".
classify_WorstFirst(v) ==
  LET nu == Excess(v) IN
  IF nu > NuHard THEN "hard" ELSE IF nu > EpsNorm THEN "soft" ELSE "ok"

classify(v) ==
  LET nu == Excess(v) IN
  IF AtMost(nu, EpsNorm) THEN "ok" ELSE IF AtMost(nu, NuHard) THEN "soft" ELSE "hard"

\* A "short" partial map lacks the entry of this participant's check ciphertext.
Omitted == 1
Short == {p \in People : bucket["bound.partial"][p] = "short"}
Fusable == IF Short = {} THEN People ELSE People \ {Omitted}

\* Slip: the participant whose check cannot be fused is the violator.
Verdict_Checked(p) == IF p \in Fusable THEN classify(value[p]) ELSE "hard"

\* A sender that withheld an entry is the violator, whatever its own value.
Verdict(p) == IF p \in Short THEN "hard" ELSE IF p \in Fusable THEN classify(value[p]) ELSE "ok"

\* Exit fuses only once every map decodes, and records violators only once every fusion
\* succeeded; after a violation the session stays in the phase.
ExitBound(t) ==
  /\ AtExit(t, "bound")
  /\ UNCHANGED <<ctx, bundle>>
  /\ LET garbled == \E p \in People : bucket["bound.partial"][p] = "bad"
         violators == {p \in People : Verdict(p) # "ok"}
     IN
     \/ ~Checking /\ Exits(t) /\ UNCHANGED <<results, fails>>
     \/ Checking /\ garbled /\ ExitFails(t) /\ UNCHANGED <<results, fails>>
     \/ Checking /\ ~garbled /\ HelperFails /\ ExitFails(t) /\ UNCHANGED results
     \/ /\ Checking /\ ~garbled /\ HelperOk
        /\ results' = [p \in People |-> IF p \in violators THEN Verdict(p) ELSE results[p]]
        /\ IF violators = {} THEN Exits(t) ELSE ExitFails(t)

-----------------------------------------------------------------------------
(* Enter of the current phase, by thread t.                                *)

AtEnter(t, kind) ==
  /\ pc[t] = "enter" /\ current.enter = kind
  /\ UNCHANGED <<app, helper, attrs, state, current, stored, frame, todo, clients, bundle,
                 results, bads, lost>>

Succeeds(t, keys) == ctx' = ctx \cup keys /\ Entered(t) /\ UNCHANGED <<failed, fails>>

EnterNothing(t) == AtEnter(t, None) /\ Succeeds(t, {})

EnterScore(t) ==
  /\ AtEnter(t, "score")
  /\ LET ready == bundle.ek # NoKey /\ AllGood("bid") IN
     \/ (~helper \/ ready) /\ Succeeds(t, {"scored"})
     \/ /\ helper
        /\ IF ready THEN HelperFails ELSE UNCHANGED fails
        /\ EnterFails(t) /\ UNCHANGED ctx

EnterLookup(t) ==
  /\ AtEnter(t, "lookup")
  /\ IF Bundle \subseteq ctx THEN Succeeds(t, {})
     ELSE EnterFails(t) /\ UNCHANGED <<ctx, fails>>

EnterTally(t) == AtEnter(t, "tally") /\ Succeeds(t, {"result"})

EnterSettle(t) ==
  \/ AtEnter(t, "settle") /\ Succeeds(t, {"transcript"})
  \/ AtEnter(t, "settle_vote") /\ Succeeds(t, {"transcript"})
  \/ AtEnter(t, "settle_admission") /\ Succeeds(t, {"results"})

\* Refuse a dimension that is not the circuit's; without a handle do nothing; else
\* evaluate the circuit for every input and publish the check ciphertexts.
EnterBound(t) ==
  /\ AtEnter(t, "bound")
  /\ LET dimOk == "dim_matches" \in ctx IN
     \/ ~dimOk /\ EnterFails(t) /\ UNCHANGED <<ctx, fails>>
     \/ dimOk /\ ~Checking /\ Succeeds(t, {})
     \/ dimOk /\ Checking /\ HelperFails /\ EnterFails(t) /\ UNCHANGED ctx
     \/ /\ dimOk /\ Checking /\ HelperOk
        /\ ctx' = ctx \cup {"checks"} /\ Goto(t, "commitments") /\ UNCHANGED failed

\* The second ctx.Set of that Enter: a hook may run between the two.
EnterBoundCommit(t) ==
  /\ pc[t] = "commitments"
  /\ Succeeds(t, {"commitments"})
  /\ UNCHANGED <<app, helper, attrs, state, current, stored, frame, todo, clients, bundle,
                 results, bads, lost>>

-----------------------------------------------------------------------------
(* A participant sends a frame and its readPump dispatches it: HandleMessage *)
(* refuses a type the phase does not consume, OnMessage stores the payload, *)
(* CheckComplete counts the senders.                                       *)

Accepts(type, load) == type \in current.takes /\ ~(type = "input" /\ load = "bad")

\* The batch in a frame: a peeler strips one layer.
Layer(p, type, load) ==
  IF type # "peel_forward" THEN NoBatch ELSE IF load = "bad" THEN Garbage ELSE batch[p] + 1

HandleMessage(p, type, load, v) ==
  /\ pc[p] = "idle" /\ Free /\ Active
  /\ frame' = [frame EXCEPT ![p] =
                 IF After(p) = "idle" THEN NoFrame
                 ELSE [type |-> type, layer |-> Layer(p, type, load)]]
  /\ IF Accepts(type, load)
     THEN /\ bucket' = [bucket EXCEPT ![BucketOf(type)][p] = load]
          /\ peeled' = IF type = "peel_forward"
                       THEN [peeled EXCEPT ![p] = Layer(p, type, load)] ELSE peeled
          /\ value' = IF type = "input" THEN [value EXCEPT ![p] = v] ELSE value
          /\ Goto(p, IF /\ "participants" \in ctx
                        /\ \A q \in People : bucket'[current.bucket][q] # None
                     THEN "exit" ELSE After(p))
     ELSE Goto(p, After(p)) /\ UNCHANGED stored
  /\ UNCHANGED <<app, helper, attrs, session, todo, batch, challenged, lost, fails>>

\* What a participant is able to produce: it peels only a batch it was sent, and decrypts
\* only check ciphertexts it was sent.
Able(p, type) ==
  /\ type = "peel_forward" => batch[p] >= 0
  /\ type = "bound.partial" /\ Checking => p \in challenged

\* The frame the current phase waits for from a participant.
Due(p) ==
  CASE current.exit = "shuffle" -> IF batch[p] >= 0 THEN "peel_forward" ELSE "onion.batch"
    [] current.in = "SUBMIT" /\ p = 1 -> "ride.request"
    [] OTHER -> current.bucket

\* The norms that matter: none is looked at without a crypto handle.
Norms(type) == IF type = "input" /\ Checking THEN Values ELSE {0}

SendDue(p) ==
  /\ Active /\ current.takes # {} /\ Able(p, Due(p))
  /\ \E v \in Norms(Due(p)) : HandleMessage(p, Due(p), "good", v)
  /\ UNCHANGED <<bads, withheld>>

\* A frame that is damaged, out of phase, or a partial map with an entry missing.
SendStray(p) ==
  /\ bads < MaxBad /\ bads' = bads + 1
  /\ \/ \E type \in Types :
          HandleMessage(p, type, "bad", 0) /\ UNCHANGED withheld
     \/ \E type \in Types :
          /\ Active /\ type \notin current.takes /\ Able(p, type)
          /\ HandleMessage(p, type, "good", 0) /\ UNCHANGED withheld
     \/ /\ "bound.partial" \in Types /\ Able(p, "bound.partial")
        /\ HandleMessage(p, "bound.partial", "short", 0) /\ withheld' = withheld \cup {p}

-----------------------------------------------------------------------------
(* The hooks, run by the readPump after every frame whatever its dispatch  *)
(* returned.  Hub.SendTo reports no error for a message it drops.          *)

SendTo(delivered) ==
  \/ delivered /\ UNCHANGED lost
  \/ lost < MaxLost /\ lost' = lost + 1 /\ UNCHANGED <<batch, challenged>>

Relay(q, layer) == SendTo(batch' = [batch EXCEPT ![q] = layer] /\ UNCHANGED challenged)

assembleBatch == AllGood("onion.batch")

\* Slip: the batch goes to the participant whose onion completed it.
peelRelayIfNeeded_ToSender(p) ==
  /\ app = "voting" /\ pc[p] = "hook"
  /\ LET starts == frame[p].type = "onion.batch" /\ assembleBatch
         passes == frame[p].type = "peel_forward" /\ p < N
     IN
     \/ starts /\ Relay(p, 0)
     \/ passes /\ Relay(p + 1, frame[p].layer)
     \/ ~starts /\ ~passes /\ UNCHANGED <<batch, challenged, lost>>
  /\ Goto(p, "idle") /\ frame' = [frame EXCEPT ![p] = NoFrame]
  /\ UNCHANGED <<app, helper, attrs, session, stored, todo, withheld, bads, fails>>

\* A complete set of onions goes to the first peeler, a peeled batch to the next one.
peelRelayIfNeeded(p) ==
  /\ app = "voting" /\ pc[p] = "hook"
  /\ LET starts == frame[p].type = "onion.batch" /\ assembleBatch
         passes == frame[p].type = "peel_forward" /\ p < N
     IN
     \/ starts /\ Relay(1, 0)
     \/ passes /\ Relay(p + 1, frame[p].layer)
     \/ ~starts /\ ~passes /\ UNCHANGED <<batch, challenged, lost>>
  /\ Goto(p, "idle") /\ frame' = [frame EXCEPT ![p] = NoFrame]
  /\ UNCHANGED <<app, helper, attrs, session, stored, todo, withheld, bads, fails>>

\* Once there are check ciphertexts and no sentinel, the hook takes what it will send to
\* every participant; the commitments may not be set yet.
challengeUnicastIfNeeded(p) ==
  /\ app = "admission" /\ pc[p] = "hook"
  /\ LET needed == "challenges_sent" \notin ctx /\ "checks" \in ctx IN
     /\ Goto(p, IF ~needed THEN "idle"
                ELSE IF "commitments" \in ctx THEN "challenge" ELSE "bare_challenge")
     /\ todo' = [todo EXCEPT ![p] = IF needed THEN 1 ELSE 0]
  /\ frame' = [frame EXCEPT ![p] = NoFrame]
  /\ UNCHANGED <<app, helper, attrs, session, stored, clients, bounds>>

SendChallenge(p) ==
  /\ pc[p] \in {"challenge", "bare_challenge"} /\ todo[p] <= N
  /\ SendTo(/\ challenged' = IF pc[p] = "challenge" THEN challenged \cup {todo[p]}
                              ELSE challenged
            /\ UNCHANGED batch)
  /\ todo' = [todo EXCEPT ![p] = @ + 1]
  /\ UNCHANGED <<app, helper, attrs, session, stored, pc, frame, withheld, bads, fails>>

\* The sentinel is set after the last send.
SetSentinel(p) ==
  /\ pc[p] \in {"challenge", "bare_challenge"} /\ todo[p] = N + 1
  /\ ctx' = ctx \cup {"challenges_sent"}
  /\ Goto(p, "idle") /\ todo' = [todo EXCEPT ![p] = 0]
  /\ UNCHANGED <<app, helper, attrs, state, current, bundle, results, failed, stored, frame,
                 clients, bounds>>

-----------------------------------------------------------------------------
Trigger == Start \/ Seed \/ BuildSessionCrypto \/ AdvanceToState

Runner(t) ==
  \/ ExitNothing(t) \/ ExitKeygen(t, "keygen") \/ ExitKeygen(t, "cohort_keygen")
  \/ ExitCollect(t) \/ ExitDecrypt(t) \/ ExitStubDecrypt(t) \/ ExitShuffle(t)
  \/ ExitDecoding(t, "verify", "slots") \/ ExitDecoding(t, "ballots", "inputs")
  \/ ExitAdmissionKeygen(t) \/ ExitBound(t)
  \/ EnterNothing(t) \/ EnterScore(t) \/ EnterLookup(t) \/ EnterTally(t) \/ EnterSettle(t)
  \/ EnterBound(t) \/ EnterBoundCommit(t) \/ Leave(t)

Hook(p) ==
  peelRelayIfNeeded(p) \/ challengeUnicastIfNeeded(p) \/ SendChallenge(p) \/ SetSentinel(p)

Next ==
  \/ Trigger
  \/ \E t \in People \cup {admin} : Runner(t)
  \/ \E p \in People : Hook(p) \/ SendDue(p) \/ SendStray(p)

\* The scheduler runs every goroutine that can run, and a participant repeats the frame
\* the session waits for until the session moves on.
Everyone == 1 .. (IF Size > Shufflers THEN Size ELSE Shufflers)

Fairness ==
  /\ WF_vars(Trigger \/ Runner(admin))
  /\ \A p \in Everyone : WF_vars(p \in People /\ (Runner(p) \/ Hook(p)))
  /\ \A p \in Everyone : SF_vars(p \in People /\ SendDue(p))

Spec == Init /\ [][Next]_vars /\ Fairness

-----------------------------------------------------------------------------
(* The context keys a hook reads and cannot do without: it returns an error, *)
(* or panics in MustGet, when one is not set.                              *)

EnterReads(ph) ==
  CASE ph.enter = "score" -> IF helper THEN {"contract", "ek"} ELSE {}
    [] ph.enter = "lookup" -> Bundle
    [] ph.enter = "tally" -> {"inputs"}
    [] ph.enter = "settle_vote" -> {"result"}
    [] ph.enter = "bound" -> {"dim"} \cup (IF Checking THEN {"inputs"} ELSE {})
    [] OTHER -> {}

ExitReads(ph) ==
  CASE ph.exit = "keygen" -> IF helper /\ ~PreShared THEN {"participants", "contract"} ELSE {}
    [] ph.exit = "cohort_keygen" -> IF helper /\ ~PreShared THEN {"participants"} ELSE {}
    [] ph.exit = "decrypt" -> IF helper THEN {"contract"} ELSE {}
    [] OTHER -> {}

\* No Enter or Exit of any application ever misses a context key it reads: Compose only
\* compares declarations, and the trigger seeds the context after BeginSession has
\* published the session and run the first Enter.
NothingMissing ==
  \A t \in DOMAIN pc :
    /\ pc[t] = "enter" => EnterReads(current) \subseteq ctx
    /\ pc[t] = "exit" /\ Active => ExitReads(current) \subseteq ctx

\* A complete key bundle is never replaced, neither the one of the admin POST by the
\* keygen phase nor one the keygen phase made when its Exit runs again for a late share
\* (the cohort formation service ends on a state no phase claims and re-runs it).
BundleStands ==
  [][bundle.pk # NoKey /\ bundle.ek # NoKey => bundle' = bundle]_vars

\* The tolerance the bound check promises, stated on the norm itself.
Tolerable(v) == v >= Lo - EpsNorm /\ v <= Hi + EpsNorm

\* What a settled session rests on: bounded admission with crypto admitted only norms
\* within the tolerance (never a NaN), the helper's argmax and fusion saw only payloads
\* that decode, the tally only ballots that decode.
SettledSoundly ==
  Finished =>
    /\ Checking => \A p \in People : Tolerable(value[p])
    /\ helper /\ app \in {"auction", "ride"} => AllGood("bid") /\ AllGood("decrypt.partial")
    /\ helper /\ app = "weekly" => AllGood("bid")
    /\ app = "voting" => AllGood("slot.submit") /\ AllGood("ballot")

\* Who is recorded as a violator of the bound check withheld a partial or submitted an
\* input outside the tolerance, however often Exit is re-run and whoever else is at fault.
BlameDeserved ==
  \A p \in People : results[p] # None => p \in withheld \/ ~Tolerable(value[p])

\* The k-th peeler's stored batch has exactly k layers off, so a batch never skips or
\* repeats a peeler however often the onions and batches are re-sent, lost or damaged.
PeelsInOrder ==
  \A k \in People : peeled[k] \in {NoBatch, Garbage, k}

\* The ways a started session is known to stop: an Enter failed and nothing re-runs it; a
\* formed cohort has its bundle but its exit state is claimed by no phase; an admitted
\* input is out of bounds; a challenge was lost or sent without commitments.
DeadEnd ==
  \/ failed
  \/ app = "formation" /\ bundle.pk # NoKey /\ bundle.ek # NoKey
  \/ /\ Checking /\ Active /\ current.exit = "bound"
     /\ \/ \E p \in People : ~Tolerable(value[p])
        \/ "challenges_sent" \in ctx /\ challenged # People

\* A session whose trigger returned finishes or comes to one of those ends, although
\* frames are damaged or come out of phase, the helper fails and relayed batches are lost.
SessionsFinish == pc[admin] = "ok" ~> (Finished \/ DeadEnd)
=============================================================================
