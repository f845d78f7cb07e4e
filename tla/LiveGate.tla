------------------------------ MODULE LiveGate ------------------------------
(***************************************************************************)
(* A live gate at work.  It goes through the steps of its plan against an  *)
(* extension that may give one answer other than the gate requires, a      *)
(* bridge that comes and goes, a user who closes tabs, and turns that may  *)
(* fail, or return something other than was asked for.                     *)
(***************************************************************************)
EXTENDS ArtifactGates, FiniteSets

CONSTANTS Gates,      \* the plans a gate may have, a sequence
          Retained,   \* BOOLEAN values: is a runtime tab there when a gate starts
          MaxFaults   \* disturbances in one run of a gate

-----------------------------------------------------------------------------
(* What the plans of the gates have in common. *)

\* What the claims of step i of plan p are, and which of them may be otherwise.  A
\* reading may also break a promise that was made before it.
Asked(p, i) == IF p.steps[i].op \in {"ask", "check", "read"} THEN p.steps[i].needs ELSE <<>>

Promised(p, i) ==
    IF p.steps[i].op # "read" THEN {}
    ELSE UNION {{c \in DOMAIN Asked(p, j) : Asked(p, j)[c] = "no"} : j \in 1 .. i - 1}

MayBeOdd(p, i) ==
    IF p.steps[i].op = "schema" THEN DOMAIN contract[p.steps[i].schema]
    ELSE DOMAIN Asked(p, i) \cup Promised(p, i)

Rich(p) == p.steps[1].op = "schema"

\* The number of turns that plan p makes up to step i, and in all.
Number(p, i) == Cardinality({j \in 1 .. i : p.steps[j].op = "turn"})
Total(p)     == Number(p, Len(p.steps))

\* A step that only a gate without a runtime tab passes.
Absent(s) == (s.op = "await" \/ (s.op = "look" /\ s.strict)) /\ s.tab = None

\* A check compares a turn with itself, an earlier one or what was given.
InOrder(k, check) ==
    /\ check[1] \in {"reused", "otherTab"} => check[2] \in 1 .. k
    /\ check[1] \in {"same", "apart"} => check[2] \in 0 .. k

Required(p, k, check) ==
    \E i \in DOMAIN p.steps :
        p.steps[i].op = "turn" /\ Number(p, i) = k /\ check \in p.steps[i].checks

\* What is claimed of turn k was required at some step, or follows from what was.
Backed(p, k, claim) ==
    LET steps == {p.steps[i] : i \in DOMAIN p.steps}
        last  == p.steps[Len(p.steps)]
        what  == claim[1]
    IN  \/ /\ what = "gone" /\ k # 0
           /\ \/ \E i \in DOMAIN p.steps : Absent(p.steps[i]) /\ Number(p, i) = k
              \/ \E s \in steps : s.op = "disposal" /\ s.turn = k
        \/ what = "gone" /\ k = 0 /\ \E s \in steps : s.op = "close"
        \/ /\ what = "kept" /\ last.op \in {"look", "await"}
           /\ last.tab = IF k = 0 THEN Given ELSE Of(k)
        \/ /\ what = "ended"
           /\ \E i \in DOMAIN p.steps : p.steps[i].op = "end" /\ Number(p, i) = Total(p)
        \/ /\ what \notin {"gone", "kept", "ended"} /\ k # 0
           /\ \/ Required(p, k, claim)
              \/ claim = Same(k)
              \/ /\ what = "reused"
                 /\ \E j \in 1 .. k : Required(p, k, Reused(j)) /\ Required(p, j, claim)

\* A plan whose summary can be trusted.
Sound(p) ==
    /\ Len(p.steps) \in Nat \ {0} /\ DOMAIN p.steps = 1 .. Len(p.steps)
    /\ Rich(p) => p.steps[1].schema \in Schemas /\ Len(p.steps) > 1
    /\ \A i \in DOMAIN p.steps :
          /\ p.steps[i].op = "schema" => i = 1
          /\ Promised(p, i) \subseteq DOMAIN Asked(p, i)
          /\ p.steps[i].op = "turn" =>
                \A c \in p.steps[i].checks : InOrder(Number(p, i), c)
          /\ p.steps[i].op = "disposal" => p.steps[i].turn \in 1 .. Number(p, i)
    /\ p.budget \in Nat /\ Total(p) <= p.budget
    /\ \A c \in p.claims : c[1] \in 0 .. Total(p) /\ Backed(p, c[1], c[2])

ASSUME LiveGateAssumption ==
    /\ \A g \in DOMAIN Gates : Sound(Gates[g])
    /\ Retained \subseteq BOOLEAN /\ MaxFaults \in Nat

-----------------------------------------------------------------------------
(* The state of a gate. *)

VARIABLES
  plan,      \* what the gate does
  odd,       \* <<step, claim>>: the one answer that is not as required, or Nothing
  build,     \* the schema the extension calls itself
  pc,        \* the step
  stage,     \* "step", "sending", or how the gate ended: "ok", "failed", "raised"
  report,    \* attempts and completions as the gate counts them
  writes,    \* for every write: may its result be relied on
  turns,     \* what the turns that returned were
  tab,       \* the runtime tab, 0 for none; tabs are numbered as they are made
  lastTab,
  armed,     \* the turn whose tab is to be closed, 0 for none
  disposed,  \* the turn whose tab was closed last
  bridge,    \* is the bridge up
  session,   \* the Temporary conversation that lives, 0 for none
  faults     \* disturbances left

step == plan.steps[pc]

gateVars == <<plan, odd, build>>
tabVars  == <<tab, lastTab, armed, disposed>>
runVars == <<plan, odd, build, pc, stage, report, writes, turns, tab, lastTab, armed,
          disposed, bridge, session, faults>>

Nothing  == <<0, "nothing">>
FirstTab == 1                   \* the tab that is there when the gate starts
Running  == stage \in {"step", "sending"}

GateInit ==
  /\ \E g \in DOMAIN Gates : plan = Gates[g]
  /\ odd \in {Nothing} \cup UNION {{<<i, c>> : c \in MayBeOdd(plan, i)} : i \in DOMAIN plan.steps}
  /\ build \in IF ~Rich(plan) THEN {0}
               ELSE IF odd = Nothing THEN Schemas ELSE {plan.steps[1].schema}
  /\ pc = 1 /\ stage = "step"
  /\ report = [attempts |-> 0, completions |-> 0]
  /\ writes = <<>> /\ turns = <<>>
  /\ tab \in {IF r THEN FirstTab ELSE 0 : r \in Retained} /\ lastTab = FirstTab
  /\ armed = 0 /\ disposed = 0 /\ bridge = TRUE /\ session = 0 /\ faults = MaxFaults

-----------------------------------------------------------------------------
(* What a turn showed, of the turns ts made so far. *)

Conversation(ts, j) == IF j = 0 THEN 0 ELSE ts[j].conv

\* Does turn k show what check requires?
Shows(ts, k, check) ==
    LET t == ts[k]
        what == check[1]
    IN  \/ what = "policy"    /\ t.policy = check[2]
        \/ what = "created"   /\ t.created
        \/ what = "reused"    /\ ~t.created /\ t.tab = ts[check[2]].tab
        \/ what = "otherTab"  /\ t.tab # ts[check[2]].tab
        \/ what = "same"      /\ t.conv = Conversation(ts, check[2])
        \/ what = "apart"     /\ t.conv # Conversation(ts, check[2])
        \/ what = "continues" /\ t.continued
        \/ what = "fresh"     /\ ~t.continued
        \/ what = "attached"  /\ t.attached
        \/ what = "proven"    /\ t.proven
        \/ what = "recorded"  /\ t.recorded

\* Is the runtime tab what t says: none, the first, any, or a turn's?
TabIs(t, ts) ==
    \/ t = None  /\ tab = 0
    \/ t = Given /\ tab = FirstTab
    \/ t = Some  /\ tab # 0
    \/ t \notin {None, Given, Some} /\ tab = ts[t[2]].tab

-----------------------------------------------------------------------------
(* The steps of a gate. *)

Advance ==
  IF pc = Len(plan.steps) THEN stage' = "ok" /\ UNCHANGED pc
                          ELSE stage' = "step" /\ pc' = pc + 1

\* Most gates report a failure; some raise it, and their report with it.
Fail == stage' = (IF plan.raises THEN "raised" ELSE "failed") /\ UNCHANGED pc

At(op) == stage = "step" /\ step.op = op

\* Before it leaves, a Temporary gate ends the session of its turns, if it can.
Leave ==
  IF plan.temporary /\ turns # <<>> /\ bridge /\ tab # 0 /\ session # 0
  THEN session' = 0 /\ tab' = 0 /\ UNCHANGED <<lastTab, armed, disposed>>
  ELSE UNCHANGED <<session, tabVars>>

Quit == Fail /\ Leave /\ UNCHANGED <<gateVars, report, writes, turns, bridge, faults>>

Proceed == Advance /\ UNCHANGED <<gateVars, report, writes, turns, tabVars, bridge, session, faults>>

\* Did step pc get the answers it needs?
Answered == /\ odd[1] = pc => odd[2] \notin DOMAIN step.needs
            /\ step.op # "check" => bridge

Question ==
  /\ stage = "step" /\ step.op \in {"ask", "check", "read"}
  /\ IF Answered THEN Proceed ELSE Quit

\* The extension describes itself; one claim may be otherwise.
described == IF odd[1] = 1 THEN [answer[build] EXCEPT ![odd[2]] = "other"] ELSE answer[build]

Support ==
  /\ At("schema")
  /\ \E said \in {described} :
        IF bridge /\ Accepts(step.schema, build, said) THEN Proceed ELSE Quit

LookStep ==
  /\ At("look")
  /\ IF \/ bridge /\ TabIs(step.tab, turns)
        \/ ~step.strict /\ ~bridge /\ step.tab = None
     THEN Proceed ELSE Quit

\* Mutant: a bridge that is down is taken for a tab that is gone.
MutantAwaitEnds ==
  /\ At("await")
  /\ bridge => TabIs(step.tab, turns)
  /\ Proceed

AwaitEnds ==
  /\ At("await")
  /\ bridge /\ TabIs(step.tab, turns)
  /\ Proceed

\* The disposal of the lease is on record, and the bridge shows no tab.
DisposalSeen ==
  /\ At("disposal") /\ disposed = step.turn
  /\ IF tab = 0 \/ ~bridge THEN Proceed ELSE Quit

\* A wait has a deadline.
WaitExpires == stage = "step" /\ step.op \in {"await", "disposal"} /\ Quit

-----------------------------------------------------------------------------
(* A turn, through the product runtime. *)

TurnNo == Len(turns) + 1

\* A Temporary turn that names a conversation is refused before it is written.
Forbidden == plan.temporary /\ step.in # NewChat

TurnBegin ==
  /\ At("turn")
  /\ stage' = "sending"
  /\ report' = IF plan.counts THEN [report EXCEPT !.attempts = @ + 1] ELSE report
  /\ armed' = 0                       \* the turn cancels a close that is due
  /\ UNCHANGED <<gateVars, pc, writes, turns, tab, lastTab, disposed, bridge, session, faults>>

\* What the turn is, in the tab now, unless it deviates.
Executed(now) ==
    [tab |-> now, created |-> tab = 0, continued |-> session # 0,
     conv |-> IF plan.temporary THEN IF session # 0 THEN session ELSE TurnNo
              ELSE IF step.in = NewChat THEN TurnNo ELSE Conversation(turns, step.in),
     policy |-> IF step.policy = "" THEN plan.default ELSE step.policy,
     attached |-> TRUE, proven |-> TRUE, recorded |-> TRUE]

Elsewhere == -2   \* a conversation no plan knows

\* How a turn may deviate: in one of these, or not at all.
Amiss == [conv |-> Elsewhere, policy |-> "OTHER", attached |-> FALSE, proven |-> FALSE,
          recorded |-> FALSE]

Deviating(t, dev) == IF dev = "none" THEN t ELSE [t EXCEPT ![dev] = Amiss[dev]]

Deviations == {"none"} \cup DOMAIN Amiss

TurnReturns(dev) ==
  /\ stage = "sending" /\ bridge
  /\ ~Forbidden /\ ~plan.deaf
  /\ session # 0 => tab # 0           \* a lost Temporary tab is not replaced
  /\ dev # "none" => faults > 0
  /\ LET now == IF tab = 0 THEN lastTab + 1 ELSE tab
         t   == Deviating(Executed(now), dev)
         all == Append(turns, t)
     IN  /\ tab' = now
         /\ lastTab' = IF tab = 0 THEN now ELSE lastTab
         /\ turns' = all
         /\ writes' = Append(writes, TRUE)
         /\ armed' = IF t.policy \in Closing THEN TurnNo ELSE 0
         /\ session' = IF plan.temporary THEN t.conv ELSE session
         /\ IF \A c \in step.checks : Shows(all, TurnNo, c) THEN Advance ELSE Fail
  /\ report' = IF plan.counts THEN [report EXCEPT !.completions = @ + 1] ELSE report
  /\ faults' = IF dev = "none" THEN faults ELSE faults - 1
  /\ UNCHANGED <<gateVars, disposed, bridge>>

\* Mutant: a turn that failed is made again.
MutantTurnRaises(landed) ==
  /\ stage = "sending"
  /\ landed => bridge /\ ~Forbidden /\ ~plan.deaf
  /\ writes' = IF landed THEN Append(writes, FALSE) ELSE writes
  /\ stage' = "step" /\ UNCHANGED pc
  /\ faults > 0 /\ faults' = faults - 1
  /\ UNCHANGED <<gateVars, report, turns, tabVars, bridge, session>>

\* The turn fails, before its write or after.
TurnRaises(landed) ==
  /\ stage = "sending"
  /\ landed => bridge /\ ~Forbidden /\ ~plan.deaf
  /\ writes' = IF landed THEN Append(writes, FALSE) ELSE writes
  /\ Fail /\ Leave
  /\ UNCHANGED <<gateVars, report, turns, bridge, faults>>

\* A turn that has to be refused.  One with a conversation of its own is, one
\* after the end is too, but not with the error the gate waits for.
RefusedStep ==
  /\ At("refused")
  /\ IF step.why = "explicit" THEN Proceed ELSE Quit

\* The end of a Temporary session is the close of its tab.
EndStep ==
  /\ At("end")
  /\ IF bridge /\ tab # 0 /\ session # 0
     THEN /\ session' = 0 /\ tab' = 0 /\ Advance
          /\ UNCHANGED <<gateVars, report, writes, turns, lastTab, armed, disposed, bridge, faults>>
     ELSE Quit

CloseStep ==
  /\ At("close")
  /\ IF bridge /\ tab \in {0, FirstTab}
     THEN /\ tab' = 0 /\ Advance
          /\ UNCHANGED <<gateVars, report, writes, turns, lastTab, armed, disposed, bridge,
                         session, faults>>
     ELSE Quit

GateStep ==
  \/ Question \/ Support \/ LookStep \/ AwaitEnds \/ DisposalSeen \/ WaitExpires
  \/ TurnBegin \/ RefusedStep \/ EndStep \/ CloseStep
  \/ \E dev \in Deviations : TurnReturns(dev)
  \/ \E landed \in BOOLEAN : TurnRaises(landed)

-----------------------------------------------------------------------------
(* What happens around the gate. *)

Around == Running /\ UNCHANGED <<gateVars, pc, stage, report, writes, turns, lastTab, session>>

\* The runtime closes the tab of a turn, when its time has come.
Dispose ==
  /\ Around /\ armed # 0 /\ bridge
  /\ tab' = IF tab = turns[armed].tab THEN 0 ELSE tab
  /\ disposed' = armed /\ armed' = 0
  /\ UNCHANGED <<bridge, faults>>

\* Over a bridge that is down it fails, and is not tried again.
DisposeFails ==
  /\ Around /\ armed # 0 /\ ~bridge
  /\ armed' = 0
  /\ UNCHANGED <<tab, disposed, bridge, faults>>

UserCloses ==
  /\ Around /\ tab # 0 /\ faults > 0
  /\ tab' = 0 /\ faults' = faults - 1
  /\ UNCHANGED <<armed, disposed, bridge>>

BridgeDrops ==
  /\ Around /\ bridge /\ faults > 0
  /\ bridge' = FALSE /\ faults' = faults - 1
  /\ UNCHANGED <<tab, armed, disposed>>

BridgeReturns ==
  /\ Around /\ ~bridge
  /\ bridge' = TRUE
  /\ UNCHANGED <<tab, armed, disposed, faults>>

\* A gate that has ended stays as it is: any other stop is a deadlock.
Ended == ~Running /\ UNCHANGED runVars

GateNext ==
  GateStep \/ Dispose \/ DisposeFails \/ UserCloses \/ BridgeDrops \/ BridgeReturns \/ Ended

GateSpec == GateInit /\ [][GateNext]_runVars

-----------------------------------------------------------------------------
(* What the gates promise. *)

\* The gate of a rich-input schema lets an extension pass to the first turn exactly
\* when it meets the contract of that schema, although most of it is checked by the
\* gates of earlier schemas on relabelled answers
\* (product_rich_input_live_gate_schemaN_pr9_2.py).
ContractIsExact ==
    Rich(plan) =>
        \A said \in {described} :
            LET meets == Meets(plan.steps[1].schema, build, said)
            IN  /\ pc = 2 /\ stage = "step" => meets
                /\ pc = 1 /\ ~Running /\ bridge => ~meets

\* What the summary of a passing gate claims is true of the turns it made and of the
\* tabs they used, within its budget of writes, and no answer it needed was otherwise:
\* in particular no snapshot breaks a promise of the support.
Claimed(k, claim) ==
    \/ /\ claim[1] = "gone"
       /\ tab # (IF k = 0 THEN FirstTab ELSE turns[k].tab)
       /\ k # 0 => \A i \in k + 1 .. Len(turns) : turns[i].tab # turns[k].tab
    \/ claim[1] = "kept"  /\ tab = IF k = 0 THEN FirstTab ELSE turns[k].tab
    \/ claim[1] = "ended" /\ session = 0
    \/ Shows(turns, k, claim)

PassIsProven ==
    /\ Len(writes) <= plan.budget
    /\ stage = "ok" => odd = Nothing /\ \A c \in plan.claims : Claimed(c[1], c[2])

\* A gate never writes again once the result of a write is in doubt, and the attempts
\* and completions it counts enclose the writes it made.
NoWriteAfterDoubt ==
    /\ \A i \in 1 .. Len(writes) - 1 : writes[i]
    /\ plan.counts => report.completions <= Len(writes) /\ Len(writes) <= report.attempts

=============================================================================
