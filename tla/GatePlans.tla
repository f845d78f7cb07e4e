----------------------------- MODULE GatePlans -----------------------------
(***************************************************************************)
(* The live gates, the programs that prove the product against the real    *)
(* browser, written down as plans: the steps a gate takes in order, what   *)
(* it requires at each of them, and what the summary of a passing gate     *)
(* claims of the turns it made.                                            *)
(*                                                                         *)
(* Conversations, turns and tabs are referred to by the number of the turn *)
(* that made them; 0 is what the caller has given, NewChat a conversation  *)
(* of its own.                                                             *)
(***************************************************************************)
EXTENDS RichInputContract

NewChat == -1

Closing == {"TURN_SCOPED", "IDLE_TTL"}     \* policies that close the tab

(* Steps.  What a gate requires of a turn, and what a summary claims of    *)
(* one, has the same form: <<"policy", p>>, <<"created">>, <<"reused", j>>, *)
(* <<"otherTab", j>>, <<"same", j>>, <<"apart", j>>, <<"continues">>,       *)
(* <<"fresh">>, <<"attached">>, <<"proven">>, <<"recorded">>.               *)
Turn(in, policy, checks) == [op |-> "turn", in |-> in, policy |-> policy,
                             checks |-> checks \cup {<<"proven">>}]

Ask(needs)   == [op |-> "ask", needs |-> needs]     \* a question to the extension
Check(needs) == [op |-> "check", needs |-> needs]   \* one that needs no extension
Read(needs)  == [op |-> "read", needs |-> needs]    \* a reading, after promises about it
Schema(n)    == [op |-> "schema", schema |-> n]     \* rich-input support

\* The runtime tab is looked at, or awaited.  A look that is not strict takes a
\* bridge that is down for a missing tab.
Look(tab, strict) == [op |-> "look", tab |-> tab, strict |-> strict]
Await(tab)        == [op |-> "await", tab |-> tab]
Disposal(k)       == [op |-> "disposal", turn |-> k]  \* of the lease of turn k
Refused(why)      == [op |-> "refused", why |-> why]  \* a turn that must fail
EndSession        == [op |-> "end"]
CloseTab          == [op |-> "close"]

None == <<"none">>
Given == <<"given">>
Some == <<"some">>
Of(k) == <<"turn", k>>

Policy(p) == <<"policy", p>>
Same(j) == <<"same", j>>
Reused(j) == <<"reused", j>>
Created == <<"created">>
Recorded == <<"recorded">>
Attached == <<"attached">>

\* A plan: the policy of a turn that names none, the number of writes, whether
\* failures are raised, whether attempts are counted, whether all its turns are
\* Temporary, and whether its provider is deaf to the events of a turn.
Plan(default, budget, steps, claims) ==
    [default |-> default, budget |-> budget, steps |-> steps, claims |-> claims,
     raises |-> FALSE, counts |-> TRUE, temporary |-> FALSE, deaf |-> FALSE]

\* What every authority gate asks of extension and runtime before it writes.
Governed(more) ==
    Ask(Yes({"characterization", "tab_release", "canonical_readback", "policy_scope",
             "default_policy"} \cup more)
        ++ No({"automatic_retry", "temporary_mode"}))

Surfaces == {"policy_surface", "transport_policy"}

\* The runtime default closes the tab, an override keeps it past the default's
\* time to live, and the default is back on the turn after.
DefaultGate ==
    Plan("IDLE_TTL", 3,
      << Governed(Surfaces \cup {"default_source"}),
         Turn(0, "", {Policy("IDLE_TTL")}), Await(None),
         Turn(1, "PERSISTENT", {Same(1), Policy("PERSISTENT"), Created}), Look(Of(2), TRUE),
         Turn(2, "", {Same(1), Policy("IDLE_TTL"), Reused(2)}), Await(None) >>,
      {<<1, Policy("IDLE_TTL")>>, <<1, <<"gone">>>>, <<2, Policy("PERSISTENT")>>,
       <<3, Policy("IDLE_TTL")>>, <<3, Reused(2)>>, <<3, <<"gone">>>>,
       <<2, Same(1)>>, <<3, Same(1)>>})

\* An override closes the tab, the next turn makes another and keeps it.
TwoWriteGate ==
    Plan("PERSISTENT", 2,
      << Governed(Surfaces),
         Turn(0, "TURN_SCOPED", {Policy("TURN_SCOPED")}), Await(None),
         Turn(1, "", {Same(1), Policy("PERSISTENT"), Created, <<"otherTab", 1>>}),
         Look(Of(2), TRUE) >>,
      {<<1, Policy("TURN_SCOPED")>>, <<1, <<"gone">>>>, <<2, Same(1)>>, <<2, Created>>,
       <<2, Policy("PERSISTENT")>>, <<2, <<"kept">>>>, <<2, <<"otherTab", 1>>>>})

\* Five turns through the write runtime itself, disposals known by their lease.
Characterization ==
    Plan("PERSISTENT", 5,
      << Ask(Yes({"characterization", "resource_sampling", "tab_release"})),
         Turn(0, "PERSISTENT", {}), Turn(1, "PERSISTENT", {}),
         Look(Some, TRUE), Ask(No({"debugger_leak"})),
         Turn(2, "TURN_SCOPED", {}), Disposal(3),
         Turn(3, "PERSISTENT", {Created}),
         Turn(4, "IDLE_TTL", {}), Disposal(5) >>,
      {<<3, <<"gone">>>>, <<5, <<"gone">>>>, <<3, <<"proven">>>>, <<4, Created>>})

\* One cycle of a cold, a warm and a closing turn, the first of them turn k, in the
\* conversation c; seen is what stands between the last two.
Cycle(k, in, c, more, seen) ==
    << Turn(in, "", {Policy("PERSISTENT"), Created} \cup c \cup more),
       Turn(IF in = 0 /\ c # {} THEN 0 ELSE k, "",
            {Policy("PERSISTENT"), Reused(k)} \cup (IF c = {} THEN {Same(k)} ELSE c) \cup more) >>
    \o seen \o
    << Turn(IF in = 0 /\ c # {} THEN 0 ELSE k + 1, "TURN_SCOPED",
            {Policy("TURN_SCOPED"), Reused(k + 1)}
               \cup (IF c = {} THEN {Same(k)} ELSE c) \cup more),
       Await(None), Look(None, TRUE) >>

CycleClaims(k, j) ==
    {<<k, Created>>, <<k + 1, Reused(k)>>, <<k + 2, Reused(k)>>, <<k + 2, <<"gone">>>>}
      \cup {<<i, Same(j)>> : i \in k .. k + 2}

\* Two cycles, each with a sample of the retained tab.
Replication ==
    LET sample(k) == <<Look(Of(k), TRUE), Ask(No({"debugger_leak", "activated"}))>>
    IN Plan("PERSISTENT", 6,
         << Governed(Surfaces \cup {"resource_sampling", "default_source"}), Look(None, TRUE) >>
         \o Cycle(1, 0, {}, {}, sample(2)) \o Cycle(4, 3, {Same(1)}, {}, sample(5))
         \o << Look(None, FALSE) >>,
         CycleClaims(1, 1) \cup CycleClaims(4, 1))

\* Two cycles in a given, completed conversation, a record of the extension asked
\* for by its lease after every turn.
Measured(asks, probe) ==
    Plan("PERSISTENT", 6,
      << Ask(asks), Ask(Yes({"characterization", "tab_release"})), Look(None, TRUE),
         Check(Yes({"conversation_completed"})),
         Check(Yes({"canonical_readback", "default_policy", "policy_scope"})
               ++ No({"automatic_retry", "temporary_mode"})) >>
      \o probe
      \o Cycle(1, 0, {Same(0)}, {Recorded}, <<>>) \o Cycle(4, 0, {Same(0)}, {Recorded}, <<>>)
      \o << Look(None, FALSE) >>,
      CycleClaims(1, 0) \cup CycleClaims(4, 0) \cup {<<i, Recorded>> : i \in 1 .. 6})

PhaseCost == Measured(Yes({"phase_timing"}), <<>>)

\* The same with the model picked in the page.  The picker is first probed in a
\* tab of its own, closed again before the first turn.  The provider of these
\* gates has no parameter for the events a turn reports: every turn fails in it.
InstantProbe(more) ==
    << Ask(Yes({"selected_mode_proven", "probe_tab_closed"} \cup more)
           ++ No({"probe_wrote", "debugger_leak", "activated"})),
       Look(None, FALSE) >>

InstantSupport == {"phase_timing", "instant_mode", "selected_mode_probe"}

InstantLatency ==
    [Measured(Yes(InstantSupport), InstantProbe({"selected_mode_is_instant"}))
       EXCEPT !.deaf = TRUE]

SelectionRepair ==
    [Measured(Yes(InstantSupport \cup {"instant_selection"}), InstantProbe({}))
       EXCEPT !.deaf = TRUE]

\* A failed picker is examined in the tab that was kept, which is closed on request.
Forensics(closing) ==
    Plan("PERSISTENT", 0,
      << Ask(Yes({"forensics", "write_guard", "fenced_close"})),
         Ask(Yes({"characterization", "tab_release", "lease_present"})), Look(Given, TRUE),
         Check(Yes({"conversation_completed"})),
         Look(Given, TRUE), Ask(No({"wrote", "activated", "debugger_leak"})),
         Check(Yes({"conversation_completed"})), Look(Given, FALSE) >>
      \o IF closing THEN << CloseTab, Look(None, FALSE), Check(Yes({"conversation_completed"})) >>
                    ELSE <<>>,
      {<<0, IF closing THEN <<"gone">> ELSE <<"kept">>>>})

\* An image and a file, each in a new chat, and a file in the first of them.
RichInput(n) ==
    LET checks == {Attached}
    IN [Plan("PERSISTENT", 3,
         << Schema(n), Turn(NewChat, "", checks), Turn(NewChat, "", checks),
            Turn(1, "", checks \cup {Same(1)}) >>,
         {<<i, Attached>> : i \in 1 .. 3} \cup {<<3, Same(1)>>}) EXCEPT !.raises = TRUE]

\* Every schema has its gate.
Gate7 == RichInput(7)
Gate8 == RichInput(8)
Gate9 == RichInput(9)
Gate10 == RichInput(10)
Gate11 == RichInput(11)
Gate12 == RichInput(12)
Gate13 == RichInput(13)
Gate14 == RichInput(14)
Gate15 == RichInput(15)
Gate16 == RichInput(16)
Gate17 == RichInput(17)
Gate18 == RichInput(18)
Gate19 == RichInput(19)
Gate20 == RichInput(20)
Gate21 == RichInput(21)
Gate22 == RichInput(22)
Gate23 == RichInput(23)
Gate24 == RichInput(24)
Gate25 == RichInput(25)
Gate26 == RichInput(26)
Gate27 == RichInput(27)
Gate28 == RichInput(28)
Gate29 == RichInput(29)

TemporaryPlan(steps, claims) ==
    [Plan("PERSISTENT", 2, steps, claims) EXCEPT !.raises = TRUE, !.counts = FALSE,
                                                 !.temporary = TRUE]

\* The first gate of Temporary Chat, which continues by conversation id.
TemporaryGate ==
    TemporaryPlan(
      << Turn(NewChat, "", {<<"fresh">>, Recorded}),
         Turn(1, "", {<<"continues">>, Same(1), Recorded}), Check(No({"canonical_record"})),
         EndSession, Check(No({"canonical_record"})), Refused("ended") >>,
      {<<1, <<"fresh">>>>, <<2, <<"continues">>>>, <<2, Same(1)>>, <<0, <<"ended">>>>})

\* Its successor, which continues whatever session lives.
SessionGate ==
    TemporaryPlan(
      << Turn(NewChat, "", {<<"fresh">>, Recorded}),
         Turn(NewChat, "", {<<"continues">>, Same(1), Recorded}),
         Refused("explicit"), EndSession >>,
      {<<1, <<"fresh">>>>, <<2, <<"continues">>>>, <<2, Same(1)>>, <<0, <<"ended">>>>})

\* Two sessions, one after the other.
StartupGate ==
    TemporaryPlan(
      << Turn(NewChat, "", {<<"fresh">>, Recorded}), EndSession,
         Turn(NewChat, "", {<<"fresh">>, <<"apart", 1>>, Recorded}), EndSession >>,
      {<<1, <<"fresh">>>>, <<2, <<"fresh">>>>, <<2, <<"apart", 1>>>>, <<0, <<"ended">>>>})

=============================================================================
