----------------------------- MODULE TemporaryTab -----------------------------
(***************************************************************************)
(* The extension's half of Temporary Chat                                  *)
(* (service_worker_temporary_chat_production_pr8_13.js): one lifecycle     *)
(* at most, kept in the worker's memory, a tab it owns, and the page's     *)
(* own write, paused before it leaves the browser and let go only if it    *)
(* is a temporary write into the conversation the turn names.              *)
(*                                                                         *)
(* Call n of the runtime makes at most one request, n; the lifecycle it    *)
(* opens has token n, and the conversation its write opens has id n.       *)
(***************************************************************************)
EXTENDS Integers, FiniteSets, Sequences

CONSTANTS
  MaxCalls, MaxTabs,
  MaxRestarts,   \* how often the worker may die
  MaxTouches     \* how often the user may close or use a tab

ASSUME TabAssumption ==
  {MaxCalls, MaxTabs, MaxRestarts, MaxTouches} \subseteq Nat

VARIABLES
  turn,       \* what the worker executes: <<>> or one record
  live,       \* _pr813LiveTemporaryLifecycle: <<>> or one record
  stored,     \* the tab id in the extension's storage
  sweep,      \* a removal listener is about to clear it
  tabs,       \* the Temporary tabs the extension created
  log,        \* the writes that reached the server
  bridge,     \* the requests whose bridge connection is open
  reply,      \* the results that reached it
  over,       \* history: the lifecycles that have ended
  restarts, touches

tabVars ==
  <<turn, live, stored, sweep, tabs, log, bridge, reply, over, restarts, touches>>

-----------------------------------------------------------------------------

RuntimeCalls == 1..MaxCalls

Tokens == RuntimeCalls \cup {0}

\* A conversation a caller names in an ordinary turn.
Other == MaxCalls + 1

Conversations == RuntimeCalls \cup {0, Other}

TabIds == 1..MaxTabs

\* What a turn asks of the page beside the text: 0 or the call it is from.
Demands == [profile : Tokens, media : Tokens, policy : BOOLEAN]

Messages ==
  [call : RuntimeCalls, op : {"temporary", "end", "normal"}, token : Tokens,
   conversation : Conversations, demands : Demands]

TurnPCs == {"start", "create", "store", "load", "run", "wait", "proved",
            "finish", "failing", "detached"}

Pages == [open : BOOLEAN, temporary : BOOLEAN, conversation : Conversations]

Turn(message) ==
  [message |-> message, pc |-> "start", tab |-> 0, clicked |-> FALSE,
   paused |-> <<>>, sent |-> FALSE, proof |-> FALSE]

Now == turn[1]

At(pc) == turn # <<>> /\ Now.pc = pc /\ Now.message.op = "temporary"

Go(pc) == turn' = <<[Now EXCEPT !.pc = pc]>>

Fresh == Now.message.conversation = 0

PageOpen(tab) == tab \in DOMAIN tabs /\ tabs[tab].open

Close(tab) ==
  tabs' = IF tab \in DOMAIN tabs THEN [tabs EXCEPT ![tab].open = FALSE] ELSE tabs

\* The request a page sends, and whether the worker let it go or lost it.
Written(message, tab, request, loose) ==
  [call |-> message.call, op |-> message.op, token |-> message.token,
   asked |-> message.conversation, demands |-> message.demands, tab |-> tab,
   temporary |-> request.temporary, conversation |-> request.conversation,
   loose |-> loose]

Request(tab) ==
  [temporary |-> tabs[tab].temporary, conversation |-> tabs[tab].conversation]

Return(ok, conversation, status) ==
  /\ reply' = reply \cup {r \in {[call |-> Now.message.call, ok |-> ok,
                                   conversation |-> conversation, status |-> status]} :
                              r.call \in bridge}
  /\ turn' = <<>>

Fails == Return(FALSE, 0, FALSE)

EndLive == /\ live' = <<>>
           /\ over' = over \cup {live[k].token : k \in DOMAIN live}

TabInit ==
  /\ turn = <<>> /\ live = <<>> /\ stored = 0 /\ sweep = FALSE /\ tabs = <<>>
  /\ log = {} /\ bridge = {} /\ reply = {} /\ over = {} /\ restarts = 0 /\ touches = 0

Receive(message) ==
  /\ turn = <<>>
  /\ turn' = <<Turn(message)>>
  /\ bridge' = bridge \cup {message.call}
  /\ UNCHANGED <<live, stored, sweep, tabs, log, reply, over, restarts, touches>>

\* The runtime has its result, or no longer waits for one.
Disconnect(call) ==
  /\ bridge' = bridge \ {call}
  /\ reply' = {r \in reply : r.call # call}
  /\ UNCHANGED <<turn, live, stored, sweep, tabs, log, over, restarts, touches>>

-----------------------------------------------------------------------------
(* _pr813EndTemporaryLifecycle                                             *)

IsLive(token) == live # <<>> /\ live[1].token = token

EndLifecycle ==
  /\ turn # <<>> /\ Now.message.op = "end"
  /\ IF IsLive(Now.message.token)
     THEN /\ EndLive
          /\ Close(live[1].tab)
          /\ stored' = IF stored = live[1].tab THEN 0 ELSE stored
          /\ Return(TRUE, live[1].conversation, TRUE)
     ELSE /\ Fails
          /\ UNCHANGED <<live, over, tabs, stored>>
  /\ UNCHANGED <<sweep, log, bridge, restarts, touches>>

-----------------------------------------------------------------------------
(* _pr813ExecuteTemporaryTurn: the tab                                     *)

\* A fresh lifecycle retires the tab of the one before, which only the
\* storage may still know of.
Retire ==
  /\ At("start") /\ Fresh
  /\ EndLive
  /\ Close(IF live # <<>> THEN live[1].tab ELSE stored)
  /\ stored' = 0
  /\ Go("create")
  /\ UNCHANGED <<sweep, log, bridge, reply, restarts, touches>>

\* The page may come up in either mode.
Create ==
  /\ At("create") /\ Len(tabs) < MaxTabs
  /\ \E temporary \in BOOLEAN :
       tabs' = Append(tabs, [open |-> TRUE, temporary |-> temporary,
                             conversation |-> 0])
  /\ turn' = <<[Now EXCEPT !.pc = "store", !.tab = Len(tabs) + 1]>>
  /\ UNCHANGED <<live, stored, sweep, log, bridge, reply, over, restarts, touches>>

Store ==
  /\ At("store")
  /\ stored' = Now.tab
  /\ Go("load")
  /\ UNCHANGED <<live, sweep, tabs, log, bridge, reply, over, restarts, touches>>

Load ==
  /\ At("load") /\ PageOpen(Now.tab)
  /\ live' = <<[token |-> Now.message.token, tab |-> Now.tab, conversation |-> 0]>>
  /\ Go("run")
  /\ UNCHANGED <<stored, sweep, tabs, log, bridge, reply, over, restarts, touches>>

LoadFails ==
  /\ At("load")
  /\ Fails
  /\ UNCHANGED <<live, stored, sweep, tabs, log, bridge, over, restarts, touches>>

Continuable ==
  /\ IsLive(Now.message.token)
  /\ live[1].conversation = Now.message.conversation

Resume ==
  /\ At("start") /\ ~Fresh /\ Continuable /\ PageOpen(live[1].tab)
  /\ turn' = <<[Now EXCEPT !.pc = "run", !.tab = live[1].tab]>>
  /\ UNCHANGED <<live, stored, sweep, tabs, log, bridge, reply, over, restarts, touches>>

\* Thrown before the turn's own try: nothing is cleaned up.
RefuseContinuation ==
  /\ At("start") /\ ~Fresh /\ ~(Continuable /\ PageOpen(live[1].tab))
  /\ Fails
  /\ UNCHANGED <<live, stored, sweep, tabs, log, bridge, over, restarts, touches>>

-----------------------------------------------------------------------------
(* The write                                                               *)

\* Interception is on before the page's button is pressed.
Click ==
  /\ At("run") /\ PageOpen(Now.tab)
  /\ turn' = <<[Now EXCEPT !.pc = "wait", !.clicked = TRUE]>>
  /\ UNCHANGED <<live, stored, sweep, tabs, log, bridge, reply, over, restarts, touches>>

\* The page may not be ready, or not take the text or the demands.
RunFails ==
  /\ At("run")
  /\ Go("failing")
  /\ UNCHANGED <<live, stored, sweep, tabs, log, bridge, reply, over, restarts, touches>>

PageSends ==
  /\ At("wait") \/ At("failing")
  /\ Now.clicked /\ PageOpen(Now.tab)
  /\ turn' = <<[Now EXCEPT !.clicked = FALSE, !.paused = <<Request(Now.tab)>>]>>
  /\ UNCHANGED <<live, stored, sweep, tabs, log, bridge, reply, over, restarts, touches>>

\* Mutant: the request's conversation is not compared.
ProvenByMode(request) == request.temporary

Proven(request) ==
  /\ request.temporary
  /\ request.conversation = Now.message.conversation

\* The request is continued; that it was is known a moment later.
LetGo ==
  /\ At("wait") \/ At("failing")
  /\ Now.paused # <<>> /\ Proven(Now.paused[1]) /\ PageOpen(Now.tab)
  /\ log' = log \cup {Written(Now.message, Now.tab, Now.paused[1], FALSE)}
  /\ turn' = <<[Now EXCEPT !.paused = <<>>, !.sent = TRUE]>>
  /\ UNCHANGED <<live, stored, sweep, tabs, bridge, reply, over, restarts, touches>>

Abort ==
  /\ At("wait") \/ At("failing")
  /\ Now.paused # <<>> /\ ~Proven(Now.paused[1])
  /\ turn' = <<[Now EXCEPT !.paused = <<>>, !.pc = "failing"]>>
  /\ UNCHANGED <<live, stored, sweep, tabs, log, bridge, reply, over, restarts, touches>>

Prove ==
  /\ At("wait") \/ At("failing")
  /\ Now.sent /\ ~Now.proof
  /\ turn' = <<[Now EXCEPT !.proof = TRUE,
                           !.pc = IF @ = "wait" THEN "proved" ELSE @]>>
  /\ UNCHANGED <<live, stored, sweep, tabs, log, bridge, reply, over, restarts, touches>>

\* No proof in time, or the answer to the command that continues it is lost.
ProofFails ==
  /\ At("wait") /\ ~Now.proof
  /\ Go("failing")
  /\ UNCHANGED <<live, stored, sweep, tabs, log, bridge, reply, over, restarts, touches>>

Opened == IF Fresh THEN Now.message.call ELSE Now.message.conversation

Answer ==
  /\ At("proved") /\ PageOpen(Now.tab)
  /\ tabs' = [tabs EXCEPT ![Now.tab].conversation = Opened]
  /\ Go("finish")
  /\ UNCHANGED <<live, stored, sweep, log, bridge, reply, over, restarts, touches>>

\* No answer, no id, another id, or a tab that is gone.
AnswerFails ==
  /\ At("proved")
  /\ Go("failing")
  /\ UNCHANGED <<live, stored, sweep, tabs, log, bridge, reply, over, restarts, touches>>

\* The status may still be an error's.
Finish ==
  /\ At("finish")
  /\ IF IsLive(Now.message.token)
     THEN /\ live' = <<[live[1] EXCEPT !.conversation = Opened]>>
          /\ \E status \in BOOLEAN : Return(TRUE, Opened, status)
     ELSE /\ Go("failing")
          /\ UNCHANGED <<live, reply>>
  /\ UNCHANGED <<stored, sweep, tabs, log, bridge, over, restarts, touches>>

-----------------------------------------------------------------------------
(* A turn that fails                                                       *)

\* What the page was made to send goes out unseen, or not at all.
Loose(out) ==
  LET request == IF Now.paused # <<>> THEN Now.paused[1] ELSE Request(Now.tab)
  IN log' = IF out THEN log \cup {Written(Now.message, Now.tab, request, TRUE)}
                   ELSE log

MayEscape ==
  /\ Now.message.op = "temporary"
  /\ Now.clicked \/ Now.paused # <<>>
  /\ PageOpen(Now.tab)

\* The debugger goes, and the interception with it, before the tab.
Detach ==
  /\ At("failing")
  /\ \E out \in {FALSE, MayEscape} : Loose(out)
  /\ turn' = <<[Now EXCEPT !.pc = "detached", !.clicked = FALSE, !.paused = <<>>]>>
  /\ UNCHANGED <<live, stored, sweep, tabs, bridge, reply, over, restarts, touches>>

Catch ==
  /\ At("detached")
  /\ IF IsLive(Now.message.token) THEN EndLive ELSE UNCHANGED <<live, over>>
  /\ IF Now.proof
     THEN UNCHANGED <<tabs, stored>>
     ELSE Close(Now.tab) /\ stored' = IF stored = Now.tab THEN 0 ELSE stored
  /\ Fails
  /\ UNCHANGED <<sweep, log, bridge, restarts, touches>>

-----------------------------------------------------------------------------
(* Ordinary turns, the user and the browser                                *)

\* An ordinary turn writes in a tab of its own (WriteRuntime, Broker).
NormalTurn ==
  /\ turn # <<>> /\ Now.message.op = "normal"
  /\ \E out \in BOOLEAN, ok \in BOOLEAN :
       /\ ok => out
       /\ log' = IF ~out THEN log ELSE
                 log \cup {Written(Now.message, 0, [temporary |-> FALSE,
                              conversation |-> Now.message.conversation], FALSE)}
       /\ Return(ok, IF Fresh THEN Now.message.call ELSE Now.message.conversation, ok)
  /\ UNCHANGED <<live, stored, sweep, tabs, bridge, over, restarts, touches>>

\* chrome.tabs.onRemoved: the lifecycle goes at once, the stored id later.
UserCloses(tab) ==
  /\ PageOpen(tab) /\ touches < MaxTouches
  /\ touches' = touches + 1
  /\ Close(tab)
  /\ IF live # <<>> /\ live[1].tab = tab THEN EndLive ELSE UNCHANGED <<live, over>>
  /\ sweep' = (sweep \/ stored = tab)
  /\ UNCHANGED <<turn, stored, log, bridge, reply, restarts>>

Sweep ==
  /\ sweep
  /\ sweep' = FALSE /\ stored' = 0
  /\ UNCHANGED <<turn, live, tabs, log, bridge, reply, over, restarts, touches>>

\* The user leaves the mode, or goes to another conversation, in the tab.
UserNavigates(tab) ==
  /\ PageOpen(tab) /\ touches < MaxTouches
  /\ touches' = touches + 1
  /\ \E temporary \in BOOLEAN, c \in {0, Other} :
       tabs' = [tabs EXCEPT ![tab].temporary = temporary, ![tab].conversation = c]
  /\ UNCHANGED <<turn, live, stored, sweep, log, bridge, reply, over, restarts>>

\* Mutant: the lifecycle is restored with the stored tab.
RestartWithLifecycle ==
  /\ restarts < MaxRestarts
  /\ restarts' = restarts + 1
  /\ over' = over \cup {live[k].token : k \in DOMAIN live}
  /\ IF turn = <<>> THEN UNCHANGED log ELSE \E out \in {FALSE, MayEscape} : Loose(out)
  /\ turn' = <<>> /\ sweep' = FALSE
  /\ UNCHANGED <<live, stored, tabs, bridge, reply, touches>>

\* Only the stored tab id survives the worker.
Restart ==
  /\ restarts < MaxRestarts
  /\ restarts' = restarts + 1
  /\ EndLive
  /\ IF turn = <<>> THEN UNCHANGED log ELSE \E out \in {FALSE, MayEscape} : Loose(out)
  /\ turn' = <<>> /\ sweep' = FALSE
  /\ UNCHANGED <<stored, tabs, bridge, reply, touches>>

TabStep ==
  \/ EndLifecycle \/ Retire \/ Create \/ Store \/ Load \/ LoadFails \/ Resume
  \/ RefuseContinuation \/ Click \/ RunFails \/ PageSends \/ LetGo \/ Abort
  \/ Prove \/ ProofFails \/ Answer \/ AnswerFails \/ Finish \/ Detach \/ Catch
  \/ NormalTurn \/ Sweep

Outside ==
  \/ Restart
  \/ \E tab \in TabIds : UserCloses(tab) \/ UserNavigates(tab)
=============================================================================
