----------------------------- MODULE MCStreamTurn -----------------------------
(* TLC instance of StreamTurn: a commentary and an answer, marked or not; a    *)
(* turn of text with tool activities, or one of sources, of connectors, of     *)
(* required actions, or of activity texts and artifacts.                       *)
EXTENDS StreamTurn, TLC

CONSTANTS c, f, k1, k2, op, u1, u2, s1, s2

MCMessages == {c, f}
MCFinal == f

Marked(x, y) == (c :> x) @@ (f :> y)
MCChannel == {Marked("commentary", "final"), Marked("commentary", None),
              Marked(None, "final"), Marked(None, None)}

Tool == [kind |-> "activity", id |-> "t", phase |-> "started", tool |-> TRUE,
         private |-> FALSE, delta |-> FALSE, body |-> <<>>]
Thought(p, private, body) ==
    [kind |-> "activity", id |-> "a", phase |-> p, tool |-> FALSE,
     private |-> private, delta |-> TRUE, body |-> body]
Source(id, url) == [kind |-> "source", id |-> id, url |-> url]
Citation(id, range) == [kind |-> "citation", source |-> id, range |-> range]
Connector(p, connector, operation) ==
    [kind |-> "connector", id |-> "k", phase |-> p, connector |-> connector,
     operation |-> operation]
Action(p, activity, connector) ==
    [kind |-> "action", id |-> "r", phase |-> p, type |-> "approve",
     activity |-> activity, connector |-> connector]
Surface(controls, action) ==
    [kind |-> "surface", controls |-> controls, action |-> action]

Artifact(shape, locator, malformed) ==
    [kind |-> "artifact", shape |-> shape, locator |-> locator,
     malformed |-> malformed]

ProductMenus ==
    {{Source(s1, u1), Source(s2, u2), Citation(s1, 1), Citation(s1, 2),
      Citation(s2, 1)},
     {Connector("started", None, op), Connector("started", k1, None),
      Connector("updated", k2, None), Connector("completed", k1, op),
      Connector("failed", None, None)},
     {Action("started", None, k1), Action("updated", "k", k2),
      Action("completed", "k", None), Action("failed", None, None),
      Surface(TRUE, None), Surface(TRUE, "r")},
     {Thought("started", FALSE, <<>>), Thought("updated", FALSE, <<"t">>),
      Thought("updated", TRUE, <<"p">>), Thought("completed", FALSE, <<>>),
      Artifact(FALSE, FALSE, FALSE), Artifact(FALSE, TRUE, FALSE),
      Artifact(FALSE, FALSE, TRUE), Artifact(TRUE, FALSE, FALSE),
      Thought("completed", TRUE, <<>>)}}

MCReferences ==
    {<<>>, <<<<u1, 1>>>>, <<<<u1, 1>>, <<u2, 1>>, <<u1, 1>>>>}

MCPlans ==
    [mark : MCChannel, menu : {{Tool}}, refs : {<<>>}, finalOnly : {TRUE},
     events : {1}, pieces : {4}]
    \cup
    [mark : {Marked("commentary", "final")}, menu : {{Tool}}, refs : {<<>>},
     finalOnly : {FALSE}, events : {1}, pieces : {4}]
    \cup
    [mark : {Marked(None, None)}, menu : ProductMenus, refs : MCReferences,
     finalOnly : {TRUE}, events : {4}, pieces : {0}]

=============================================================================
