---------------------------- MODULE MCFrontEnds ----------------------------
(* One of three front ends, chosen at the start; the others are not there.   *)
EXTENDS Tui, Gui, Mcp

VARIABLE program

vars == <<tuiVars, guiVars, mcpVars, program>>

Init ==
  /\ TuiInit /\ GuiInit /\ McpInit
  /\ program \in {"tui", "gui", "mcp"}
  /\ program # "tui" => \A h \in Heights : rows <= h
  /\ program # "mcp" => script = << >> /\ stdin = << >>

RunsTui(A) == program = "tui" /\ A /\ UNCHANGED <<guiVars, mcpVars, program>>
RunsGui(A) == program = "gui" /\ A /\ UNCHANGED <<tuiVars, mcpVars, program>>
RunsMcp(A) == program = "mcp" /\ A /\ UNCHANGED <<tuiVars, guiVars, program>>

Next == RunsTui(TuiNext) \/ RunsGui(GuiNext) \/ RunsMcp(McpNext)

Spec ==
  /\ Init /\ [][Next]_vars
  /\ WF_vars(RunsTui(Worker)) /\ WF_vars(RunsTui(Draw \/ Flag \/ Join))
  /\ WF_vars(RunsGui(Searcher)) /\ SF_vars(RunsGui(MustRun))
  /\ SF_vars(RunsGui(FillTable))
  /\ WF_vars(RunsMcp(Server))

\* An invalid regular expression, say.
MCRefused == {<<"x", "x">>}

\* A line of n bytes.
Call == [bytes |-> 2, parses |-> TRUE, object |-> TRUE, id |-> TRUE, method |-> "tools/call", meta |-> "none"]
MCLines ==
  { Call, [Call EXCEPT !.bytes = 1, !.method = "initialize", !.meta = "good"],
    [Call EXCEPT !.id = FALSE], [Call EXCEPT !.method = "notifications/"],
    [Call EXCEPT !.id = FALSE, !.method = "notifications/", !.meta = "bad"],
    [Call EXCEPT !.meta = "bad"], [Call EXCEPT !.method = "other"], [Call EXCEPT !.method = ""],
    [Call EXCEPT !.object = FALSE], [Call EXCEPT !.parses = FALSE],
    [Call EXCEPT !.bytes = 0], [Call EXCEPT !.bytes = 3], [Call EXCEPT !.bytes = 5] }
MCScripts == UNION {[1 .. k -> MCLines] : k \in 0 .. 2}

\* Lines of more than twice the limit.
MCLongScripts == {<< [Call EXCEPT !.bytes = n] >> : n \in 6 .. 7}

TypeOK == TuiTypeOK /\ GuiTypeOK /\ McpTypeOK
============================================================================
