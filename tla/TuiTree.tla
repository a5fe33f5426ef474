------------------------------ MODULE TuiTree ------------------------------
(***************************************************************************)
(* The list of the terminal UI (internal/tui/model.go): rows for groups,   *)
(* agents and their subagents, the row that is selected, and the views of  *)
(* the selected row, which commands load and later messages fill.  Rows    *)
(* are known by the position of the agent's pane in tmux, which moves when *)
(* another pane closes; everything the list remembers is kept by position. *)
(*                                                                         *)
(* A subagent is named by the agent it belongs to.                         *)
(***************************************************************************)
EXTENDS Integers, SequencesExt

CONSTANTS
    Agents,
    Parents,      \* those with a subagent
    Placeholder,  \* the row of an agent that was spawned and has not reported
    Mortal,       \* those that may be left from before a restart of tmux
    Filters,      \* sets of agents that a filter of the palette passes
    Positions,    \* of panes, in the order of windows and panes
    None,
    MaxEvents,    \* bound on keys and changes of the list, beyond a first list of all agents
    MaxLoads      \* bound on the commands a tick leaves unanswered

ASSUME AgentAssumption ==
    /\ Parents \subseteq Agents /\ Placeholder \notin Agents /\ None \notin Agents \cup {Placeholder}
    /\ IsFiniteSet(Agents)
    /\ Positions \subseteq Nat \ {0}
ASSUME BoundAssumption == MaxEvents \in Nat /\ MaxLoads \in Nat

VARIABLES
    agents,     \* listed agent -> its position and group
    rows,       \* the rows as they were built last
    selected,   \* index of the selected row
    searching,  \* the palette is open
    matching,   \* the agents that pass the palette's filter
    folded,     \* groups that are folded
    subagents,  \* position -> the agent whose subagent was found there
    collapsed,  \* position -> whether its subagents are hidden
    dismissed,  \* <<position, subagent>> that the user dismissed
    view,       \* what is shown of the selected row: whose it is
    caches,     \* identity of a row -> what was shown of it
    loads,      \* commands that load a view, not yet answered
    events      \* how many keys were pressed and lists received

vars == <<agents, rows, selected, searching, matching, folded, subagents, collapsed, dismissed, view,
          caches, loads, events>>

Running == 3
Resumable == 7

Header(g) == [agent |-> None, sub |-> None, group |-> g]

Row(a, sub) == [agent |-> a, sub |-> sub, group |-> 0]

NoRow == Header(0)

NoView == [conversation |-> None, plan |-> None, activity |-> None]

Empty == [x \in {} |-> None]

-----------------------------------------------------------------------------
(* Building the rows.                                                      *)

(* agentDisplayOrder: by group, within it by position. *)
DisplaysBefore(list, a, b) ==
    \/ list[a].group < list[b].group
    \/ list[a].group = list[b].group /\ list[a].pos < list[b].pos

(* Two agents left at one position, in one group, are in either order. *)
DisplayOrder(list, S) ==
    CHOOSE order \in SetToSeqs(S) :
        \A i, j \in DOMAIN order : i < j => ~DisplaysBefore(list, order[j], order[i])

(* Subagents of an agent, unless they are collapsed or dismissed. *)
SubRows(a, pos, subs, hide, gone) ==
    IF pos \in DOMAIN subs /\ ~(pos \in DOMAIN hide /\ hide[pos]) /\ <<pos, subs[pos]>> \notin gone
       /\ subs[pos] \in Parents
    THEN <<Row(a, subs[pos])>> ELSE <<>>

buildTree(list, shown, subs, hide, gone) ==
    LET order == DisplayOrder(list, DOMAIN list \cap shown)
        group(i) == list[order[i]].group
        head(i) == IF i = 1 THEN <<Header(group(1))>>
                   ELSE IF group(i - 1) = group(i) THEN <<>> ELSE <<Header(group(i))>>
    IN  FlattenSeq([i \in 1..Len(order) |->
            head(i) \o <<Row(order[i], None)>> \o SubRows(order[i], list[order[i]].pos, subs, hide, gone)])

Everyone == Agents \cup {Placeholder}

Shown == IF searching THEN matching ELSE Everyone

Selected == IF selected <= Len(rows) THEN rows[selected] ELSE NoRow

SelectedAgent == Selected.agent

Identity(list, row) ==
    [pos |-> IF row.agent = None THEN 0 ELSE list[row.agent].pos, sub |-> row.sub, group |-> row.group]

Clamp(i, tree) == IF i > Len(tree) THEN (IF tree = <<>> THEN 1 ELSE Len(tree)) ELSE i

(* Mistake: the index is all that is kept. *)
RestoreIndex(list, tree, id) == Clamp(selected, tree)

(* The first row of the same identity, else what is in its place. *)
restoreSelection(list, tree, id) ==
    LET found == {i \in 1..Len(tree) : Identity(list, tree[i]) = id}
    IN  IF id = Identity(list, NoRow) THEN 1
        ELSE IF found = {} THEN Clamp(selected, tree)
        ELSE CHOOSE i \in found : \A j \in found : i <= j

Hidden(tree, i) ==
    /\ tree[i].agent # None
    /\ agents[tree[i].agent].group \in folded

-----------------------------------------------------------------------------
Fresh ==
    /\ agents = Empty /\ rows = <<>> /\ selected = 1
    /\ subagents = Empty /\ collapsed = Empty /\ caches = Empty /\ events = 0

(* The user has moved down to an agent, unfolded it and moved to its       *)
(* subagent, and nothing that was asked for has come yet.                  *)
InUse(parent, pos) ==
    /\ agents \in [Agents -> [pos : Positions, group : {Running}]]
    /\ \A a, b \in Agents : agents[a].pos = agents[b].pos => a = b
    /\ agents[parent].pos = pos
    /\ subagents = [p \in {pos} |-> parent] /\ collapsed = [p \in {pos} |-> FALSE]
    /\ rows = buildTree(agents, Everyone, subagents, collapsed, {})
    /\ selected \in {i \in 1..Len(rows) : rows[i] = Row(parent, parent)}
    /\ caches = [k \in {Identity(agents, rows[i]) : i \in 1..(selected - 1)} |-> NoView]
    /\ events = 1

Init ==
    /\ Fresh \/ \E parent \in Parents, pos \in Positions : InUse(parent, pos)
    /\ searching = FALSE /\ matching = {} /\ folded = {} /\ dismissed = {}
    /\ view = NoView /\ loads = {}

-----------------------------------------------------------------------------
(* Loading the views.                                                      *)

Load(kind, of) == [kind |-> kind, of |-> of, at |-> Empty]

HasSession(a) == a \in Agents

loadConversation(row) ==
    IF HasSession(row.agent) /\ row.sub = None THEN {Load("conversation", row.agent)} ELSE {}

loadPlan(row) == IF HasSession(row.agent) THEN {Load("plan", row.agent)} ELSE {}

(* A subagent is looked for in the session of the agent it is shown under. *)
loadSubagentActivity(row) ==
    IF HasSession(row.agent) /\ row.sub # None
    THEN {Load("activity", IF row.sub = row.agent THEN row.sub ELSE None)} ELSE {}

loadSelectionData(row) ==
    IF row.sub # None THEN loadSubagentActivity(row) ELSE loadConversation(row) \cup loadPlan(row)

(* The subagents of all agents in one batch; where two agents have one     *)
(* position, after a restart, one of them is kept.                         *)
Batches ==
    LET asked == {a \in DOMAIN agents : HasSession(a)}
        places == {agents[a].pos : a \in asked}
    IN  {m \in [places -> asked] : \A p \in places : agents[m[p]].pos = p}

loadAllSubagents ==
    IF Batches = {Empty} THEN {{}} ELSE {{[Load("subagents", None) EXCEPT !.at = m]} : m \in Batches}

(* The row that is selected next. *)
Next1 == IF selected' <= Len(rows') THEN rows'[selected'] ELSE NoRow

-----------------------------------------------------------------------------
(* Messages.                                                               *)

Event == events < MaxEvents /\ events' = events + 1

Lists ==
    LET Live(list) == {a \in DOMAIN list : list[a].group # Resumable}
    IN  {list \in UNION {[L -> [pos : Positions, group : {Running, Resumable}]] : L \in SUBSET Agents} :
            /\ DOMAIN list \subseteq Live(list) \cup Mortal
            /\ \A a, b \in Live(list) : list[a].pos = list[b].pos => a = b}

At(list, pos) == \E a \in DOMAIN list : list[a].pos = pos

(* stateUpdatedMsg: what is kept for positions without an agent is dropped. *)
StateUpdated(list) ==
    /\ IF agents = Empty /\ DOMAIN list = Agents THEN UNCHANGED events ELSE Event
    /\ agents' = list
    /\ subagents' = [p \in {q \in DOMAIN subagents : At(list, q)} |-> subagents[p]]
    /\ collapsed' = [p \in {q \in DOMAIN collapsed : At(list, q)} |-> collapsed[p]]
    /\ dismissed' = {d \in dismissed : At(list, d[1])}
    /\ caches' = [k \in {i \in DOMAIN caches : At(list, i.pos) /\ <<i.pos, i.sub>> \notin dismissed'}
                    |-> caches[k]]
    /\ rows' = buildTree(list, Shown, subagents', collapsed', dismissed')
    /\ selected' = restoreSelection(list, rows', Identity(agents, Selected))
    /\ loads' = loads \cup loadConversation(Next1) \cup loadPlan(Next1)
    /\ UNCHANGED <<searching, matching, folded, view>>

(* A placeholder row for the agent that was just spawned, where there is none yet. *)
CreateSession(pos) ==
    /\ Event
    /\ Placeholder \notin DOMAIN agents /\ ~At(agents, pos)
    /\ agents' = [a \in DOMAIN agents \cup {Placeholder} |->
                    IF a = Placeholder THEN [pos |-> pos, group |-> Running] ELSE agents[a]]
    /\ rows' = buildTree(agents', Shown, subagents, collapsed, dismissed)
    /\ selected' = restoreSelection(agents', rows', Identity(agents, Selected))
    /\ UNCHANGED <<searching, matching, folded, subagents, collapsed, dismissed, view, caches, loads>>

(* An answer that leaves the palette without rebuilding the rows. *)
ModeStolen ==
    /\ searching
    /\ searching' = FALSE
    /\ UNCHANGED <<agents, rows, selected, matching, folded, subagents, collapsed, dismissed, view, caches,
                   loads, events>>

Unmoved ==
    UNCHANGED <<agents, rows, selected, searching, matching, folded, subagents, collapsed, dismissed,
                caches, events>>

(* Every second the conversation, or the activity of a subagent. *)
Tick ==
    /\ loads' = loads \cup loadConversation(Selected) \cup loadSubagentActivity(Selected)
    /\ Cardinality(loads') <= MaxLoads
    /\ Unmoved /\ UNCHANGED view

(* Mistake: the plan is loaded only when the selection moves. *)
FifthTickWithoutPlan ==
    /\ \E subs \in loadAllSubagents :
          loads' = loads \cup loadConversation(Selected) \cup loadSubagentActivity(Selected) \cup subs
    /\ Cardinality(loads') <= MaxLoads
    /\ Unmoved /\ UNCHANGED view

(* Every five seconds also the plan, and the subagents of all agents. *)
FifthTick ==
    /\ \E subs \in loadAllSubagents :
          loads' = loads \cup loadConversation(Selected) \cup loadSubagentActivity(Selected)
                         \cup loadPlan(Selected) \cup subs
    /\ Cardinality(loads') <= MaxLoads
    /\ Unmoved /\ UNCHANGED view

Answer(l) == l \in loads /\ loads' = loads \ {l}

(* conversationMsg, planMsg and activityMsg are taken for the selected row. *)
ViewLoaded(l) ==
    /\ Answer(l)
    /\ l.kind \in DOMAIN view
    /\ view' = IF l.kind = "activity" /\ Selected.sub = None THEN view ELSE [view EXCEPT ![l.kind] = l.of]
    /\ Unmoved

(* Subagents found for the first time are collapsed. *)
SubagentsLoaded(l) ==
    /\ Answer(l)
    /\ l.kind = "subagents"
    /\ LET places == DOMAIN l.at
       IN  /\ subagents' = [p \in DOMAIN subagents \cup places |-> IF p \in places THEN l.at[p] ELSE subagents[p]]
           /\ collapsed' = [p \in DOMAIN collapsed \cup places |-> IF p \in DOMAIN collapsed THEN collapsed[p] ELSE TRUE]
    /\ rows' = buildTree(agents, Shown, subagents', collapsed', dismissed)
    /\ selected' = restoreSelection(agents, rows', Identity(agents, Selected))
    /\ UNCHANGED <<agents, searching, matching, folded, dismissed, view, caches, events>>

-----------------------------------------------------------------------------
(* Keys.                                                                   *)

Normal == ~searching

(* The views of the row that is left are saved, those of the next restored. *)
SwitchTo(i) ==
    LET saved == IF Identity(agents, Selected) = Identity(agents, NoRow) THEN caches
                 ELSE [k \in DOMAIN caches \cup {Identity(agents, Selected)} |->
                          IF k = Identity(agents, Selected) THEN view ELSE caches[k]]
        id    == Identity(agents, rows[i])
    IN  /\ selected' = i
        /\ caches' = saved
        /\ view' = IF id \in DOMAIN saved THEN saved[id] ELSE NoView

MoveKey(i) ==
    /\ Normal /\ Event
    /\ SwitchTo(i)
    /\ loads' = loads \cup loadSelectionData(rows[i])
    /\ UNCHANGED <<agents, rows, searching, matching, folded, subagents, collapsed, dismissed>>

Visible == {i \in 1..Len(rows) : ~Hidden(rows, i)}

Greatest(S) == CHOOSE i \in S : \A j \in S : j <= i

Least(S) == CHOOSE i \in S : \A j \in S : i <= j

(* k: the nearest visible row above; the first row is a header, always visible. *)
Up == selected \in 2..Len(rows) /\ MoveKey(Greatest({i \in Visible : i < selected}))

(* Mistake: the last row is taken, hidden or not. *)
DownToLast ==
    /\ selected \in 1..(Len(rows) - 1)
    /\ LET below == {i \in Visible : i > selected}
       IN  MoveKey(IF below # {} THEN Least(below) ELSE Len(rows))

(* j: the nearest visible row below, or back to the last visible one. *)
Down ==
    /\ selected \in 1..(Len(rows) - 1)
    /\ LET below == {i \in Visible : i > selected}
       IN  MoveKey(IF below # {} THEN Least(below) ELSE Greatest(Visible))

(* shift+up and shift+down: the next header or agent. *)
nextParentIndex ==
    LET stops == {i \in Visible : rows[i].sub = None}
        above == {i \in stops : i < selected}
        below == {i \in stops : i > selected}
    IN  (IF above = {} THEN {} ELSE {Greatest(above)}) \cup (IF below = {} THEN {} ELSE {Least(below)})

MoveParent == \E i \in nextParentIndex : MoveKey(i)

(* c: show or hide the subagents of an agent. *)
ToggleSubagents ==
    /\ Normal /\ Event
    /\ SelectedAgent # None
    /\ LET p == agents[SelectedAgent].pos
       IN  collapsed' = [q \in DOMAIN collapsed \cup {p} |->
                            IF q # p THEN collapsed[q] ELSE IF p \in DOMAIN collapsed THEN ~collapsed[p] ELSE TRUE]
    /\ rows' = buildTree(agents, Everyone, subagents, collapsed', dismissed)
    /\ selected' = Clamp(selected, rows')
    /\ UNCHANGED <<agents, searching, matching, folded, subagents, dismissed, view, caches, loads>>

(* C: fold or unfold the group; the selection moves up to its header. *)
ToggleGroup ==
    /\ Normal /\ Event
    /\ Selected # NoRow
    /\ LET g == IF SelectedAgent = None THEN Selected.group ELSE agents[SelectedAgent].group
           headers == {i \in 1..(selected - 1) : rows[i].group = g}
       IN  /\ folded' = IF g \in folded THEN folded \ {g} ELSE folded \cup {g}
           /\ IF g \notin folded /\ SelectedAgent # None /\ headers # {}
              THEN SwitchTo(Greatest(headers))
              ELSE UNCHANGED <<selected, view, caches>>
    /\ loads' = loads \cup loadSelectionData(rows[selected'])
    /\ UNCHANGED <<agents, rows, searching, matching, subagents, collapsed, dismissed>>

(* x on a subagent: its row goes. *)
DismissSubagent ==
    /\ Normal /\ Event
    /\ Selected.sub # None
    /\ dismissed' = dismissed \cup {<<agents[SelectedAgent].pos, Selected.sub>>}
    /\ rows' = buildTree(agents, Everyone, subagents, collapsed, dismissed')
    /\ selected' = Clamp(selected, rows')
    /\ loads' = loads \cup loadSelectionData(Next1)
    /\ UNCHANGED <<agents, searching, matching, folded, subagents, collapsed, view, caches>>

AgentRows(tree) == {i \in 1..Len(tree) : tree[i].agent # None /\ tree[i].sub = None}

selectFirstResult(tree) == IF AgentRows(tree) = {} THEN 1 ELSE Least(AgentRows(tree))

(* The palette opens, or its filter changes: the first match is selected. *)
Filter(match) ==
    /\ searching \/ match = Everyone
    /\ Event
    /\ searching' = TRUE
    /\ matching' = match
    /\ rows' = buildTree(agents, match, subagents, collapsed, dismissed)
    /\ selected' = selectFirstResult(rows')
    /\ loads' = loads \cup (IF searching THEN loadSelectionData(Next1) ELSE {})
    /\ UNCHANGED <<agents, folded, subagents, collapsed, dismissed, view, caches>>

moveSearchSelection ==
    LET above == {i \in AgentRows(rows) : i < selected}
        below == {i \in AgentRows(rows) : i > selected}
    IN  (IF above = {} THEN {} ELSE {Greatest(above)}) \cup (IF below = {} THEN {} ELSE {Least(below)})

(* Neither here nor in Filter are views saved or restored. *)
SearchMove ==
    /\ searching /\ Event
    /\ \E i \in moveSearchSelection :
          selected' = i /\ loads' = loads \cup loadSelectionData(rows[i])
    /\ UNCHANGED <<agents, rows, searching, matching, folded, subagents, collapsed, dismissed, view, caches>>

(* Escape loads what is selected now; Enter goes on elsewhere. *)
closeSearch ==
    /\ searching
    /\ searching' = FALSE /\ matching' = {}
    /\ rows' = buildTree(agents, Everyone, subagents, collapsed, dismissed)
    /\ selected' = Clamp(selected, rows')
    /\ loads' \in {loads, loads \cup loadSelectionData(Next1)}
    /\ UNCHANGED <<agents, folded, subagents, collapsed, dismissed, view, caches, events>>

-----------------------------------------------------------------------------
Keys ==
    \/ Up \/ Down \/ MoveParent \/ ToggleSubagents \/ ToggleGroup \/ DismissSubagent
    \/ (\E match \in Filters \cup {Everyone} : Filter(match))
    \/ SearchMove \/ closeSearch

Loaded(kind, of) ==
    \E l \in loads : l.kind = kind /\ l.of = of /\ (ViewLoaded(l) \/ SubagentsLoaded(l))

Kinds == DOMAIN NoView \cup {"subagents"}

Next ==
    \/ Keys \/ Tick \/ FifthTick \/ ModeStolen
    \/ \E list \in Lists : StateUpdated(list)
    \/ \E kind \in Kinds, of \in Agents \cup {None} : Loaded(kind, of)
    \/ \E pos \in Positions : CreateSession(pos)

(* The clock ticks, and every command that loads something answers. *)
Fairness ==
    /\ WF_vars(Tick) /\ WF_vars(FifthTick)
    /\ \A kind \in Kinds, of \in Agents \cup {None} : WF_vars(Loaded(kind, of))

Spec == Init /\ [][Next]_vars /\ Fairness

-----------------------------------------------------------------------------
Alone(list, a) == \A b \in DOMAIN list \ {a} : list[b].pos # list[a].pos

(* Lists, batches of subagents and placeholders arrive at any moment, and  *)
(* rebuild the rows under the user's hands.  The agent that is selected    *)
(* stays selected as long as it is shown, its pane keeps its position and  *)
(* shares it with no other: the next key acts on the agent the user chose. *)
(* (When the pane moves, the selection goes to whoever took its position.) *)
SelectionFollowsAgent ==
    [][\A a \in DOMAIN agents \cap DOMAIN agents' :
          (/\ <<agents', subagents'>> # <<agents, subagents>>
           /\ Selected = Row(a, None)
           /\ agents'[a].pos = agents[a].pos /\ Alone(agents, a) /\ Alone(agents', a)
           /\ \E i \in 1..Len(rows') : rows'[i] = Row(a, None))
          => Selected' = Row(a, None)]_vars

(* Keys that move the selection over the list never leave it on a row of a *)
(* folded group, which is not drawn: after any lists, folds, subagents and *)
(* a palette that an answer closed under the user.                         *)
MoveLandsVisible ==
    [][Keys /\ Normal /\ Normal' /\ rows' = rows /\ selected' # selected => ~Hidden(rows, selected)']_vars

(* Answers carry no name, so one that was asked for the row before fills   *)
(* the view of this one.  Once the user stays on an agent, the view comes  *)
(* to show its conversation and its plan, and keeps showing them.          *)
ViewSettles ==
    \A a \in Agents :
        <>[](Selected = Row(a, None)) => <>[](view.conversation = a /\ view.plan = a)
=============================================================================
