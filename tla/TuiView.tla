------------------------------ MODULE TuiView ------------------------------
(***************************************************************************)
(* What the terminal UI draws (internal/tui/view.go) and where: the rows   *)
(* of the list, and the header and the three viewports of the right panel, *)
(* as heights and offsets.  The heights are kept by the reducer, which     *)
(* estimates the header (model.go resizeViewports, updateRightContent),    *)
(* and computed again when the panel is drawn (renderRightPanel); keys and *)
(* the mouse work on the former, the user sees the latter.                 *)
(*                                                                         *)
(* Text is its number of rows.  A viewport's offset and height behave as   *)
(* the library's (bubbles), which is external.  The quote of the banner    *)
(* comes after the first size and lowers the panels without a new one.     *)
(***************************************************************************)
EXTENDS Integers, Sequences

CONSTANTS
    None,
    Heights,    \* of the panels: the terminal's less the banner, borders and help
    QuoteRows,  \* by which the quote may make the banner higher
    PetHeight,  \* 0 without the pet
    GameHeight,
    Trees,      \* lists of rows: kind, agent, hidden in a folded group
    Looks,      \* what is known of an agent: state, and rows of each text
    Agents,
    MaxEvents   \* bound on keys and messages

Nodes == [kind : {"group", "agent", "sub"}, agent : Agents \cup {None}, hidden : BOOLEAN]

Known ==
    [state : STRING, branch : Nat, dir : Nat, cost : Nat, subs : Nat, plan : Nat, diagrams : Nat,
     said : Nat, files : Nat, folds : Nat]

(* A row of a group, which is always drawn, has no agent. *)
Drawable ==
    /\ None \notin Agents
    /\ Heights \subseteq Nat \ {0} /\ QuoteRows \subseteq Nat \ {0} /\ PetHeight \in Nat /\ GameHeight \in Nat
    /\ Trees \subseteq Seq(Nodes)
    /\ \A t \in Trees : \A i \in DOMAIN t :
           /\ (t[i].kind = "group") <=> (t[i].agent = None)
           /\ t[i].kind = "group" => ~t[i].hidden
    /\ Looks \subseteq Known

VARIABLES
    m,      \* the model of the reducer
    events

vars == <<m, events>>

-----------------------------------------------------------------------------
(* A viewport.                                                              *)

Least(a, b) == IF a < b THEN a ELSE b

Most(a, b) == IF a > b THEN a ELSE b

SetYOffset(v, n) == [v EXCEPT !.off = Most(0, Least(n, v.total - v.h))]

SetContent(v, n) == SetYOffset([v EXCEPT !.total = n], v.off)

SetHeight(v, n) == [v EXCEPT !.h = n]

GotoTop(v) == SetYOffset(v, 0)

GotoBottom(v) == SetYOffset(v, v.total)

-----------------------------------------------------------------------------
(* The right panel.                                                         *)

defaultHeaderLines == 9

(* Three labels and two blank lines. *)
sectionGaps == 5

panelHeights(p, header) ==
    LET room == p - header - sectionGaps
        f == Most((room * 15) \div 100, 3)
        h == Most((room * 30) \div 100, 5)
    IN  IF room < 3 + 5 + 5 THEN [files |-> 3, history |-> 5, message |-> 5]
        ELSE [files |-> f, history |-> h, message |-> Most(room - f - h, 5)]

NoNode == [kind |-> "none", agent |-> None, hidden |-> FALSE]

(* selectedAgent and selectedSubagent: a row of a group has neither. *)
Shown(u) == IF u.selected \in DOMAIN u.tree THEN u.tree[u.selected] ELSE NoNode

Look(u) == u.look[Shown(u).agent]

IsAgent(u) == Shown(u).kind = "agent"

isBlocked(state) == state \in {"permission", "plan"}

isWaiting(state) == state \in {"question", "error"}

ShowsFinal(state) == state \in {"done", "idle_prompt", "pr", "merged"}

(* In reply mode the last line is the input, whatever the agent has said. *)
waitingMessageContent(u) ==
    IF Look(u).said > 0 THEN Look(u).said + 2 ELSE IF u.mode = "reply" THEN 3 ELSE 1

ShowsDiagrams(u) == u.diagrams /\ IsAgent(u) /\ Look(u).diagrams > 0

ShowsPlan(u) == u.plan /\ IsAgent(u) /\ Look(u).plan > 0

MessageContent(u) ==
    CASE ShowsDiagrams(u) /\ u.mode # "reply" -> Look(u).diagrams
      [] ~ShowsDiagrams(u) /\ ShowsPlan(u) /\ u.mode # "reply" -> Look(u).plan
      [] u.mode = "reply" -> waitingMessageContent(u)
      [] OTHER -> IF isBlocked(Look(u).state) \/ isWaiting(Look(u).state) THEN waitingMessageContent(u)
                  ELSE IF ShowsFinal(Look(u).state) THEN Look(u).said ELSE u.captured

(* The rows of the wizard and of the usage view. *)
Wizard == 14
Usage == 30

Fill(u, f, h, c) ==
    [u EXCEPT !.files = SetContent(@, f), !.history = SetContent(@, h), !.message = SetContent(@, c)]

(* By the default header, and before a plan opens by itself. *)
MessageHeight(u) ==
    IF u.mode = "create" \/ ShowsPlan(u) \/ ShowsDiagrams(u) THEN Most(u.height - defaultHeaderLines - 1, 5)
    ELSE panelHeights(u.height, defaultHeaderLines).message

(* The plan of an agent in review opens, but not over a reply. *)
updateRightContent(u) ==
    LET v == [u EXCEPT !.message = SetHeight(@, MessageHeight(u))]
        w == [v EXCEPT !.plan = @ \/ (Look(u).state = "plan" /\ Look(u).plan > 0 /\ u.mode # "reply")]
    IN  CASE u.mode = "create" -> Fill(v, 0, 0, Wizard)
          [] u.mode = "usage" -> Fill(v, 0, 0, Usage)
          [] u.mode \notin {"create", "usage"} /\ Shown(u).agent = None -> Fill(v, 0, 0, 1)
          [] u.mode \notin {"create", "usage"} /\ Shown(u).kind = "sub" -> Fill(v, Look(u).files, Look(u).said, Look(u).said)
          [] OTHER -> Fill(w, Look(u).files, Look(u).said, MessageContent(w))

(* Title, state, branch, directory, cost and subagents, and blank lines. *)
Header(u) ==
    IF Shown(u).kind = "sub" THEN 4 ELSE 6 + Look(u).branch + Look(u).dir + Look(u).cost + Look(u).subs

Whole(h) == [files |-> 0, history |-> 0, message |-> h]

(* The heights the panel is drawn with: without an agent's header, ... *)
RenderPlain(u) == IF u.mode = "usage" THEN Whole(Most(u.height - 2, 3)) ELSE Whole(u.message.h)

(* ... and with one. *)
renderRightPanel(u) ==
    IF u.mode \in {"usage", "create"} \/ Shown(u).agent = None THEN RenderPlain(u)
    ELSE IF ShowsPlan(u) \/ ShowsDiagrams(u) THEN Whole(Most(u.height - Header(u) - 1, 5))
    ELSE panelHeights(u.height, Header(u))

(* Where the labels of History and of the message are drawn, and where the  *)
(* mouse takes them to be; the panel's first row is 0.                      *)
DrawnStart(u) ==
    LET d == renderRightPanel(u)
    IN  [history |-> Header(u) + d.files + 2, message |-> Header(u) + d.files + d.history + 4]

MouseStart(u) ==
    [files |-> defaultHeaderLines, history |-> defaultHeaderLines + u.files.h + 2,
     message |-> defaultHeaderLines + u.files.h + u.history.h + 4]

mouseOver(u, start, v) == u.mouse \in start..(start + v.h - 1)

-----------------------------------------------------------------------------
(* The list.                                                                *)

(* A blank line goes before every group but the first. *)
GroupLines(i) == IF i = 1 THEN 1 ELSE 2

(* Title, branch and badges, and a hint when its subagents are hidden. *)
AgentLines(l) == 2 + l.branch + l.folds

RowLines(u, i) ==
    LET n == u.tree[i]
    IN  IF n.kind = "group" THEN GroupLines(i)
        ELSE IF n.hidden THEN 0
        ELSE IF n.kind = "sub" THEN 1
        ELSE AgentLines(u.look[n.agent])

SearchLines(u) == IF u.mode = "search" THEN 3 ELSE 0

LinesBefore(u, i) ==
    LET before[j \in 1..(Len(u.tree) + 1)] ==
            IF j = 1 THEN SearchLines(u) ELSE before[j - 1] + RowLines(u, j - 1)
    IN  before[i]

selectedLine(u) ==
    IF Shown(u).kind = "none" \/ Shown(u).hidden THEN -1
    ELSE LinesBefore(u, u.selected) + (IF Shown(u).kind = "group" /\ u.selected > 1 THEN 1 ELSE 0)

agentListContent(u) == IF u.tree = <<>> THEN SearchLines(u) + 1 ELSE LinesBefore(u, Len(u.tree) + 1)

(* Mistake: the row after the last that is drawn needs no scrolling. *)
ScrollShort(v, line) ==
    IF line < 0 THEN v
    ELSE IF line < v.off THEN SetYOffset(v, line)
    ELSE IF line > v.off + v.h THEN SetYOffset(v, line - v.h + 1) ELSE v

ScrollTo(v, line) ==
    IF line < 0 THEN v
    ELSE IF line < v.off THEN SetYOffset(v, line)
    ELSE IF line >= v.off + v.h THEN SetYOffset(v, line - v.h + 1) ELSE v

updateLeftContent(u) ==
    [u EXCEPT !.list = ScrollTo(SetContent(@, agentListContent(u)), selectedLine(u))]

(* The game takes its rows of the list only when it is drawn. *)
renderLeftPanel(u) ==
    IF u.mode = "dino" THEN Most(0, u.height - GameHeight) ELSE u.list.h

Update(u) == updateRightContent(updateLeftContent(u))

-----------------------------------------------------------------------------
(* Mistake: the heights of the right panel stay those of the last size. *)
ResizeWidths(u) == Update(u)

resizeViewports(u) ==
    LET hs == panelHeights(u.height, defaultHeaderLines)
    IN  Update([u EXCEPT !.list = SetHeight(@, IF PetHeight = 0 THEN u.height ELSE Most(u.height - PetHeight, 3)),
                         !.files = SetHeight(@, hs.files), !.history = SetHeight(@, hs.history),
                         !.message = SetHeight(@, hs.message)])

Port == [h |-> 0, off |-> 0, total |-> 0]

(* late is the rows of the quote that the viewports have not been sized for. *)
Fresh(h, t, l, i) ==
    resizeViewports(
        [height |-> h, late |-> 0, quoted |-> FALSE, mode |-> "normal", tree |-> t, selected |-> i, look |-> l,
         plan |-> FALSE, diagrams |-> FALSE, captured |-> 0, focus |-> "list", mouse |-> 0,
         list |-> Port, files |-> Port, history |-> Port, message |-> Port])

Init ==
    /\ \E h \in Heights, t \in Trees, l \in [Agents -> Looks], i \in {1, 2} :
           /\ i \in DOMAIN t => ~t[i].hidden
           /\ m = Fresh(h, t, l, i)
    /\ events = 0

To(u) == events < MaxEvents /\ events' = events + 1 /\ m' = u

Resize(h) == To(resizeViewports([m EXCEPT !.height = h, !.late = 0, !.mouse = -1]))

(* The quote comes once.  The panels are drawn lower from now on, but the *)
(* viewports are not resized; the mouse, whose row is kept as that of the *)
(* panel, stays where it is on the screen.                                *)
Quote(k) ==
    /\ ~m.quoted /\ k < m.height
    /\ To([m EXCEPT !.quoted = TRUE, !.height = @ - k, !.late = @ + k, !.mouse = @ - k])

(* The keys that move: what was open at the row is open again. *)
Select(i, p, d) ==
    /\ m.mode = "normal" /\ i \in DOMAIN m.tree \ {m.selected} /\ ~m.tree[i].hidden
    /\ p \/ d => m.tree[i].kind = "agent"
    /\ To(Update([m EXCEPT !.selected = i, !.plan = p, !.diagrams = d, !.captured = 0]))

Rebuilt(t, i) == [m EXCEPT !.tree = t, !.selected = i]

clamped(t) == Most(1, Least(m.selected, Len(t)))

(* The row is found again, or it is the one in its place.  A group may be   *)
(* found or not: it is not told from the others here.                       *)
restoreSelection(t) ==
    LET same == {i \in DOMAIN t : t[i].kind = Shown(m).kind /\ t[i].agent = Shown(m).agent}
    IN  IF same = {} \/ Shown(m).kind = "group" THEN same \cup {clamped(t)} ELSE same

(* A new list puts a plan away unless its agent is in review. *)
StateUpdated(t, a, l) ==
    \E i \in restoreSelection(t) :
        LET u == [Rebuilt(t, i) EXCEPT !.look[a] = l]
        IN  To(Update([u EXCEPT !.plan = @ /\ IsAgent(u) /\ Look(u).state = "plan"]))

(* Only the left panel is made anew. *)
SubagentsLoaded(t) == \E i \in restoreSelection(t) : To(updateLeftContent(Rebuilt(t, i)))

(* The placeholder of a created agent enters the list, unless it is there; *)
(* an agent that could not be created ends whatever mode the model is in.  *)
SessionCreated(t) == \E i \in restoreSelection(t) : To(resizeViewports([Rebuilt(t, i) EXCEPT !.late = 0]))

CreateRepeated == To(updateRightContent(m))

CreateFailed == m.mode # "normal" /\ To([m EXCEPT !.mode = "normal"])

(* The keys that fold the subagents of an agent, ... *)
FoldAgent(t) ==
    /\ m.mode = "normal" /\ Shown(m).agent # None
    /\ To(updateLeftContent(Rebuilt(t, clamped(t))))

(* ... that take one out of the list, ... *)
Dismiss(t) ==
    /\ m.mode = "normal" /\ Shown(m).kind = "sub"
    /\ To(Update(Rebuilt(t, clamped(t))))

(* ... and that fold a group, whose header is selected for a row in it. *)
FoldGroup(t, i) ==
    /\ m.mode = "normal" /\ i \in DOMAIN t /\ Len(t) = Len(m.tree)
    /\ ~t[i].hidden /\ (i = m.selected \/ t[i].kind = "group")
    /\ To(Update(Rebuilt(t, i)))

-----------------------------------------------------------------------------
(* The search palette.                                                      *)

Results(t) == {i \in DOMAIN t : t[i].kind = "agent"}

selectFirstResult(t, i) ==
    IF Results(t) = {} THEN i = 1 ELSE i \in Results(t) /\ \A j \in Results(t) : i <= j

(* The palette is opened, or what it filters by is changed. *)
Filter(t, i) ==
    /\ m.mode \in {"normal", "search"} /\ selectFirstResult(t, i)
    /\ To(Update([Rebuilt(t, i) EXCEPT !.mode = "search"]))

moveSearchSelection(i) ==
    /\ m.mode = "search" /\ i \in Results(m.tree) \ {m.selected}
    /\ \A j \in Results(m.tree) : ~(m.selected < j /\ j < i) /\ ~(i < j /\ j < m.selected)
    /\ To(Update([m EXCEPT !.selected = i]))

(* The whole list is back, and the row is the one in its place. *)
closeSearch(t) == [Rebuilt(t, clamped(t)) EXCEPT !.mode = "normal"]

(* Esc, or Enter where there is no agent. *)
Escape(t) == m.mode = "search" /\ To(Update(closeSearch(t)))

(* Enter on an agent, to resume it or to be asked for the jump: neither    *)
(* panel is made anew.                                                     *)
Enter(t) ==
    /\ m.mode = "search" /\ Shown(m).agent # None
    /\ \E mode \in {"normal", "confirm"} : To([closeSearch(t) EXCEPT !.mode = mode])

-----------------------------------------------------------------------------
(* Auto-scroll spares a viewport that has the focus or the mouse. *)
ConversationLoaded(n) ==
    LET u == updateRightContent([m EXCEPT !.look[Shown(m).agent].said = n])
        held == m.focus = "history" \/ mouseOver(m, MouseStart(m).history, m.history)
    IN  /\ Shown(m).agent # None /\ n # Look(m).said
        /\ To(IF held THEN u ELSE [u EXCEPT !.history = GotoBottom(@)])

Captured(n) ==
    LET u == updateRightContent([m EXCEPT !.captured = n])
        held == m.focus = "message" \/ u.plan \/ m.mode = "usage" \/ mouseOver(m, MouseStart(u).message, u.message)
    IN  To(IF held THEN u ELSE [u EXCEPT !.message = GotoBottom(@)])

Reply ==
    /\ m.mode = "normal" /\ IsAgent(m)
    /\ LET u == updateRightContent([m EXCEPT !.mode = "reply"])
       IN  To([u EXCEPT !.message = GotoBottom(@)])

(* Mistake: the view is not scrolled to what is typed. *)
TypeBlindly ==
    /\ m.mode = "reply"
    /\ To(updateRightContent(m))

Type ==
    /\ m.mode = "reply"
    /\ LET u == updateRightContent(m) IN To([u EXCEPT !.message = GotoBottom(@)])

(* Enter or Esc. *)
EndReply == m.mode = "reply" /\ To(updateRightContent([m EXCEPT !.mode = "normal"]))

TogglePlan ==
    /\ m.mode = "normal" /\ IsAgent(m) /\ Look(m).plan > 0
    /\ LET u == updateRightContent([m EXCEPT !.plan = ~@, !.diagrams = @ /\ m.plan,
                                             !.focus = IF m.plan THEN @ ELSE "message"])
       IN  To(IF u.plan THEN [u EXCEPT !.message = GotoTop(@)] ELSE u)

ToggleDiagrams ==
    /\ m.mode = "normal" /\ IsAgent(m) /\ Look(m).diagrams > 0
    /\ To(updateRightContent([m EXCEPT !.diagrams = ~@, !.plan = @ /\ m.diagrams,
                                       !.focus = IF m.diagrams THEN @ ELSE "message"]))

ToggleUsage ==
    \/ /\ m.mode = "normal"
       /\ To(updateRightContent([m EXCEPT !.mode = "usage", !.message = GotoTop(@)]))
    \/ m.mode = "usage" /\ To(updateRightContent([m EXCEPT !.mode = "normal"]))

ToggleWizard ==
    \/ m.mode = "normal" /\ To(updateRightContent([m EXCEPT !.mode = "create"]))
    \/ m.mode = "create" /\ To(updateRightContent([m EXCEPT !.mode = "normal"]))

(* A dialog, and its answer: no content is made anew for them. *)
Confirm ==
    \/ m.mode = "normal" /\ Shown(m).agent # None /\ To([m EXCEPT !.mode = "confirm"])
    \/ m.mode = "confirm" /\ To([m EXCEPT !.mode = "normal"])

(* Nor for the game. *)
ToggleGame ==
    \/ m.mode = "normal" /\ To([m EXCEPT !.mode = "dino"])
    \/ m.mode = "dino" /\ To([m EXCEPT !.mode = "normal"])

CycleFocus ==
    /\ m.mode = "normal"
    /\ To([m EXCEPT !.focus = CASE @ = "list" -> "files" [] @ = "files" -> "history"
                                [] @ = "history" -> "message" [] OTHER -> "list"])

(* handleMouse, over the right panel or over the list, three rows at a time. *)
Wheel(y, by) ==
    LET start == MouseStart(m)
        at == IF ShowsPlan(m) \/ y >= start.message THEN {"message"}
              ELSE IF y >= start.history THEN {"history"}
              ELSE IF y >= start.files THEN {"files"} ELSE {}
    IN  To([x \in DOMAIN m |->
            IF x = "mouse" THEN y ELSE IF x \in at THEN SetYOffset(m[x], m[x].off + by) ELSE m[x]])

WheelList(y, by) == To([m EXCEPT !.mouse = y, !.list = SetYOffset(@, m.list.off + by)])

Next ==
    \/ \E h \in Heights : Resize(h)
    \/ \E k \in QuoteRows : Quote(k)
    \/ \E i \in DOMAIN m.tree, p, d \in BOOLEAN : Select(i, p, d)
    \/ \E t \in Trees, a \in Agents, l \in Looks : StateUpdated(t, a, l)
    \/ \E t \in Trees : SubagentsLoaded(t) \/ SessionCreated(t) \/ FoldAgent(t) \/ Dismiss(t)
    \/ \E t \in Trees : \E i \in DOMAIN t : FoldGroup(t, i)
    \/ \E t \in Trees : \E i \in DOMAIN t \cup {1} : Filter(t, i)
    \/ \E i \in DOMAIN m.tree : moveSearchSelection(i)
    \/ \E t \in Trees : Escape(t) \/ Enter(t)
    \/ \E n \in {0, 40} : ConversationLoaded(n) \/ Captured(n)
    \/ Reply \/ Type \/ EndReply
    \/ TogglePlan \/ ToggleDiagrams \/ ToggleUsage \/ ToggleWizard \/ ToggleGame \/ Confirm
    \/ CreateRepeated \/ CreateFailed \/ CycleFocus
    \/ \E y \in {14, 20, 30} : Wheel(y, 3) \/ Wheel(y, -3) \/ WheelList(y, 3) \/ WheelList(y, -3)

Spec == Init /\ [][Next]_vars

-----------------------------------------------------------------------------
Draws(v, h, i) == i \in v.off..(v.off + h - 1)

(* The panel has room for its least sections below this header. *)
Roomy(u) == u.height >= Header(u) + sectionGaps + 3 + 5 + 5

(* One row less of header may round one row more to both other sections. *)
Short(u) == IF Header(u) = defaultHeaderLines - 1 THEN 1 ELSE 0

(* The line that is typed in reply mode is on the screen after every key,   *)
(* whatever has been loaded, opened, resized or listed before, unless the   *)
(* header has outgrown the reducer's estimate of it, the panel is too small *)
(* or the list has put another row than an agent's under the reply          *)
(* (view.go:733-744, messages.go:159).  With a header one row below the     *)
(* estimate, as before the cost is known, it may be the one below.          *)
ReplyIsDrawn ==
    [][(Reply \/ Type) /\ IsAgent(m') /\ Roomy(m') /\ Header(m') <= defaultHeaderLines
           => Draws(m'.message, renderRightPanel(m').message + Short(m'), m'.message.total - 1)]_vars

Listed == \E a \in Agents : StateUpdated(m'.tree, a, m'.look[a])

(* The row that is selected is among the rows of the list that are drawn    *)
(* after every list and every step that moves it or changes the rows, in    *)
(* the palette too (updateLeftContent).  Excepted are a row in a folded     *)
(* group, which is not drawn; the game, which covers the list; and Enter on *)
(* an agent in the palette, after which the list is not made anew           *)
(* (keys.go:915-931): the row may be off the screen until the next move or  *)
(* list.  Until the next size, the rows drawn reach as many below the end   *)
(* of the panel as the quote has pushed it down.                            *)
SelectionIsDrawn ==
    [][(m'.selected # m.selected \/ m'.tree # m.tree \/ Listed) /\ ~Enter(m'.tree)
           => \/ selectedLine(m') = -1 \/ m'.mode = "dino"
              \/ Draws(m'.list, renderLeftPanel(m'), selectedLine(m'))]_vars

Distance(a, b) == IF a > b THEN a - b ELSE b - a

(* One row may round one row to both sections. *)
WithRounding(k) == IF k = 0 THEN 0 ELSE k + 1

(* The mouse takes the sections to be no farther from where they are drawn  *)
(* than the header is from its estimate (handleMouse, renderRightPanel), or *)
(* than the quote has made the panel lower since the viewports were sized,  *)
(* which the message may miss by one row more (model.go:837-840, where they *)
(* are not resized).                                                        *)
WheelIsNear ==
    /\ m.mode \notin {"create", "usage"} /\ Shown(m).agent # None
    /\ ~ShowsPlan(m) /\ ~ShowsDiagrams(m)
    => /\ Distance(DrawnStart(m).history, MouseStart(m).history)
             <= Most(Distance(Header(m), defaultHeaderLines), m.late)
       /\ Distance(DrawnStart(m).message, MouseStart(m).message)
             <= Most(Distance(Header(m), defaultHeaderLines), WithRounding(m.late))
=============================================================================
