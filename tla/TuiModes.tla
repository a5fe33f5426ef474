------------------------------ MODULE TuiModes ------------------------------
(***************************************************************************)
(* The dialogs of the terminal UI (internal/tui): one model, changed by a  *)
(* reducer that takes keys and messages one at a time.  A key is handled   *)
(* by the mode the model is in; the answer of a command that was started   *)
(* earlier comes in whatever mode the model has reached meanwhile, and so  *)
(* does a new list of agents.                                              *)
(*                                                                         *)
(* Rows of the list other than agents are NoAgent here; TuiTree has them.  *)
(***************************************************************************)
EXTENDS Integers, FiniteSets

CONSTANTS
    Agents,
    States,      \* the states a list may show; "orphan" is a resumable one
    Harnesses,
    Models,      \* harness -> the models it offers
    DefaultModel,  \* no model chosen: the default one
    NoAgent,
    NoText,
    Expiry,      \* ticks after which a spawn that does not show up is given up
    MaxEvents,   \* bound on those keys and lists
    MaxRunning   \* bound on the commands that run at a time

ASSUME BoundAssumption == Expiry \in Nat \ {0} /\ MaxEvents \in Nat /\ MaxRunning \in Nat
ASSUME NoAgentAssumption == NoAgent \notin Agents

VARIABLES
    agents,    \* the listed agents -> the state shown
    selected,  \* the selected agent
    ui,        \* the rest of the model
    text,      \* what the text input holds: the mode and agent it was typed for
    wizard,    \* the choices of the create wizard
    running,   \* commands whose answer the model waits for
    started,   \* commands the last step started
    cooling,   \* a confirmation was entered less than confirmCooldown ago
    merged,    \* agents whose pull request was merged
    diagrams,  \* agents whose diagrams are on disk
    hasty,     \* a confirmation was entered and no time has passed since
    clashed,   \* two merges have run at a time
    events     \* how many keys were pressed in the normal mode, and lists received

vars == <<agents, selected, ui, text, wizard, running, started, cooling, merged, diagrams, hasty,
          clashed, events>>

BlockedOrWaiting == {"permission", "plan", "question", "error"}

CreateModes ==
    {"createFolder", "createHarness", "createSkill", "createModel", "createEffort", "createMessage"}

TextModes == {"reply", "createFolder", "createMessage"}

(* What each confirming mode takes for a yes. *)
Yes ==
    [m \in {"confirmClose", "confirmDismissAll", "confirmMerge", "confirmCleanup",
            "confirmDeleteDiagram", "confirmSend", "confirmJump"} |->
        CASE m = "confirmSend" -> {"enter"}
          [] m = "confirmJump" -> {"y", "enter"}
          [] OTHER             -> {"y"}]

ConfirmModes == DOMAIN Yes

No(m) == IF m = "confirmSend" THEN {"esc"} ELSE {"n", "esc"}

(* Usage, dependencies and the game: nothing but leaving matters here.     *)
Overlay == "overlay"

NoSpawn == [pending |-> FALSE, target |-> FALSE, trust |-> FALSE, age |-> 0]

NoWizard == [harness |-> "", offered |-> {}, model |-> DefaultModel]

(* asked is what the confirming mode acts on; merging, opening and cleaning *)
(* are the slots for a merge, a pull request link and a cleanup; panel says *)
(* that the diagrams panel is open and has the focus.                       *)
Init ==
    /\ agents = [a \in {} |-> ""]
    /\ selected = NoAgent
    /\ ui \in [mode : {"normal"}, panel : {FALSE}, asked : {NoAgent}, merging : {NoAgent},
               opening : {NoAgent}, cleaning : {NoAgent}, spawn : {NoSpawn}, status : {""},
               tmux : {FALSE}, gh : BOOLEAN, skills : BOOLEAN]
    /\ text = NoText
    /\ wizard = NoWizard
    /\ running = {} /\ started = {}
    /\ cooling = FALSE
    /\ merged = {}
    /\ diagrams = Agents
    /\ hasty = FALSE /\ clashed = FALSE
    /\ events = 0

-----------------------------------------------------------------------------
(* Keys.                                                                   *)

Event == events < MaxEvents /\ events' = events + 1

(* PhantomFilter drops what the terminal may have made up: in a confirming *)
(* mode a yes that comes too soon.  What it drops in the normal mode is    *)
(* here a key that was not pressed.                                        *)
Swallowed(key) == ui.mode \in ConfirmModes /\ key \in Yes[ui.mode] /\ cooling

(* An open diagrams panel that has the focus sees its keys before most modes. *)
PanelTakes(key) ==
    /\ ui.panel
    /\ key \in {"j", "k", "enter", "x", "esc"}
    /\ ui.mode \notin CreateModes \cup {"reply", "confirmDeleteDiagram"}

Normal == ui.mode = "normal"

(* A handler that enters a confirming mode starts the cooldown.  Keys count *)
(* as events in the normal mode only.                                       *)
Press(key, cools) ==
    /\ ~Swallowed(key)
    /\ cooling' = (cooling \/ cools)
    /\ IF Normal \/ PanelTakes(key) THEN Event ELSE UNCHANGED events

(* Only some commands have answers that do more than leave a note. *)
Awaited == {"create", "resume", "send", "jump", "jumpTarget", "merge", "cleanup", "pr"}

Start(cmds) ==
    /\ started' = cmds
    /\ running' = running \cup {c \in cmds : c.cmd \in Awaited}
    /\ Cardinality(running') <= MaxRunning

NoCommand == started' = {} /\ UNCHANGED running

Command(cmd, a) == [cmd |-> cmd, agent |-> a, model |-> wizard.model, harness |-> wizard.harness]

Quiet == UNCHANGED <<agents, selected, merged, diagrams, clashed>>

Still == Quiet /\ NoCommand /\ UNCHANGED <<text, wizard>>

Typed == [mode |-> ui.mode, agent |-> selected, lost |-> FALSE, stolen |-> FALSE]

(* Typing or pasting adds to what the text input still holds. *)
Type ==
    /\ ui.mode \in TextModes
    /\ Press("a", FALSE)
    /\ text' = IF text = NoText THEN Typed ELSE text
    /\ Quiet /\ NoCommand /\ UNCHANGED <<ui, wizard>>

(* Back to the normal mode, the text and the choices dropped. *)
Abandon(key) ==
    /\ Press(key, FALSE)
    /\ ui' = [ui EXCEPT !.mode = "normal"]
    /\ text' = NoText
    /\ wizard' = NoWizard
    /\ Quiet /\ NoCommand

Goto(key, mode) ==
    /\ Press(key, FALSE)
    /\ ui' = [ui EXCEPT !.mode = mode]
    /\ Quiet /\ NoCommand

CreateKey ==
    /\ Normal
    /\ Goto("a", IF ui.tmux THEN "createFolder" ELSE "normal")
    /\ UNCHANGED <<text, wizard>>

(* Without a suggestion and without text there is no folder. *)
FolderKey ==
    /\ ui.mode = "createFolder"
    /\ \/ Goto("esc", "normal")
       \/ text = NoText /\ Goto("enter", "normal")
       \/ Goto("enter", "createHarness")
    /\ text' = NoText
    /\ UNCHANGED wizard

Offer(h) == [harness |-> h, offered |-> Models[h] \cup {DefaultModel}, model |-> DefaultModel]

(* Mistake: models offered before are not offered anew. *)
HarnessKeyKeepsOffer ==
    /\ ui.mode = "createHarness"
    /\ \/ Abandon("ctrl+c")
       \/ /\ Goto("esc", "createFolder")
          /\ text' = [Typed EXCEPT !.mode = "createFolder"]
          /\ UNCHANGED wizard
       \/ \E h \in Harnesses :
             /\ Goto("enter", IF ui.skills THEN "createSkill" ELSE "createModel")
             /\ text' = NoText
             /\ wizard' = [wizard EXCEPT !.harness = h,
                                         !.offered = IF @ = {} THEN Offer(h).offered ELSE @]

(* With skills the models are offered one step later. *)
HarnessKey ==
    /\ ui.mode = "createHarness"
    /\ \/ Abandon("ctrl+c")
       \/ /\ Goto("esc", "createFolder")
          /\ text' = [Typed EXCEPT !.mode = "createFolder"]
          /\ UNCHANGED wizard
       \/ \E h \in Harnesses :
             /\ Goto("enter", IF ui.skills THEN "createSkill" ELSE "createModel")
             /\ text' = NoText
             /\ wizard' = IF ui.skills THEN [wizard EXCEPT !.harness = h] ELSE Offer(h)

SkillKey ==
    /\ ui.mode = "createSkill"
    /\ \/ Abandon("ctrl+c")
       \/ Goto("esc", "createHarness") /\ UNCHANGED <<text, wizard>>
       \/ Goto("enter", "createModel") /\ wizard' = Offer(wizard.harness) /\ UNCHANGED text

ModelKey ==
    /\ ui.mode = "createModel"
    /\ \/ Abandon("ctrl+c")
       \/ Goto("esc", IF ui.skills THEN "createSkill" ELSE "createHarness") /\ UNCHANGED <<text, wizard>>
       \/ \E m \in wizard.offered :
             /\ Goto("enter", "createEffort")
             /\ wizard' = [wizard EXCEPT !.model = m]
             /\ UNCHANGED text

EffortKey ==
    /\ ui.mode = "createEffort"
    /\ \/ Abandon("ctrl+c")
       \/ Goto("esc", "createModel") /\ wizard' = [wizard EXCEPT !.model = DefaultModel] /\ UNCHANGED text
       \/ Goto("enter", "createMessage") /\ UNCHANGED <<text, wizard>>

(* The last step spawns; the status shows it until the agent appears. *)
MessageKey ==
    /\ ui.mode = "createMessage"
    /\ \/ Abandon("ctrl+c")
       \/ Goto("esc", "createEffort") /\ text' = NoText /\ UNCHANGED wizard
       \/ /\ Press("enter", FALSE)
          /\ Start({Command("create", NoAgent)})
          /\ ui' = [ui EXCEPT !.mode = "normal", !.status = "spawning",
                              !.spawn.pending = TRUE, !.spawn.age = 0]
          /\ text' = NoText
          /\ wizard' = NoWizard
          /\ Quiet

(* Mistake: escape leaves the text behind. *)
ReplyKeyKeepsText ==
    /\ ui.mode = "reply"
    /\ \/ Goto("esc", "normal") /\ UNCHANGED <<text, wizard>>
       \/ /\ Press("enter", FALSE)
          /\ ui' = [ui EXCEPT !.mode = "normal"]
          /\ text' = NoText
          /\ IF text # NoText /\ selected # NoAgent
             THEN Start({Command("reply", selected)}) ELSE NoCommand
          /\ Quiet /\ UNCHANGED wizard

(* A reply goes to the agent selected when Enter is pressed. *)
ReplyKey ==
    /\ ui.mode = "reply"
    /\ \/ Goto("esc", "normal") /\ text' = NoText /\ UNCHANGED wizard
       \/ /\ Press("enter", FALSE)
          /\ ui' = [ui EXCEPT !.mode = "normal"]
          /\ text' = NoText
          /\ IF text # NoText /\ selected # NoAgent
             THEN Start({Command("reply", selected)}) ELSE NoCommand
          /\ Quiet /\ UNCHANGED wizard

(* Entering a reply; a plan is first denied to open its feedback, but for codex. *)
ReplyStart ==
    /\ Normal /\ ui.tmux /\ selected # NoAgent
    /\ Press("r", FALSE)
    /\ ui' = [ui EXCEPT !.mode = "reply"]
    /\ \/ agents[selected] = "plan" /\ Start({Command("send", selected)})
       \/ NoCommand
    /\ Quiet /\ UNCHANGED <<text, wizard>>

(* Ask whether to act on the selected agent, in the given mode. *)
AskOn(key, mode) ==
    /\ Normal /\ ui.tmux
    /\ ~PanelTakes(key)
    /\ Press(key, TRUE)
    /\ ui' = [ui EXCEPT !.mode = mode, !.asked = selected, !.status = ""]
    /\ Still

CloseKey == selected # NoAgent /\ AskOn("x", "confirmClose")

DismissAllKey ==
    /\ selected = NoAgent
    /\ \E a \in DOMAIN agents : agents[a] = "orphan"
    /\ AskOn("x", "confirmDismissAll")

JumpKey ==
    selected # NoAgent /\ ~ui.spawn.trust /\ AskOn("enter", "confirmJump")

MergeKey ==
    /\ selected # NoAgent
    /\ agents[selected] = "pr"
    /\ AskOn("m", "confirmMerge")

SendKey ==
    /\ selected # NoAgent
    /\ agents[selected] \in BlockedOrWaiting
    /\ \E key \in {"y", "1"} : AskOn(key, "confirmSend")

(* While a trust prompt waits, Enter jumps to the pane it is in. *)
TrustKey ==
    /\ Normal /\ ui.tmux /\ ui.spawn.trust
    /\ ~PanelTakes("enter")
    /\ Press("enter", FALSE)
    /\ Start({Command("jumpTarget", NoAgent)})
    /\ Quiet /\ UNCHANGED <<ui, text, wizard>>

(* Confirmed: what each mode starts, on the agent it had asked about. *)
Confirmed(mode, a) ==
    CASE mode = "confirmClose"         -> {Command("close", a)}
      [] mode = "confirmDismissAll"    ->
            {Command("dismiss", b) : b \in {c \in DOMAIN agents : agents[c] = "orphan"}}
      [] mode = "confirmSend"          -> {Command("send", a)}
      [] mode = "confirmJump"          -> {Command("jump", a)}
      [] mode = "confirmDeleteDiagram" -> {Command("delete", a)}

ConfirmKey(mode) ==
    /\ ui.mode = mode
    /\ \/ \E key \in Yes[mode] :
             /\ ~PanelTakes(key)
             /\ Press(key, FALSE)
             /\ Start(Confirmed(mode, ui.asked))
             /\ ui' = [ui EXCEPT !.mode = "normal", !.asked = NoAgent, !.status = ""]
       \/ \E key \in No(mode) :
             /\ ~PanelTakes(key)
             /\ Press(key, FALSE)
             /\ ui' = [ui EXCEPT !.mode = "normal", !.asked = NoAgent, !.status = ""]
             /\ NoCommand
    /\ Quiet /\ UNCHANGED <<text, wizard>>

(* The merge's answer comes without the agent: that waits in the slot. *)
ConfirmMergeKey ==
    /\ ui.mode = "confirmMerge"
    /\ UNCHANGED <<agents, selected, merged, diagrams, text, wizard>>
    /\ \/ /\ Press("y", FALSE)
          /\ \/ /\ Start({Command("merge", ui.asked)})
                /\ ui' = [ui EXCEPT !.mode = "normal", !.asked = NoAgent, !.merging = ui.asked,
                                    !.gh = TRUE, !.status = ""]
                /\ clashed' = (clashed \/ \E c \in running : c.cmd = "merge")
             \/ /\ ui' = [ui EXCEPT !.mode = "normal", !.asked = NoAgent, !.gh = FALSE, !.status = ""]
                /\ NoCommand /\ UNCHANGED clashed
       \/ /\ \E key \in No("confirmMerge") : ~PanelTakes(key) /\ Press(key, FALSE)
          /\ ui' = [ui EXCEPT !.mode = "normal", !.asked = NoAgent, !.status = ""]
          /\ NoCommand /\ UNCHANGED clashed

(* The slot is emptied before the cleanup runs. *)
ConfirmCleanupKey ==
    /\ ui.mode = "confirmCleanup"
    /\ ui' = [ui EXCEPT !.mode = "normal", !.cleaning = NoAgent, !.status = ""]
    /\ \/ Press("y", FALSE) /\ Start({Command("cleanup", ui.cleaning)})
       \/ (\E key \in No("confirmCleanup") : ~PanelTakes(key) /\ Press(key, FALSE)) /\ NoCommand
    /\ Quiet /\ UNCHANGED <<text, wizard>>

(* g: with gh the pin waits for the answer, without it is set at once. *)
OpenPRKey ==
    /\ Normal /\ selected # NoAgent
    /\ Press("g", FALSE)
    /\ IF ui.gh
       THEN /\ Start({Command("pr", selected)})
            /\ ui' = [ui EXCEPT !.opening = selected, !.status = ""]
       ELSE /\ Start({Command("pr", selected), Command("pin", selected)})
            /\ ui' = [ui EXCEPT !.status = ""]
    /\ Quiet /\ UNCHANGED <<text, wizard>>

SearchStart ==
    /\ Normal
    /\ Press("/", FALSE)
    /\ ui' = [ui EXCEPT !.mode = "search"]
    /\ selected' \in DOMAIN agents \cup {NoAgent}
    /\ NoCommand /\ UNCHANGED <<agents, merged, diagrams, clashed, text, wizard>>

(* The palette: filter and move, leave, or resume or jump to the selection. *)
SearchKey ==
    /\ ui.mode = "search"
    /\ \/ /\ Press("down", FALSE)
          /\ selected' \in DOMAIN agents \cup {NoAgent}
          /\ NoCommand /\ UNCHANGED <<agents, merged, diagrams, clashed, ui, text, wizard>>
       \/ /\ ~PanelTakes("esc")
          /\ Press("esc", FALSE)
          /\ ui' = [ui EXCEPT !.mode = "normal"]
          /\ selected' \in DOMAIN agents \cup {NoAgent}
          /\ NoCommand /\ UNCHANGED <<agents, merged, diagrams, clashed, text, wizard>>
       \/ /\ ~PanelTakes("enter")
          /\ selected = NoAgent \/ ~ui.tmux
          /\ Press("enter", FALSE)
          /\ ui' = [ui EXCEPT !.mode = "normal"]
          /\ selected' \in DOMAIN agents \cup {NoAgent}
          /\ NoCommand /\ UNCHANGED <<agents, merged, diagrams, clashed, text, wizard>>
       \/ /\ ~PanelTakes("enter")
          /\ selected # NoAgent /\ ui.tmux
          /\ selected' \in DOMAIN agents \cup {NoAgent}
          /\ IF agents[selected] = "orphan"
             THEN /\ Press("enter", FALSE)
                  /\ Start({Command("resume", selected)})
                  /\ ui' = [ui EXCEPT !.mode = "normal", !.status = ""]
             ELSE /\ Press("enter", TRUE)
                  /\ ui' = [ui EXCEPT !.mode = "confirmJump", !.asked = selected, !.status = ""]
                  /\ NoCommand
          /\ UNCHANGED <<agents, merged, diagrams, clashed, text, wizard>>

MoveKey ==
    /\ Normal
    /\ UNCHANGED <<cooling, events>>
    /\ selected' \in DOMAIN agents \cup {NoAgent}
    /\ ui' = [ui EXCEPT !.status = IF selected' = selected THEN @ ELSE "",
                        !.panel = @ /\ selected' = selected]
    /\ NoCommand /\ UNCHANGED <<agents, merged, diagrams, clashed, text, wizard>>

(* D and tab: open or close the diagrams panel, give it the focus. *)
PanelToggle ==
    /\ Normal /\ selected # NoAgent
    /\ Press("D", FALSE)
    /\ ui' = [ui EXCEPT !.panel = ~@]
    /\ Still

(* In whatever mode, if the panel has the focus: x asks for a deletion. *)
PanelKey ==
    /\ \/ /\ PanelTakes("x") /\ Press("x", TRUE)
          /\ ui' = [ui EXCEPT !.mode = "confirmDeleteDiagram", !.asked = selected, !.status = ""]
       \/ PanelTakes("esc") /\ Press("esc", FALSE) /\ ui' = [ui EXCEPT !.panel = FALSE]
       \/ PanelTakes("enter") /\ Press("enter", FALSE) /\ ui' = [ui EXCEPT !.status = ""]
    /\ Still

(* The diagrams are read anew; without any the panel closes. *)
DiagramsLoaded ==
    /\ ui.panel
    /\ ui' = [ui EXCEPT !.panel = FALSE]
    /\ Still /\ UNCHANGED <<cooling, events>>

OverlayKey ==
    /\ \/ Normal /\ Press("u", FALSE) /\ ui' = [ui EXCEPT !.mode = Overlay]
       \/ /\ ui.mode = Overlay /\ ~PanelTakes("esc")
          /\ Press("esc", FALSE) /\ ui' = [ui EXCEPT !.mode = "normal"]
    /\ Still

-----------------------------------------------------------------------------
(* Messages.                                                               *)

Startup ==
    /\ ~ui.tmux
    /\ ui' = [ui EXCEPT !.tmux = TRUE]
    /\ Still /\ UNCHANGED <<cooling, events>>

Lists == UNION {[L -> States] : L \in SUBSET Agents}

(* The selection follows its agent, or is clamped to what is in its place. *)
(* A row is known by the position of its pane in tmux: when a position has *)
(* moved the selection may end up on another agent (TuiTree has positions). *)
Reselect(list, moved) ==
    IF selected \in DOMAIN list /\ ~moved THEN {selected} ELSE DOMAIN list \cup {NoAgent}

(* The spawn is over if some agent works in its folder. *)
Appeared ==
    IF ui.spawn.pending
    THEN [ui EXCEPT !.spawn.pending = FALSE, !.spawn.target = FALSE, !.spawn.trust = FALSE,
                    !.status = IF @ = "spawning" THEN "" ELSE @]
    ELSE ui

StateUpdated ==
    /\ Event
    /\ \E list \in Lists, moved \in BOOLEAN :
          /\ agents' = list
          /\ selected' \in Reselect(list, moved)
          /\ text' = IF text # NoText /\ (moved \/ text.agent \notin DOMAIN list)
                     THEN [text EXCEPT !.lost = TRUE] ELSE text
          /\ ui' \in IF DOMAIN list = {} THEN {ui} ELSE {ui, Appeared}
    /\ NoCommand /\ UNCHANGED <<wizard, cooling, merged, diagrams, clashed>>

(* Mistake: the safety expiry forgets the status. *)
TickKeepsStatus ==
    /\ LET expired == ui.spawn.pending /\ ui.spawn.age + 1 >= Expiry
       IN  ui' = [ui EXCEPT !.spawn = IF expired THEN NoSpawn
                                      ELSE IF @.pending THEN [@ EXCEPT !.age = @ + 1] ELSE @]
    /\ Still /\ UNCHANGED <<cooling, events>>

(* A spawn that is not seen for Expiry ticks is given up. *)
Tick ==
    /\ LET expired == ui.spawn.pending /\ ui.spawn.age + 1 >= Expiry
       IN  ui' = [ui EXCEPT !.spawn = IF expired THEN NoSpawn
                                      ELSE IF @.pending THEN [@ EXCEPT !.age = @ + 1] ELSE @,
                            !.status = IF expired /\ (@ = "spawning" \/ ui.spawn.trust) THEN "" ELSE @]
    /\ Still /\ UNCHANGED <<cooling, events>>

Answer(c, cmds) ==
    /\ c.cmd \in cmds
    /\ running' = running \ {c}
    /\ UNCHANGED events

Pins(a) == IF a = NoAgent THEN {} ELSE {Command("pin", a)}

(* The mode changes under what is being typed. *)
Steal == text' = IF text = NoText THEN text ELSE [text EXCEPT !.stolen = TRUE]

(* createSessionMsg, of a spawn or a resume. *)
CreateSession(c) ==
    /\ Answer(c, {"create", "resume"})
    /\ started' = {}
    /\ \/ /\ ui' = [ui EXCEPT !.mode = "normal", !.status = "", !.spawn.pending = FALSE]
          /\ Steal
       \/ /\ ui' = [ui EXCEPT !.spawn.target = TRUE, !.spawn.trust = FALSE]
          /\ UNCHANGED text
    /\ Quiet /\ UNCHANGED <<wizard, cooling>>

(* A trust prompt is seen in the pane of the spawn. *)
SpawningCapture ==
    /\ ui.spawn.target /\ ~ui.spawn.trust
    /\ ui' = [ui EXCEPT !.spawn.trust = TRUE, !.status = "trust"]
    /\ Still /\ UNCHANGED <<cooling, events>>

(* Any jump that succeeds takes the trust prompt for answered. *)
JumpResult(c) ==
    /\ Answer(c, {"jump", "jumpTarget"})
    /\ started' = {}
    /\ \/ ui' = [ui EXCEPT !.status = ""]
       \/ ui' = [ui EXCEPT !.status = "", !.spawn.trust = FALSE,
                           !.spawn.target = @ /\ ~ui.spawn.trust]
    /\ Quiet /\ UNCHANGED <<text, wizard, cooling>>

(* A pull request that exists is pinned, for the agent in the slot. *)
OpenPRResult(c) ==
    /\ Answer(c, {"pr"})
    /\ started' \in {{}, Pins(ui.opening)}
    /\ ui' = [ui EXCEPT !.opening = NoAgent, !.status = ""]
    /\ Quiet /\ UNCHANGED <<text, wizard, cooling>>

MergeFailed ==
    /\ ui' = [ui EXCEPT !.merging = NoAgent, !.status = ""]
    /\ started' = {}
    /\ UNCHANGED <<text, cooling, merged>>

OfferCleanup ==
    /\ started' = Pins(ui.merging)
    /\ ui' = [ui EXCEPT !.mode = "confirmCleanup", !.merging = NoAgent, !.cleaning = ui.merging,
                        !.status = ""]
    /\ Steal

(* Mistake: the cooldown is not started. *)
MergeResultAtOnce(c) ==
    /\ Answer(c, {"merge"})
    /\ \/ MergeFailed
       \/ OfferCleanup /\ merged' = merged \cup {c.agent} /\ UNCHANGED cooling
    /\ UNCHANGED <<agents, selected, diagrams, clashed, wizard>>

(* Mistake: a failed merge is offered for cleanup as well. *)
MergeResultAnyway(c) ==
    /\ Answer(c, {"merge"})
    /\ OfferCleanup
    /\ merged' \in {merged, merged \cup {c.agent}}
    /\ cooling' = TRUE
    /\ UNCHANGED <<agents, selected, diagrams, clashed, wizard>>

(* If it is merged the cleanup is offered at once, in whatever mode. *)
MergeResult(c) ==
    /\ Answer(c, {"merge"})
    /\ \/ MergeFailed
       \/ OfferCleanup /\ merged' = merged \cup {c.agent} /\ cooling' = TRUE
    /\ UNCHANGED <<agents, selected, diagrams, clashed, wizard>>

(* The diagrams that go are those of the cleanup being asked about now, if *)
(* any; the slot of this one was emptied when it was confirmed.            *)
CleanupResult(c) ==
    /\ Answer(c, {"cleanup"})
    /\ started' = {}
    /\ ui' = [ui EXCEPT !.status = ""]
    /\ diagrams' \in {diagrams, diagrams \ {ui.cleaning}}
    /\ UNCHANGED <<agents, selected, merged, clashed, text, wizard, cooling>>

(* A key that could not be sent ends the reply. *)
RawKeySent(c) ==
    /\ Answer(c, {"send"})
    /\ started' = {}
    /\ \/ /\ ui.mode = "reply"
          /\ ui' = [ui EXCEPT !.mode = "normal", !.status = ""] /\ text' = NoText
       \/ ui' = [ui EXCEPT !.status = ""] /\ UNCHANGED text
    /\ Quiet /\ UNCHANGED <<wizard, cooling>>

(* Time passes: the cooldown is over. *)
Wait ==
    /\ cooling
    /\ cooling' = FALSE
    /\ Still /\ UNCHANGED <<ui, events>>

-----------------------------------------------------------------------------
Keys ==
    \/ Type \/ CreateKey \/ FolderKey \/ HarnessKey \/ SkillKey \/ ModelKey \/ EffortKey \/ MessageKey
    \/ ReplyKey \/ ReplyStart \/ CloseKey \/ DismissAllKey \/ JumpKey \/ MergeKey \/ SendKey \/ TrustKey
    \/ ConfirmMergeKey \/ ConfirmCleanupKey \/ OpenPRKey \/ SearchStart \/ SearchKey \/ MoveKey
    \/ PanelToggle \/ PanelKey \/ OverlayKey
    \/ \E mode \in ConfirmModes \ {"confirmMerge", "confirmCleanup"} : ConfirmKey(mode)

Messages ==
    \/ Startup \/ StateUpdated \/ Tick \/ SpawningCapture \/ DiagramsLoaded
    \/ \E c \in running :
          \/ CreateSession(c) \/ JumpResult(c) \/ OpenPRResult(c) \/ MergeResult(c) \/ CleanupResult(c)
          \/ RawKeySent(c)

(* hasty remembers that a confirmation was entered and no time has passed. *)
Next ==
    \/ /\ Keys \/ Messages
       /\ hasty' = IF ui'.mode = ui.mode THEN hasty ELSE ui'.mode \in ConfirmModes
    \/ Wait /\ hasty' = FALSE

(* The clock of the program ticks. *)
Spec == Init /\ [][Next]_vars /\ WF_vars(Tick /\ UNCHANGED hasty)

-----------------------------------------------------------------------------
(* What is typed is submitted for what it was typed for: a reply reaches   *)
(* the agent it was begun for unless that one left the list or its pane    *)
(* another position, and neither a reply nor a first message holds the     *)
(* text of another dialog, unless an answer that came in between took the  *)
(* mode away (keys.go:582-607).                                            *)
TextGoesWhereItWasTyped ==
    [][\A c \in started' :
          c.cmd \in {"reply", "create"} /\ text # NoText /\ ~text.stolen
             => /\ text.mode = ui.mode
                /\ c.cmd = "reply" => c.agent = text.agent \/ text.lost]_vars

(* Only the worktree of an agent whose pull request was merged is offered  *)
(* for cleanup or cleaned up, and only diagrams of such a one go - as long *)
(* as no second merge is started before the first has answered, for there  *)
(* is one slot (model.go:1346-1368).                                       *)
CleanupFollowsMerge ==
    ~clashed =>
        /\ ui.mode = "confirmCleanup" => ui.cleaning \in merged
        /\ \A c \in running : c.cmd = "cleanup" => c.agent \in merged
        /\ Agents \ diagrams \subseteq merged

(* Keys that arrive in one burst never confirm what the first of them      *)
(* asked: whichever way a confirmation was entered, some time has passed   *)
(* when it is confirmed (keys.go:30-33).                                   *)
BurstsConfirmNothing ==
    [][\A c \in started' :
          ui.mode \in ConfirmModes /\ c.cmd # "pin" => ~hasty]_vars

(* An agent is spawned with a model its own harness offers, whichever way  *)
(* through the wizard was taken (model.go:263-283).                        *)
SpawnFitsHarness ==
    \A c \in running :
        c.cmd = "create" => c.model \in Models[c.harness] \cup {DefaultModel}

(* The spinner of a spawn ends: the agent appears, or creating it fails, or *)
(* the safety expiry sets in (model.go, "30s safety expiry").              *)
SpawningEnds == [](ui.status = "spawning" => <>(ui.status # "spawning"))
=============================================================================
