--------------------------- MODULE TuiModesProofs ---------------------------
(***************************************************************************)
(* Proofs about the dialogs of the terminal UI, for any agents, harnesses, *)
(* models and number of commands that run: a spawn fits its harness, what  *)
(* was typed goes where it was typed, a burst of keys confirms nothing it  *)
(* asked itself, and a cleanup follows a merge.                            *)
(***************************************************************************)
EXTENDS TuiModes, TLAPS

UiShape(u) ==
    u = [mode |-> u.mode, panel |-> u.panel, asked |-> u.asked, merging |-> u.merging,
         opening |-> u.opening, cleaning |-> u.cleaning, spawn |-> u.spawn, status |-> u.status,
         tmux |-> u.tmux, gh |-> u.gh, skills |-> u.skills]

TextShape(t) == t = [mode |-> t.mode, agent |-> t.agent, lost |-> t.lost, stolen |-> t.stolen]

ModelModes == {"createModel", "createEffort", "createMessage"}

WizardShape(w) == w = [harness |-> w.harness, offered |-> w.offered, model |-> w.model]

(* What the text input holds was typed in the mode the model is in, unless *)
(* an answer took that away.                                               *)
TextFits ==
    text # NoText =>
        /\ TextShape(text) /\ text.mode \in TextModes
        /\ text.stolen \in BOOLEAN /\ text.lost \in BOOLEAN
        /\ ~text.stolen => /\ text.mode = ui.mode
                           /\ ui.mode = "reply" => text.agent = selected \/ text.lost

(* From the choice of a model on the wizard offers those of its harness. *)
WizardFits ==
    /\ WizardShape(wizard)
    /\ ui.mode \in ModelModes =>
          /\ wizard.offered = Models[wizard.harness] \cup {DefaultModel}
          /\ wizard.model \in wizard.offered

(* Of the one merge that runs the agent is in the slot. *)
MergesFit ==
    ~clashed =>
        /\ \A c \in running : c.cmd = "merge" => c.agent = ui.merging
        /\ \A c, d \in running : c.cmd = "merge" /\ d.cmd = "merge" => c = d
        /\ ui.cleaning \in merged \cup {NoAgent}

HastyIsCooling == cooling \in BOOLEAN /\ (hasty => cooling)

ModesInv ==
    /\ UiShape(ui) /\ TextFits /\ WizardFits /\ MergesFit /\ HastyIsCooling
    /\ SpawnFitsHarness /\ CleanupFollowsMerge

-----------------------------------------------------------------------------
(* What every step but a few has in common: it moves to mode m.            *)

StartsFit ==
    \A c \in started' :
        /\ c.cmd \in {"reply", "create"} /\ text # NoText /\ ~text.stolen =>
              /\ text.mode = ui.mode
              /\ c.cmd = "reply" => c.agent = text.agent \/ text.lost
        /\ ui.mode \in ConfirmModes /\ c.cmd # "pin" => ~hasty

RunsFit ==
    \A c \in running' :
        \/ c \in running
        \/ c.cmd \notin {"create", "merge", "cleanup"}
        \/ c.cmd = "create" /\ c.model \in Models[c.harness] \cup {DefaultModel}

(* The cooldown goes on, and is on in a confirming mode that is new. *)
Cools(m) ==
    /\ cooling' \in BOOLEAN /\ (cooling => cooling')
    /\ m = ui.mode \/ m \notin ConfirmModes \/ cooling'

Moves(m) ==
    UiShape(ui') /\ ui'.mode = m /\ ui'.merging = ui.merging /\ ui'.cleaning = ui.cleaning

Plain(m) ==
    /\ Moves(m) /\ (m = "confirmCleanup" => ui.mode = m)
    /\ UNCHANGED <<merged, diagrams, clashed>>
    /\ Cools(m) /\ RunsFit /\ StartsFit

Remembers == hasty' = IF ui'.mode = ui.mode THEN hasty ELSE ui'.mode \in ConfirmModes

LEMMA ConfirmModesFact ==
    /\ ConfirmModes = {"confirmClose", "confirmDismissAll", "confirmMerge", "confirmCleanup",
                       "confirmDeleteDiagram", "confirmSend", "confirmJump"}
    /\ "y" \in Yes["confirmMerge"] /\ "y" \in Yes["confirmCleanup"]
BY DEF ConfirmModes, Yes

LEMMA PlainKeeps ==
    ASSUME ModesInv, NEW m, Plain(m), TextFits', WizardFits', Remembers
    PROVE  ModesInv'
<1>1. HastyIsCooling'
  <2>1. CASE ui'.mode = ui.mode
    <3>1. hasty' = hasty
      BY <2>1 DEF Remembers
    <3> QED
      BY <3>1 DEF ModesInv, HastyIsCooling, Plain, Cools
  <2>2. CASE ui'.mode # ui.mode
    <3>1. hasty' => ui'.mode \in ConfirmModes
      BY <2>2, Zenon DEF Remembers
    <3> QED
      BY <2>2, <3>1 DEF Plain, Moves, Cools, HastyIsCooling
  <2> QED
    BY <2>1, <2>2
<1>2. MergesFit'
  BY DEF ModesInv, MergesFit, Plain, Moves, RunsFit
<1>3. CleanupFollowsMerge'
  BY DEF ModesInv, CleanupFollowsMerge, Plain, Moves, RunsFit
<1>4. SpawnFitsHarness'
  BY DEF ModesInv, SpawnFitsHarness, Plain, RunsFit
<1> QED
  BY <1>1, <1>2, <1>3, <1>4 DEF ModesInv, Plain, Moves

(* The text is dropped, or stays as it is where it belongs, or where there *)
(* is none but stolen text, or is taken its mode away.                     *)
LEMMA TextKept ==
    ASSUME ModesInv,
           \/ text' = NoText
           \/ text' = text /\ selected' = selected /\ ui'.mode = ui.mode
           \/ text' = text /\ ui.mode \notin TextModes
           \/ Steal
    PROVE  TextFits'
<1>1. CASE text' = NoText
  BY <1>1 DEF TextFits
<1>2. CASE text' = text /\ selected' = selected /\ ui'.mode = ui.mode
  BY <1>2 DEF TextFits, ModesInv
<1>3. CASE text' = text /\ ui.mode \notin TextModes
  BY <1>3 DEF TextFits, ModesInv
<1>4. CASE Steal
  <2>1. CASE text = NoText
    BY <1>4, <2>1, <1>1 DEF Steal
  <2>2. CASE text # NoText
    <3>1. text' = [text EXCEPT !.stolen = TRUE] /\ TextShape(text)
      BY <1>4, <2>2 DEF Steal, ModesInv, TextFits
    <3>2. TextShape(text') /\ text'.stolen = TRUE /\ text'.mode = text.mode /\ text'.lost = text.lost
      BY <3>1 DEF TextShape
    <3> QED
      BY <2>2, <3>2 DEF ModesInv, TextFits
  <2> QED
    BY <2>1, <2>2
<1> QED
  BY <1>1, <1>2, <1>3, <1>4

LEMMA WizardKept ==
    ASSUME ModesInv,
           \/ wizard' = wizard /\ (ui'.mode = ui.mode \/ ui.mode \in ModelModes)
           \/ (wizard' = wizard \/ WizardShape(wizard')) /\ ui'.mode \notin ModelModes
    PROVE  WizardFits'
BY DEF WizardFits, ModesInv

LEMMA NoWizardShape == WizardShape(NoWizard)
BY DEF WizardShape, NoWizard

LEMMA OfferFits ==
    ASSUME NEW h
    PROVE  /\ WizardShape(Offer(h)) /\ Offer(h).harness = h /\ Offer(h).model = DefaultModel
           /\ Offer(h).offered = Models[h] \cup {DefaultModel}
BY DEF WizardShape, Offer

LEMMA ModeMoves ==
    ASSUME UiShape(ui), NEW m, ui' = [ui EXCEPT !.mode = m] PROVE Moves(m)
BY DEF UiShape, Moves

LEMMA PressCools == ASSUME ModesInv, NEW key, NEW m, Press(key, FALSE), m = ui.mode \/ m \notin ConfirmModes PROVE Cools(m)
BY DEF ModesInv, HastyIsCooling, Press, Cools

LEMMA AskCools == ASSUME ModesInv, NEW key, NEW m, Press(key, TRUE) PROVE Cools(m)
BY DEF ModesInv, HastyIsCooling, Press, Cools

LEMMA NoStart == ASSUME NoCommand PROVE RunsFit /\ StartsFit
BY DEF NoCommand, RunsFit, StartsFit

LEMMA GotoPlain ==
    ASSUME ModesInv, NEW key, NEW m, Goto(key, m), m \notin ConfirmModes
    PROVE  Plain(m) /\ selected' = selected
<1>1. Moves(m)
  BY ModeMoves DEF Goto, ModesInv
<1>2. Cools(m)
  BY PressCools DEF Goto
<1>3. RunsFit /\ StartsFit /\ UNCHANGED <<merged, diagrams, clashed, selected>>
  BY NoStart DEF Goto, Quiet
<1> QED
  BY <1>1, <1>2, <1>3, ConfirmModesFact DEF Plain

LEMMA GotoKeeps ==
    ASSUME ModesInv, NEW key, NEW m, Goto(key, m), m \notin ConfirmModes, Remembers,
           \/ text' = NoText
           \/ text' = text /\ ui.mode \notin TextModes,
           \/ wizard' = wizard /\ (m \notin ModelModes \/ ui.mode \in ModelModes)
           \/ WizardShape(wizard') /\ m \notin ModelModes
           \/ WizardFits'
    PROVE  ModesInv' /\ StartsFit
<1>1. Plain(m)
  BY GotoPlain
<1>2. ui'.mode = m
  BY <1>1 DEF Plain, Moves
<1>3. TextFits'
  BY TextKept
<1>4. WizardFits'
  BY <1>2, WizardKept
<1> QED
  BY <1>1, <1>3, <1>4, PlainKeeps DEF Plain

LEMMA AbandonKeeps ==
    ASSUME ModesInv, NEW key, Abandon(key), Remembers PROVE ModesInv' /\ StartsFit
<1>1. Goto(key, "normal") /\ text' = NoText /\ wizard' = NoWizard
  BY DEF Abandon, Goto
<1> QED
  BY <1>1, GotoKeeps, NoWizardShape, ConfirmModesFact DEF ModelModes

-----------------------------------------------------------------------------
(* The keys of the wizard and of a reply.                                  *)

LEMMA TypeKeeps == ASSUME ModesInv, Type, Remembers PROVE ModesInv' /\ StartsFit
<1>1. /\ ui.mode \in TextModes /\ Press("a", FALSE)
      /\ text' = IF text = NoText THEN Typed ELSE text
      /\ UNCHANGED <<ui, wizard, selected, merged, diagrams, clashed>> /\ NoCommand
  BY DEF Type, Quiet
<1>2. Plain(ui.mode)
  BY <1>1, PressCools, NoStart DEF Plain, Moves, ModesInv
<1>3. WizardFits'
  BY <1>1, WizardKept
<1>4. TextFits'
  <2>1. CASE text = NoText
    <3>1. text' = Typed
      BY <1>1, <2>1
    <3>2. /\ TextShape(text') /\ text'.mode = ui.mode /\ text'.agent = selected
          /\ text'.lost = FALSE /\ text'.stolen = FALSE
      BY <3>1 DEF Typed, TextShape
    <3> QED
      BY <1>1, <3>2 DEF TextFits
  <2>2. CASE text # NoText
    BY <1>1, <2>2, TextKept
  <2> QED
    BY <2>1, <2>2
<1> QED
  BY <1>2, <1>3, <1>4, PlainKeeps DEF Plain

LEMMA CreateKeyKeeps == ASSUME ModesInv, CreateKey, Remembers PROVE ModesInv' /\ StartsFit
<1> PICK m : m \in {"createFolder", "normal"} /\ Goto("a", m) /\ UNCHANGED <<text, wizard>>
  BY DEF CreateKey
<1>1. ui.mode \notin TextModes /\ m \notin ConfirmModes /\ m \notin ModelModes
  BY ConfirmModesFact DEF CreateKey, Normal, TextModes, ModelModes
<1> QED
  BY <1>1, GotoKeeps

LEMMA FolderKeyKeeps == ASSUME ModesInv, FolderKey, Remembers PROVE ModesInv' /\ StartsFit
<1> PICK key, m : m \in {"createHarness", "normal"} /\ Goto(key, m)
  BY DEF FolderKey
<1>1. text' = NoText /\ wizard' = wizard /\ m \notin ConfirmModes /\ m \notin ModelModes
  BY ConfirmModesFact DEF FolderKey, ModelModes
<1> QED
  BY <1>1, GotoKeeps

LEMMA HarnessKeyKeeps == ASSUME ModesInv, HarnessKey, Remembers PROVE ModesInv' /\ StartsFit
<1>1. CASE Abandon("ctrl+c")
  BY <1>1, AbandonKeeps
<1>2. CASE /\ Goto("esc", "createFolder")
           /\ text' = [Typed EXCEPT !.mode = "createFolder"]
           /\ UNCHANGED wizard
  <2>1. Plain("createFolder") /\ selected' = selected
    BY <1>2, GotoPlain, ConfirmModesFact
  <2>2. ui'.mode = "createFolder"
    BY <2>1 DEF Plain, Moves
  <2>3. WizardFits'
    BY <1>2, <2>2, WizardKept DEF ModelModes
  <2>4. /\ TextShape(text') /\ text'.mode = "createFolder" /\ text'.lost = FALSE
        /\ text'.stolen = FALSE
    BY <1>2 DEF Typed, TextShape
  <2>5. TextFits'
    BY <2>2, <2>4 DEF TextFits, TextModes
  <2> QED
    BY <2>1, <2>3, <2>5, PlainKeeps DEF Plain
<1>3. ASSUME NEW h \in Harnesses,
             Goto("enter", IF ui.skills THEN "createSkill" ELSE "createModel"),
             text' = NoText,
             wizard' = IF ui.skills THEN [wizard EXCEPT !.harness = h] ELSE Offer(h)
      PROVE  ModesInv' /\ StartsFit
  <2>1. CASE ui.skills
    <3>1. Goto("enter", "createSkill") /\ wizard' = [wizard EXCEPT !.harness = h]
      BY <1>3, <2>1
    <3>2. WizardShape(wizard')
      BY <3>1 DEF WizardShape, ModesInv, WizardFits
    <3> QED
      BY <1>3, <3>1, <3>2, GotoKeeps, ConfirmModesFact DEF ModelModes
  <2>2. CASE ~ui.skills
    <3>1. Goto("enter", "createModel") /\ wizard' = Offer(h)
      BY <1>3, <2>2
    <3>2. WizardFits'
      BY <3>1, OfferFits DEF WizardFits
    <3> QED
      BY <1>3, <3>1, <3>2, GotoKeeps, ConfirmModesFact
  <2> QED
    BY <2>1, <2>2
<1> QED
  BY <1>1, <1>2, <1>3 DEF HarnessKey

LEMMA SkillKeyKeeps == ASSUME ModesInv, SkillKey, Remembers PROVE ModesInv' /\ StartsFit
<1> ui.mode \notin TextModes
  BY DEF SkillKey, TextModes
<1>1. CASE Abandon("ctrl+c")
  BY <1>1, AbandonKeeps
<1>2. CASE Goto("esc", "createHarness") /\ UNCHANGED <<text, wizard>>
  BY <1>2, GotoKeeps, ConfirmModesFact DEF ModelModes
<1>3. CASE Goto("enter", "createModel") /\ wizard' = Offer(wizard.harness) /\ UNCHANGED text
  <2>1. WizardFits'
    BY <1>3, OfferFits DEF WizardFits
  <2> QED
    BY <1>3, <2>1, GotoKeeps, ConfirmModesFact
<1> QED
  BY <1>1, <1>2, <1>3 DEF SkillKey

LEMMA ModelKeyKeeps == ASSUME ModesInv, ModelKey, Remembers PROVE ModesInv' /\ StartsFit
<1> ui.mode = "createModel" /\ ui.mode \notin TextModes /\ ui.mode \in ModelModes
  BY DEF ModelKey, TextModes, ModelModes
<1>1. CASE Abandon("ctrl+c")
  BY <1>1, AbandonKeeps
<1>2. CASE /\ Goto("esc", IF ui.skills THEN "createSkill" ELSE "createHarness")
           /\ UNCHANGED <<text, wizard>>
  <2> PICK m : m \in {"createSkill", "createHarness"} /\ Goto("esc", m)
    BY <1>2
  <2> QED
    BY <1>2, GotoKeeps, ConfirmModesFact DEF ModelModes
<1>3. ASSUME NEW k \in wizard.offered, Goto("enter", "createEffort"),
             wizard' = [wizard EXCEPT !.model = k], text' = text
      PROVE  ModesInv' /\ StartsFit
  <2>1. WizardFits'
    BY <1>3 DEF WizardFits, ModesInv, WizardShape
  <2> QED
    BY <1>3, <2>1, GotoKeeps, ConfirmModesFact
<1> QED
  BY <1>1, <1>2, <1>3 DEF ModelKey

LEMMA EffortKeyKeeps == ASSUME ModesInv, EffortKey, Remembers PROVE ModesInv' /\ StartsFit
<1> ui.mode \notin TextModes /\ ui.mode \in ModelModes
  BY DEF EffortKey, TextModes, ModelModes
<1>1. CASE Abandon("ctrl+c")
  BY <1>1, AbandonKeeps
<1>2. CASE /\ Goto("esc", "createModel") /\ wizard' = [wizard EXCEPT !.model = DefaultModel]
           /\ UNCHANGED text
  <2>1. WizardFits'
    BY <1>2 DEF WizardFits, ModesInv, WizardShape
  <2> QED
    BY <1>2, <2>1, GotoKeeps, ConfirmModesFact
<1>3. CASE Goto("enter", "createMessage") /\ UNCHANGED <<text, wizard>>
  BY <1>3, GotoKeeps, ConfirmModesFact
<1> QED
  BY <1>1, <1>2, <1>3 DEF EffortKey

(* Commands that neither spawn nor merge nor clean up nor reply, started   *)
(* where no confirmation was just entered.                                 *)
LEMMA HarmlessStart ==
    ASSUME NEW cmds, Start(cmds),
           \A c \in cmds : c.cmd \notin {"create", "merge", "cleanup", "reply"},
           ui.mode \in ConfirmModes => ~hasty \/ (\A c \in cmds : c.cmd = "pin")
    PROVE  RunsFit /\ StartsFit
BY DEF Start, RunsFit, StartsFit

LEMMA CommandFact ==
    ASSUME NEW cmd, NEW a
    PROVE  /\ Command(cmd, a).cmd = cmd /\ Command(cmd, a).agent = a
           /\ Command(cmd, a).model = wizard.model /\ Command(cmd, a).harness = wizard.harness
BY DEF Command

LEMMA MessageKeyKeeps == ASSUME ModesInv, MessageKey, Remembers PROVE ModesInv' /\ StartsFit
<1> ui.mode = "createMessage" /\ ui.mode \in ModelModes /\ ui.mode \notin ConfirmModes
  BY ConfirmModesFact DEF MessageKey, ModelModes
<1>1. CASE Abandon("ctrl+c")
  BY <1>1, AbandonKeeps
<1>2. CASE Goto("esc", "createEffort") /\ text' = NoText /\ UNCHANGED wizard
  BY <1>2, GotoKeeps, ConfirmModesFact
<1>3. CASE /\ Press("enter", FALSE)
           /\ Start({Command("create", NoAgent)})
           /\ ui' = [ui EXCEPT !.mode = "normal", !.status = "spawning",
                               !.spawn.pending = TRUE, !.spawn.age = 0]
           /\ text' = NoText
           /\ wizard' = NoWizard
           /\ Quiet
  <2> PICK c : c = Command("create", NoAgent)
    OBVIOUS
  <2>1. c.cmd = "create" /\ c.model = wizard.model /\ c.harness = wizard.harness
    BY CommandFact
  <2>2. c.model \in Models[c.harness] \cup {DefaultModel}
    BY <2>1 DEF ModesInv, WizardFits
  <2>3. started' = {c} /\ running' \subseteq running \cup {c}
    BY <1>3 DEF Start
  <2>4. RunsFit
    BY <2>1, <2>2, <2>3 DEF RunsFit
  <2>5. StartsFit
    BY <2>1, <2>3 DEF StartsFit, ModesInv, TextFits
  <2>6. Moves("normal")
    BY <1>3 DEF UiShape, Moves, ModesInv
  <2>7. Cools("normal")
    BY <1>3, PressCools, ConfirmModesFact
  <2>8. Plain("normal")
    BY <1>3, <2>4, <2>5, <2>6, <2>7 DEF Plain, Quiet
  <2>9. TextFits' /\ WizardFits'
    BY <1>3, <2>6, TextKept, WizardKept, NoWizardShape DEF Moves, ModelModes
  <2> QED
    BY <2>5, <2>8, <2>9, PlainKeeps
<1> QED
  BY <1>1, <1>2, <1>3 DEF MessageKey

LEMMA ReplyKeyKeeps == ASSUME ModesInv, ReplyKey, Remembers PROVE ModesInv' /\ StartsFit
<1> ui.mode = "reply" /\ ui.mode \notin ConfirmModes
  BY ConfirmModesFact DEF ReplyKey
<1>1. CASE Goto("esc", "normal") /\ text' = NoText /\ UNCHANGED wizard
  BY <1>1, GotoKeeps, ConfirmModesFact DEF ModelModes
<1>2. CASE /\ Press("enter", FALSE)
           /\ ui' = [ui EXCEPT !.mode = "normal"]
           /\ text' = NoText
           /\ IF text # NoText /\ selected # NoAgent
              THEN Start({Command("reply", selected)}) ELSE NoCommand
           /\ Quiet /\ UNCHANGED wizard
  <2>1. RunsFit /\ StartsFit
    <3>1. CASE NoCommand
      BY <3>1, NoStart
    <3>2. CASE Start({Command("reply", selected)}) /\ text # NoText
      <4> PICK c : c = Command("reply", selected)
        OBVIOUS
      <4>1. c.cmd = "reply" /\ c.agent = selected
        BY CommandFact
      <4>2. started' = {c} /\ running' \subseteq running \cup {c}
        BY <3>2 DEF Start
      <4>3. RunsFit
        BY <4>1, <4>2 DEF RunsFit
      <4>4. ~text.stolen => /\ text.mode = "reply"
                            /\ selected = text.agent \/ text.lost
        BY <3>2 DEF ModesInv, TextFits
      <4> QED
        BY <4>1, <4>2, <4>3, <4>4 DEF StartsFit
    <3> QED
      BY <1>2, <3>1, <3>2
  <2>2. Moves("normal")
    BY <1>2, ModeMoves DEF ModesInv
  <2>3. Cools("normal")
    BY <1>2, PressCools, ConfirmModesFact
  <2>4. Plain("normal")
    BY <1>2, <2>1, <2>2, <2>3 DEF Plain, Quiet
  <2>5. TextFits' /\ WizardFits'
    BY <1>2, <2>2, TextKept, WizardKept DEF Moves, ModelModes
  <2> QED
    BY <2>1, <2>4, <2>5, PlainKeeps
<1> QED
  BY <1>1, <1>2 DEF ReplyKey

LEMMA ReplyStartKeeps == ASSUME ModesInv, ReplyStart, Remembers PROVE ModesInv' /\ StartsFit
<1>1. /\ ui.mode = "normal" /\ Press("r", FALSE) /\ ui' = [ui EXCEPT !.mode = "reply"]
      /\ Start({Command("send", selected)}) \/ NoCommand
      /\ Quiet /\ UNCHANGED <<text, wizard>>
  BY DEF ReplyStart, Normal
<1>2. ui.mode \notin TextModes /\ ui.mode \notin ConfirmModes
  BY <1>1, ConfirmModesFact DEF TextModes
<1>3. RunsFit /\ StartsFit
  BY <1>1, <1>2, HarmlessStart, NoStart, CommandFact
<1>4. Moves("reply")
  BY <1>1, ModeMoves DEF ModesInv
<1>5. Cools("reply")
  BY <1>1, PressCools, ConfirmModesFact
<1>6. Plain("reply")
  BY <1>1, <1>3, <1>4, <1>5 DEF Plain, Quiet
<1>7. TextFits' /\ WizardFits'
  BY <1>1, <1>2, <1>4, TextKept, WizardKept DEF Moves, ModelModes
<1> QED
  BY <1>3, <1>6, <1>7, PlainKeeps

-----------------------------------------------------------------------------
(* The keys that ask and confirm, and the rest.                            *)

(* A key outside the dialogs that take text, and its step is plain.        *)
LEMMA PlainTextless ==
    ASSUME ModesInv, NEW m, Plain(m), Remembers, ui.mode \notin TextModes,
           UNCHANGED <<text, wizard>>, m = ui.mode \/ m \notin ModelModes
    PROVE  ModesInv' /\ StartsFit
<1>1. TextFits' /\ WizardFits'
  BY TextKept, WizardKept DEF Plain, Moves
<1> QED
  BY <1>1, PlainKeeps DEF Plain

LEMMA AskOnKeeps ==
    ASSUME ModesInv, NEW key, NEW m, AskOn(key, m), Remembers,
           m \in ConfirmModes \ {"confirmCleanup"}
    PROVE  ModesInv' /\ StartsFit
<1>1. /\ ui.mode = "normal" /\ Press(key, TRUE) /\ Still
      /\ ui' = [ui EXCEPT !.mode = m, !.asked = selected, !.status = ""]
  BY DEF AskOn, Normal
<1>2. Moves(m)
  BY <1>1 DEF UiShape, Moves, ModesInv
<1>3. Cools(m)
  BY <1>1, AskCools
<1>4. Plain(m)
  BY <1>1, <1>2, <1>3, NoStart DEF Plain, Still, Quiet
<1>5. ui.mode \notin TextModes /\ m \notin ModelModes
  BY <1>1, ConfirmModesFact DEF TextModes, ModelModes
<1> QED
  BY <1>1, <1>4, <1>5, PlainTextless DEF Still

LEMMA AskKeysKeep ==
    ASSUME ModesInv, CloseKey \/ DismissAllKey \/ JumpKey \/ MergeKey \/ SendKey, Remembers
    PROVE  ModesInv' /\ StartsFit
<1> PICK key, m : /\ m \in {"confirmClose", "confirmDismissAll", "confirmJump", "confirmMerge",
                            "confirmSend"}
                  /\ AskOn(key, m)
  BY DEF CloseKey, DismissAllKey, JumpKey, MergeKey, SendKey
<1> QED
  BY AskOnKeeps, ConfirmModesFact

LEMMA TrustKeyKeeps == ASSUME ModesInv, TrustKey, Remembers PROVE ModesInv' /\ StartsFit
<1>1. /\ ui.mode = "normal" /\ Press("enter", FALSE) /\ Start({Command("jumpTarget", NoAgent)})
      /\ Quiet /\ UNCHANGED <<ui, text, wizard>>
  BY DEF TrustKey, Normal
<1>2. ui.mode \notin TextModes /\ ui.mode \notin ConfirmModes
  BY <1>1, ConfirmModesFact DEF TextModes
<1>3. RunsFit /\ StartsFit
  BY <1>1, <1>2, HarmlessStart, CommandFact
<1>4. Plain(ui.mode)
  BY <1>1, <1>3, PressCools DEF Plain, Moves, Quiet, ModesInv
<1> QED
  BY <1>1, <1>2, <1>4, PlainTextless

(* A yes that is not swallowed was not entered in a burst. *)
LEMMA YesIsCool ==
    ASSUME ModesInv, NEW key, Press(key, FALSE), ui.mode \in ConfirmModes, key \in Yes[ui.mode]
    PROVE  ~cooling /\ ~hasty
BY DEF Press, Swallowed, ModesInv, HastyIsCooling

LEMMA ConfirmedHarmless ==
    ASSUME NEW m \in ConfirmModes \ {"confirmMerge", "confirmCleanup"}, NEW a,
           NEW c \in Confirmed(m, a)
    PROVE  c.cmd \notin {"create", "merge", "cleanup", "reply"}
<1>1. m \in {"confirmClose", "confirmDismissAll", "confirmDeleteDiagram", "confirmSend", "confirmJump"}
  BY ConfirmModesFact
<1>2. \E d : \E cmd \in {"close", "dismiss", "send", "jump", "delete"} : c = Command(cmd, d)
  BY <1>1 DEF Confirmed
<1> QED
  BY <1>2, CommandFact

LEMMA ConfirmKeyKeeps ==
    ASSUME ModesInv, NEW m \in ConfirmModes \ {"confirmMerge", "confirmCleanup"}, ConfirmKey(m),
           Remembers
    PROVE  ModesInv' /\ StartsFit
<1> PICK key : /\ Press(key, FALSE)
               /\ ui' = [ui EXCEPT !.mode = "normal", !.asked = NoAgent, !.status = ""]
               /\ (key \in Yes[m] /\ Start(Confirmed(m, ui.asked))) \/ NoCommand
  BY DEF ConfirmKey
<1>1. ui.mode = m /\ Quiet /\ UNCHANGED <<text, wizard>>
  BY DEF ConfirmKey
<1>2. ui.mode \in ConfirmModes /\ ui.mode \notin TextModes
  BY <1>1, ConfirmModesFact DEF TextModes
<1>3. RunsFit /\ StartsFit
  <2>1. CASE key \in Yes[m] /\ Start(Confirmed(m, ui.asked))
    <3>1. ~hasty
      BY <1>1, <1>2, <2>1, YesIsCool
    <3> QED
      BY <2>1, <3>1, ConfirmedHarmless, HarmlessStart
  <2>2. CASE NoCommand
    BY <2>2, NoStart
  <2> QED
    BY <2>1, <2>2
<1>4. Moves("normal")
  BY DEF UiShape, Moves, ModesInv
<1>5. Plain("normal")
  BY <1>1, <1>3, <1>4, PressCools, ConfirmModesFact DEF Plain, Quiet
<1> QED
  BY <1>1, <1>2, <1>5, PlainTextless DEF ModelModes

(* The merge that is started is the one the slot is for. *)
LEMMA ConfirmMergeKeeps == ASSUME ModesInv, ConfirmMergeKey, Remembers PROVE ModesInv' /\ StartsFit
<1>1. /\ ui.mode = "confirmMerge" /\ ui.mode \in ConfirmModes /\ ui.mode \notin TextModes
      /\ UNCHANGED <<agents, selected, merged, diagrams, text, wizard>>
  BY ConfirmModesFact DEF ConfirmMergeKey, TextModes
<1>2. CASE /\ Press("y", FALSE) /\ Start({Command("merge", ui.asked)})
           /\ ui' = [ui EXCEPT !.mode = "normal", !.asked = NoAgent, !.merging = ui.asked,
                               !.gh = TRUE, !.status = ""]
           /\ clashed' = (clashed \/ \E c \in running : c.cmd = "merge")
  <2> PICK d : d = Command("merge", ui.asked)
    OBVIOUS
  <2>1. d.cmd = "merge" /\ d.agent = ui.asked
    BY CommandFact
  <2>2. started' = {d} /\ running' = running \cup {e \in {d} : e.cmd \in Awaited}
    BY <1>2 DEF Start
  <2>3. running' = running \cup {d}
    BY <2>1, <2>2 DEF Awaited
  <2>4. /\ UiShape(ui') /\ ui'.mode = "normal" /\ ui'.merging = ui.asked
        /\ ui'.cleaning = ui.cleaning
    BY <1>2 DEF UiShape, ModesInv
  <2>5. clashed' <=> (clashed \/ \E c \in running : c.cmd = "merge")
    BY <1>2
  <2>6. MergesFit'
    BY <1>1, <2>1, <2>3, <2>4, <2>5 DEF MergesFit, ModesInv
  <2>7. CleanupFollowsMerge'
    BY <1>1, <2>1, <2>3, <2>4, <2>5 DEF CleanupFollowsMerge, ModesInv
  <2>8. SpawnFitsHarness'
    BY <2>1, <2>3 DEF SpawnFitsHarness, ModesInv
  <2>9. TextFits' /\ WizardFits'
    BY <1>1, <2>4, TextKept, WizardKept DEF ModelModes
  <2>10. ~cooling /\ ~hasty
    BY <1>1, <1>2, YesIsCool, ConfirmModesFact
  <2>11. HastyIsCooling'
    <3>1. ~hasty'
      BY <1>1, <2>4, ConfirmModesFact, Zenon DEF Remembers
    <3>2. cooling' \in BOOLEAN
      BY <1>2 DEF Press, ModesInv, HastyIsCooling
    <3> QED
      BY <3>1, <3>2 DEF HastyIsCooling
  <2>12. StartsFit
    BY <2>1, <2>2, <2>10 DEF StartsFit
  <2> QED
    BY <2>4, <2>6, <2>7, <2>8, <2>9, <2>11, <2>12 DEF ModesInv
<1>3. CASE /\ \E key : Press(key, FALSE)
           /\ \/ ui' = [ui EXCEPT !.mode = "normal", !.asked = NoAgent, !.gh = FALSE, !.status = ""]
              \/ ui' = [ui EXCEPT !.mode = "normal", !.asked = NoAgent, !.status = ""]
           /\ NoCommand /\ UNCHANGED clashed
  <2>1. Moves("normal")
    BY <1>3 DEF UiShape, Moves, ModesInv
  <2>2. Plain("normal")
    BY <1>1, <1>3, <2>1, NoStart, PressCools, ConfirmModesFact DEF Plain
  <2> QED
    BY <1>1, <2>2, PlainTextless DEF ModelModes
<1> QED
  BY <1>2, <1>3 DEF ConfirmMergeKey

(* What is cleaned up is the merged agent that was asked about. *)
LEMMA ConfirmCleanupKeeps ==
    ASSUME ModesInv, ConfirmCleanupKey, Remembers PROVE ModesInv' /\ StartsFit
<1>1. /\ ui.mode = "confirmCleanup" /\ ui.mode \in ConfirmModes /\ ui.mode \notin TextModes
      /\ ui' = [ui EXCEPT !.mode = "normal", !.cleaning = NoAgent, !.status = ""]
      /\ Quiet /\ UNCHANGED <<text, wizard>>
  BY ConfirmModesFact DEF ConfirmCleanupKey, TextModes
<1>2. /\ UiShape(ui') /\ ui'.mode = "normal" /\ ui'.merging = ui.merging
      /\ ui'.cleaning = NoAgent
  BY <1>1 DEF UiShape, ModesInv
<1>3. /\ \E key : Press(key, FALSE)
      /\ \/ ~hasty /\ Start({Command("cleanup", ui.cleaning)})
         \/ NoCommand
  BY <1>1, YesIsCool, ConfirmModesFact DEF ConfirmCleanupKey
<1> PICK d : d = Command("cleanup", ui.cleaning)
  OBVIOUS
<1>4. d.cmd = "cleanup" /\ d.agent = ui.cleaning
  BY CommandFact
<1>5. running' \subseteq running \cup {d} /\ started' \subseteq {d} /\ (started' # {} => ~hasty)
  BY <1>3 DEF Start, NoCommand
<1>6. MergesFit'
  BY <1>1, <1>2, <1>4, <1>5 DEF MergesFit, ModesInv, Quiet
<1>7. CleanupFollowsMerge'
  BY <1>1, <1>2, <1>4, <1>5 DEF CleanupFollowsMerge, ModesInv, Quiet
<1>8. SpawnFitsHarness'
  BY <1>4, <1>5 DEF SpawnFitsHarness, ModesInv
<1>9. TextFits' /\ WizardFits'
  BY <1>1, <1>2, TextKept, WizardKept DEF ModelModes
<1>10. HastyIsCooling'
  <2> ui'.mode # ui.mode /\ ui'.mode \notin ConfirmModes
    BY <1>1, <1>2, ConfirmModesFact
  <2>1. ~hasty'
    BY Zenon DEF Remembers
  <2>2. cooling' \in BOOLEAN
    BY <1>3 DEF Press, ModesInv, HastyIsCooling
  <2> QED
    BY <2>1, <2>2 DEF HastyIsCooling
<1>11. StartsFit
  BY <1>4, <1>5 DEF StartsFit
<1> QED
  BY <1>2, <1>6, <1>7, <1>8, <1>9, <1>10, <1>11 DEF ModesInv

LEMMA OpenPRKeyKeeps == ASSUME ModesInv, OpenPRKey, Remembers PROVE ModesInv' /\ StartsFit
<1>1. /\ ui.mode = "normal" /\ Press("g", FALSE) /\ Quiet /\ UNCHANGED <<text, wizard>>
      /\ \/ Start({Command("pr", selected)})
         \/ Start({Command("pr", selected), Command("pin", selected)})
      /\ \/ ui' = [ui EXCEPT !.opening = selected, !.status = ""]
         \/ ui' = [ui EXCEPT !.status = ""]
  BY DEF OpenPRKey, Normal
<1>2. ui.mode \notin TextModes /\ ui.mode \notin ConfirmModes
  BY <1>1, ConfirmModesFact DEF TextModes
<1>3. RunsFit /\ StartsFit
  <2>1. \A c \in {Command("pr", selected), Command("pin", selected)} :
            c.cmd \notin {"create", "merge", "cleanup", "reply"}
    BY CommandFact
  <2> QED
    BY <1>1, <1>2, <2>1, HarmlessStart
<1>4. Moves(ui.mode)
  BY <1>1 DEF UiShape, Moves, ModesInv
<1>5. Plain(ui.mode)
  BY <1>1, <1>3, <1>4, PressCools DEF Plain, Quiet
<1> QED
  BY <1>1, <1>2, <1>5, PlainTextless

LEMMA SearchStartKeeps == ASSUME ModesInv, SearchStart, Remembers PROVE ModesInv' /\ StartsFit
<1>1. /\ ui.mode = "normal" /\ Press("/", FALSE) /\ ui' = [ui EXCEPT !.mode = "search"]
      /\ NoCommand /\ UNCHANGED <<agents, merged, diagrams, clashed, text, wizard>>
  BY DEF SearchStart, Normal
<1>2. Moves("search")
  BY <1>1, ModeMoves DEF ModesInv
<1>3. Plain("search")
  BY <1>1, <1>2, NoStart, PressCools, ConfirmModesFact DEF Plain
<1> QED
  BY <1>1, <1>3, PlainTextless DEF TextModes, ModelModes

LEMMA SearchKeyKeeps == ASSUME ModesInv, SearchKey, Remembers PROVE ModesInv' /\ StartsFit
<1>1. /\ ui.mode = "search" /\ UNCHANGED <<agents, merged, diagrams, clashed, text, wizard>>
      /\ ui.mode \notin TextModes /\ ui.mode \notin ConfirmModes
  BY ConfirmModesFact DEF SearchKey, TextModes
<1>2. CASE Press("down", FALSE) /\ NoCommand /\ ui' = ui
  <2>1. Plain("search")
    BY <1>1, <1>2, NoStart, PressCools DEF Plain, Moves, ModesInv
  <2> QED
    BY <1>1, <2>1, PlainTextless
<1>3. CASE /\ \E key : Press(key, FALSE)
           /\ ui' = [ui EXCEPT !.mode = "normal"] /\ NoCommand
  <2>1. Moves("normal")
    BY <1>3, ModeMoves DEF ModesInv
  <2>2. Plain("normal")
    BY <1>1, <1>3, <2>1, NoStart, PressCools, ConfirmModesFact DEF Plain
  <2> QED
    BY <1>1, <2>2, PlainTextless DEF ModelModes
<1>4. CASE /\ Press("enter", FALSE) /\ Start({Command("resume", selected)})
           /\ ui' = [ui EXCEPT !.mode = "normal", !.status = ""]
  <2>1. Moves("normal")
    BY <1>4 DEF UiShape, Moves, ModesInv
  <2>2. RunsFit /\ StartsFit
    BY <1>1, <1>4, HarmlessStart, CommandFact
  <2>3. Plain("normal")
    BY <1>1, <1>4, <2>1, <2>2, PressCools, ConfirmModesFact DEF Plain
  <2> QED
    BY <1>1, <2>3, PlainTextless DEF ModelModes
<1>5. CASE /\ Press("enter", TRUE) /\ NoCommand
           /\ ui' = [ui EXCEPT !.mode = "confirmJump", !.asked = selected, !.status = ""]
  <2>1. Moves("confirmJump")
    BY <1>5 DEF UiShape, Moves, ModesInv
  <2>2. Plain("confirmJump")
    BY <1>1, <1>5, <2>1, NoStart, AskCools DEF Plain
  <2> QED
    BY <1>1, <2>2, PlainTextless DEF ModelModes
<1> QED
  BY <1>2, <1>3, <1>4, <1>5 DEF SearchKey

LEMMA MoveKeyKeeps == ASSUME ModesInv, MoveKey, Remembers PROVE ModesInv' /\ StartsFit
<1>1. /\ ui.mode = "normal" /\ UNCHANGED cooling /\ NoCommand
      /\ ui' = [ui EXCEPT !.status = IF selected' = selected THEN @ ELSE "",
                          !.panel = @ /\ selected' = selected]
      /\ UNCHANGED <<agents, merged, diagrams, clashed, text, wizard>>
  BY DEF MoveKey, Normal
<1>2. Moves(ui.mode)
  BY <1>1 DEF UiShape, Moves, ModesInv
<1>3. Plain(ui.mode)
  BY <1>1, <1>2, NoStart DEF Plain, Cools, ModesInv, HastyIsCooling
<1> QED
  BY <1>1, <1>3, PlainTextless DEF TextModes

(* A step of the panel, of the clock, or of a message that is only noted. *)
LEMMA NotedKeeps ==
    ASSUME ModesInv, Moves(ui.mode), Remembers,
           UNCHANGED <<selected, merged, diagrams, clashed, text, wizard>>,
           Cools(ui.mode), RunsFit, StartsFit
    PROVE  ModesInv' /\ StartsFit
<1>1. ui'.mode = ui.mode
  BY DEF Moves
<1>2. TextFits' /\ WizardFits'
  BY <1>1, TextKept, WizardKept
<1>3. Plain(ui.mode)
  BY DEF Plain
<1> QED
  BY <1>2, <1>3, PlainKeeps

LEMMA PanelToggleKeeps == ASSUME ModesInv, PanelToggle, Remembers PROVE ModesInv' /\ StartsFit
<1>1. Press("D", FALSE) /\ ui' = [ui EXCEPT !.panel = ~@] /\ Still
  BY DEF PanelToggle
<1>2. Moves(ui.mode)
  BY <1>1 DEF UiShape, Moves, ModesInv
<1> QED
  BY <1>1, <1>2, PressCools, NoStart, NotedKeeps DEF Still, Quiet

LEMMA PanelKeyKeeps == ASSUME ModesInv, PanelKey, Remembers PROVE ModesInv' /\ StartsFit
<1> Still /\ RunsFit /\ StartsFit
  BY NoStart DEF PanelKey, Still
<1>1. CASE /\ PanelTakes("x") /\ Press("x", TRUE)
           /\ ui' = [ui EXCEPT !.mode = "confirmDeleteDiagram", !.asked = selected, !.status = ""]
  <2>1. Moves("confirmDeleteDiagram")
    BY <1>1 DEF UiShape, Moves, ModesInv
  <2>2. Plain("confirmDeleteDiagram")
    BY <1>1, <2>1, AskCools DEF Plain, Still, Quiet
  <2>3. ui.mode \notin TextModes
    BY <1>1 DEF PanelTakes, TextModes, CreateModes
  <2> QED
    BY <2>2, <2>3, PlainTextless DEF ModelModes, Still
<1>2. CASE /\ \E key : Press(key, FALSE)
           /\ ui' = [ui EXCEPT !.panel = FALSE] \/ ui' = [ui EXCEPT !.status = ""]
  <2>1. Moves(ui.mode)
    BY <1>2 DEF UiShape, Moves, ModesInv
  <2> QED
    BY <1>2, <2>1, PressCools, NotedKeeps DEF Still, Quiet
<1> QED
  BY <1>1, <1>2 DEF PanelKey

LEMMA OverlayKeyKeeps == ASSUME ModesInv, OverlayKey, Remembers PROVE ModesInv' /\ StartsFit
<1> PICK m : m \in {"normal", "overlay"} /\ ui' = [ui EXCEPT !.mode = m]
  BY DEF OverlayKey, Overlay
<1>1. Still /\ ui.mode \in {"normal", "overlay"} /\ \E key : Press(key, FALSE)
  BY DEF OverlayKey, Overlay, Normal
<1>2. Moves(m)
  BY ModeMoves DEF ModesInv
<1>3. Plain(m)
  BY <1>1, <1>2, NoStart, PressCools, ConfirmModesFact DEF Plain, Still, Quiet
<1> QED
  BY <1>1, <1>3, PlainTextless DEF TextModes, ModelModes, Still

-----------------------------------------------------------------------------
(* The messages.                                                           *)

LEMMA SameCools == ASSUME ModesInv, cooling' = cooling, NEW m, m = ui.mode \/ m \notin ConfirmModes
                   PROVE  Cools(m)
BY DEF Cools, ModesInv, HastyIsCooling

LEMMA AnswerRuns ==
    ASSUME NEW c, NEW cmds, Answer(c, cmds), \A d \in started' : d.cmd = "pin"
    PROVE  RunsFit /\ StartsFit
BY DEF Answer, RunsFit, StartsFit

LEMMA ClockKeeps ==
    ASSUME ModesInv, Startup \/ Tick \/ SpawningCapture \/ DiagramsLoaded, Remembers
    PROVE  ModesInv' /\ StartsFit
<1>1. Still /\ UNCHANGED cooling
  BY DEF Startup, Tick, SpawningCapture, DiagramsLoaded
<1>2. Moves(ui.mode)
  <2>1. CASE Startup
    BY <2>1 DEF Startup, UiShape, Moves, ModesInv
  <2>2. CASE Tick
    <3> PICK sp, st : ui' = [ui EXCEPT !.spawn = sp, !.status = st]
      BY <2>2 DEF Tick
    <3> QED
      BY DEF UiShape, Moves, ModesInv
  <2>3. CASE SpawningCapture
    <3> PICK sp, st : ui' = [ui EXCEPT !.spawn = sp, !.status = st]
      BY <2>3 DEF SpawningCapture
    <3> QED
      BY DEF UiShape, Moves, ModesInv
  <2>4. CASE DiagramsLoaded
    BY <2>4 DEF DiagramsLoaded, UiShape, Moves, ModesInv
  <2> QED
    BY <2>1, <2>2, <2>3, <2>4
<1> QED
  BY <1>1, <1>2, SameCools, NoStart, NotedKeeps DEF Still, Quiet

(* The agent the text is for stays selected, or the text is marked lost. *)
LEMMA StateUpdatedKeeps == ASSUME ModesInv, StateUpdated, Remembers PROVE ModesInv' /\ StartsFit
<1> PICK list \in Lists, moved \in BOOLEAN :
       /\ selected' \in Reselect(list, moved)
       /\ text' = IF text # NoText /\ (moved \/ text.agent \notin DOMAIN list)
                  THEN [text EXCEPT !.lost = TRUE] ELSE text
       /\ ui' \in {ui, Appeared}
  BY DEF StateUpdated
<1>1. NoCommand /\ UNCHANGED <<wizard, cooling, merged, diagrams, clashed>>
  BY DEF StateUpdated
<1>2. Moves(ui.mode)
  <2>1. CASE ui' = ui
    BY <2>1 DEF Moves, ModesInv
  <2>2. CASE ui' # ui
    <3> PICK sp, st : ui' = [ui EXCEPT !.spawn = sp, !.status = st]
      BY <2>2 DEF Appeared
    <3> QED
      BY DEF UiShape, Moves, ModesInv
  <2> QED
    BY <2>1, <2>2
<1>3. ui'.mode = ui.mode
  BY <1>2 DEF Moves
<1>4. Plain(ui.mode)
  BY <1>1, <1>2, SameCools, NoStart DEF Plain
<1>5. WizardFits'
  BY <1>1, <1>3, WizardKept
<1>6. TextFits'
  <2>1. CASE text = NoText
    BY <2>1, TextKept
  <2>2. CASE text # NoText /\ (moved \/ text.agent \notin DOMAIN list)
    <3>1. text' = [text EXCEPT !.lost = TRUE] /\ TextShape(text)
      BY <2>2 DEF ModesInv, TextFits
    <3>2. /\ TextShape(text') /\ text'.lost = TRUE /\ text'.mode = text.mode
          /\ text'.stolen = text.stolen
      BY <3>1 DEF TextShape
    <3> QED
      BY <1>3, <2>2, <3>2 DEF ModesInv, TextFits
  <2>3. CASE text # NoText /\ ~moved /\ text.agent \in DOMAIN list
    <3>1. text' = text
      BY <2>3
    <3>2. selected \in DOMAIN list => selected' = selected
      BY <2>3 DEF Reselect
    <3> QED
      BY <1>3, <2>3, <3>1, <3>2 DEF ModesInv, TextFits
  <2> QED
    BY <2>1, <2>2, <2>3
<1> QED
  BY <1>4, <1>5, <1>6, PlainKeeps DEF Plain

LEMMA CreateSessionKeeps ==
    ASSUME ModesInv, NEW c, CreateSession(c), Remembers PROVE ModesInv' /\ StartsFit
<1>1. Quiet /\ UNCHANGED <<wizard, cooling>> /\ RunsFit /\ StartsFit
  BY AnswerRuns DEF CreateSession
<1>2. CASE /\ ui' = [ui EXCEPT !.mode = "normal", !.status = "", !.spawn.pending = FALSE]
           /\ Steal
  <2> PICK sp : ui' = [ui EXCEPT !.mode = "normal", !.status = "", !.spawn = sp]
    BY <1>2
  <2>1. Moves("normal")
    BY DEF UiShape, Moves, ModesInv
  <2>2. Plain("normal")
    BY <1>1, <2>1, SameCools, ConfirmModesFact DEF Plain, Quiet
  <2>3. TextFits' /\ WizardFits'
    BY <1>1, <1>2, <2>1, TextKept, WizardKept DEF Moves, ModelModes
  <2> QED
    BY <1>1, <2>2, <2>3, PlainKeeps
<1>3. CASE ui' = [ui EXCEPT !.spawn.target = TRUE, !.spawn.trust = FALSE] /\ UNCHANGED text
  <2> PICK sp : ui' = [ui EXCEPT !.spawn = sp]
    BY <1>3
  <2>1. Moves(ui.mode)
    BY DEF UiShape, Moves, ModesInv
  <2> QED
    BY <1>1, <1>3, <2>1, SameCools, NotedKeeps DEF Quiet
<1> QED
  BY <1>2, <1>3 DEF CreateSession

LEMMA NotesKeep ==
    ASSUME ModesInv, NEW c, JumpResult(c) \/ OpenPRResult(c), Remembers
    PROVE  ModesInv' /\ StartsFit
<1>1. Quiet /\ UNCHANGED <<text, wizard, cooling>>
  BY DEF JumpResult, OpenPRResult
<1>2. RunsFit /\ StartsFit
  <2>1. \A d \in started' : d.cmd = "pin"
    <3>1. started' \subseteq {Command("pin", ui.opening)}
      <4>1. CASE JumpResult(c)
        BY <4>1 DEF JumpResult
      <4>2. CASE OpenPRResult(c)
        BY <4>2 DEF OpenPRResult, Pins
      <4> QED
        BY <4>1, <4>2
    <3> QED
      BY <3>1, CommandFact
  <2> QED
    BY <2>1, AnswerRuns DEF JumpResult, OpenPRResult
<1>3. Moves(ui.mode)
  <2> PICK sp, op : \/ ui' = [ui EXCEPT !.status = ""]
                    \/ ui' = [ui EXCEPT !.status = "", !.spawn = sp]
                    \/ ui' = [ui EXCEPT !.opening = op, !.status = ""]
    BY DEF JumpResult, OpenPRResult
  <2> QED
    BY DEF UiShape, Moves, ModesInv
<1> QED
  BY <1>1, <1>2, <1>3, SameCools, NotedKeeps DEF Quiet

LEMMA RawKeySentKeeps ==
    ASSUME ModesInv, NEW c, RawKeySent(c), Remembers PROVE ModesInv' /\ StartsFit
<1>1. Quiet /\ UNCHANGED <<wizard, cooling>> /\ RunsFit /\ StartsFit
  BY AnswerRuns DEF RawKeySent
<1>2. CASE ui' = [ui EXCEPT !.mode = "normal", !.status = ""] /\ text' = NoText
  <2>1. Moves("normal")
    BY <1>2 DEF UiShape, Moves, ModesInv
  <2>2. Plain("normal")
    BY <1>1, <2>1, SameCools, ConfirmModesFact DEF Plain, Quiet
  <2>3. TextFits' /\ WizardFits'
    BY <1>1, <1>2, <2>1, TextKept, WizardKept DEF Moves, ModelModes
  <2> QED
    BY <1>1, <2>2, <2>3, PlainKeeps
<1>3. CASE ui' = [ui EXCEPT !.status = ""] /\ UNCHANGED text
  <2>1. Moves(ui.mode)
    BY <1>3 DEF UiShape, Moves, ModesInv
  <2> QED
    BY <1>1, <1>3, <2>1, SameCools, NotedKeeps DEF Quiet
<1> QED
  BY <1>2, <1>3 DEF RawKeySent

(* The agent in the slot is the one whose merge has answered. *)
LEMMA MergeResultKeeps ==
    ASSUME ModesInv, NEW c \in running, MergeResult(c), Remembers PROVE ModesInv' /\ StartsFit
<1>1. /\ c.cmd = "merge" /\ running' = running \ {c}
      /\ UNCHANGED <<agents, selected, diagrams, clashed, wizard>>
  BY DEF MergeResult, Answer
<1>2. SpawnFitsHarness'
  BY <1>1 DEF SpawnFitsHarness, ModesInv
<1>3. CASE MergeFailed
  <2>1. /\ UiShape(ui') /\ ui'.mode = ui.mode /\ ui'.merging = NoAgent
        /\ ui'.cleaning = ui.cleaning /\ started' = {}
        /\ UNCHANGED <<text, cooling, merged>>
    BY <1>3 DEF MergeFailed, UiShape, ModesInv
  <2>2. MergesFit'
    BY <1>1, <2>1 DEF MergesFit, ModesInv
  <2>3. CleanupFollowsMerge'
    BY <1>1, <2>1 DEF CleanupFollowsMerge, ModesInv
  <2>4. TextFits' /\ WizardFits'
    BY <1>1, <2>1, TextKept, WizardKept
  <2>5. hasty' = hasty
    BY <2>1 DEF Remembers
  <2> QED
    BY <1>2, <2>1, <2>2, <2>3, <2>4, <2>5 DEF ModesInv, HastyIsCooling, StartsFit
<1>4. CASE OfferCleanup /\ merged' = merged \cup {c.agent} /\ cooling' = TRUE
  <2>1. /\ UiShape(ui') /\ ui'.mode = "confirmCleanup" /\ ui'.merging = NoAgent
        /\ ui'.cleaning = ui.merging
    BY <1>4 DEF OfferCleanup, UiShape, ModesInv
  <2>2. ~clashed => c.agent = ui.merging
    BY <1>1 DEF MergesFit, ModesInv
  <2>3. MergesFit'
    BY <1>1, <1>4, <2>1, <2>2 DEF MergesFit, ModesInv
  <2>4. CleanupFollowsMerge'
    BY <1>1, <1>4, <2>1, <2>2 DEF CleanupFollowsMerge, ModesInv
  <2>5. TextFits' /\ WizardFits'
    BY <1>1, <1>4, <2>1, TextKept, WizardKept DEF OfferCleanup, ModelModes
  <2>6. HastyIsCooling'
    BY <1>4 DEF HastyIsCooling
  <2>7. StartsFit
    BY <1>4, CommandFact DEF OfferCleanup, Pins, StartsFit
  <2> QED
    BY <1>2, <2>1, <2>3, <2>4, <2>5, <2>6, <2>7 DEF ModesInv
<1> QED
  BY <1>3, <1>4 DEF MergeResult

LEMMA CleanupResultKeeps ==
    ASSUME ModesInv, NEW c, CleanupResult(c), Remembers PROVE ModesInv' /\ StartsFit
<1>1. /\ running' = running \ {c} /\ started' = {}
      /\ diagrams' \in {diagrams, diagrams \ {ui.cleaning}}
      /\ UNCHANGED <<agents, selected, merged, clashed, text, wizard, cooling>>
  BY DEF CleanupResult, Answer
<1>2. /\ UiShape(ui') /\ ui'.mode = ui.mode /\ ui'.merging = ui.merging
      /\ ui'.cleaning = ui.cleaning
  BY DEF CleanupResult, UiShape, ModesInv
<1>3. MergesFit'
  BY <1>1, <1>2 DEF MergesFit, ModesInv
<1>4. CleanupFollowsMerge'
  BY <1>1, <1>2, NoAgentAssumption DEF CleanupFollowsMerge, MergesFit, ModesInv
<1>5. SpawnFitsHarness'
  BY <1>1 DEF SpawnFitsHarness, ModesInv
<1>6. TextFits' /\ WizardFits'
  BY <1>1, <1>2, TextKept, WizardKept
<1>7. hasty' = hasty
  BY <1>2 DEF Remembers
<1> QED
  BY <1>1, <1>2, <1>3, <1>4, <1>5, <1>6, <1>7 DEF ModesInv, HastyIsCooling, StartsFit

-----------------------------------------------------------------------------
(* Every step keeps the invariant, and starts only what the properties of  *)
(* a step allow.                                                           *)

LEMMA InitModesInv == Init => ModesInv
<1> SUFFICES ASSUME Init PROVE ModesInv
  OBVIOUS
<1>1. UiShape(ui) /\ ui.mode = "normal" /\ ui.cleaning = NoAgent
  BY DEF Init, UiShape
<1>2. WizardFits
  BY <1>1, NoWizardShape DEF Init, WizardFits, ModelModes
<1> QED
  BY <1>1, <1>2 DEF Init, ModesInv, TextFits, MergesFit, HastyIsCooling, SpawnFitsHarness,
                    CleanupFollowsMerge

LEMMA KeysKeep == ASSUME ModesInv, Keys, Remembers PROVE ModesInv' /\ StartsFit
<1>1. CASE Type \/ CreateKey \/ FolderKey \/ HarnessKey \/ SkillKey \/ ModelKey \/ EffortKey \/ MessageKey
  BY <1>1, TypeKeeps, CreateKeyKeeps, FolderKeyKeeps, HarnessKeyKeeps, SkillKeyKeeps, ModelKeyKeeps,
     EffortKeyKeeps, MessageKeyKeeps
<1>2. CASE ReplyKey \/ ReplyStart \/ CloseKey \/ DismissAllKey \/ JumpKey \/ MergeKey \/ SendKey \/ TrustKey
  BY <1>2, ReplyKeyKeeps, ReplyStartKeeps, AskKeysKeep, TrustKeyKeeps
<1>3. CASE ConfirmMergeKey \/ ConfirmCleanupKey \/ OpenPRKey \/ SearchStart \/ SearchKey \/ MoveKey
  BY <1>3, ConfirmMergeKeeps, ConfirmCleanupKeeps, OpenPRKeyKeeps, SearchStartKeeps, SearchKeyKeeps,
     MoveKeyKeeps
<1>4. CASE PanelToggle \/ PanelKey \/ OverlayKey
  BY <1>4, PanelToggleKeeps, PanelKeyKeeps, OverlayKeyKeeps
<1>5. ASSUME NEW mode \in ConfirmModes \ {"confirmMerge", "confirmCleanup"}, ConfirmKey(mode)
      PROVE  ModesInv' /\ StartsFit
  BY <1>5, ConfirmKeyKeeps
<1> QED
  BY <1>1, <1>2, <1>3, <1>4, <1>5 DEF Keys

LEMMA MessagesKeep == ASSUME ModesInv, Messages, Remembers PROVE ModesInv' /\ StartsFit
<1>1. CASE Startup \/ Tick \/ SpawningCapture \/ DiagramsLoaded
  BY <1>1, ClockKeeps
<1>2. CASE StateUpdated
  BY <1>2, StateUpdatedKeeps
<1>3. ASSUME NEW c \in running,
             \/ CreateSession(c) \/ JumpResult(c) \/ OpenPRResult(c) \/ MergeResult(c)
             \/ CleanupResult(c) \/ RawKeySent(c)
      PROVE  ModesInv' /\ StartsFit
  BY <1>3, CreateSessionKeeps, NotesKeep, MergeResultKeeps, CleanupResultKeeps, RawKeySentKeeps
<1> QED
  BY <1>1, <1>2, <1>3 DEF Messages

(* When time passes neither the cooldown nor the haste is left. *)
LEMMA WaitKeeps == ASSUME ModesInv, Wait, hasty' = FALSE PROVE ModesInv' /\ StartsFit
<1>1. /\ cooling' = FALSE /\ started' = {}
      /\ UNCHANGED <<agents, selected, ui, text, wizard, running, merged, diagrams, clashed>>
  BY DEF Wait, Still, Quiet, NoCommand
<1>2. TextFits' /\ WizardFits'
  BY <1>1, TextKept, WizardKept
<1> QED
  BY <1>1, <1>2 DEF ModesInv, MergesFit, CleanupFollowsMerge, SpawnFitsHarness, HastyIsCooling, StartsFit

LEMMA NextKeeps == ASSUME ModesInv, Next PROVE ModesInv' /\ StartsFit
<1>1. CASE (Keys \/ Messages) /\ Remembers
  BY <1>1, KeysKeep, MessagesKeep
<1>2. CASE Wait /\ hasty' = FALSE
  BY <1>2, WaitKeeps
<1> QED
  BY <1>1, <1>2 DEF Next, Remembers

LEMMA StutterKeeps == ASSUME ModesInv, UNCHANGED vars PROVE ModesInv'
BY DEF vars, ModesInv, UiShape, TextFits, TextShape, WizardFits, WizardShape, ModelModes, MergesFit,
       HastyIsCooling, SpawnFitsHarness, CleanupFollowsMerge

LEMMA ModesInvariant == Spec => []ModesInv
<1>1. ModesInv /\ [Next]_vars => ModesInv'
  BY NextKeeps, StutterKeeps
<1> QED
  BY <1>1, InitModesInv, PTL DEF Spec

(* Whatever way through the wizard was taken, forth and back, and whatever *)
(* answers and lists came in between, an agent is spawned with a model its *)
(* own harness offers (model.go:263-283).                                  *)
THEOREM SpawnFits == Spec => []SpawnFitsHarness
<1>1. ModesInv => SpawnFitsHarness
  BY DEF ModesInv
<1> QED
  BY <1>1, ModesInvariant, PTL

(* As long as no merge was started before the answer of another one, only  *)
(* worktrees and diagrams of agents whose pull request was merged are      *)
(* cleaned up, however many commands run and in whatever order they answer *)
(* (model.go:1346-1368).                                                   *)
THEOREM CleanupAfterMerge == Spec => []CleanupFollowsMerge
<1>1. ModesInv => CleanupFollowsMerge
  BY DEF ModesInv
<1> QED
  BY <1>1, ModesInvariant, PTL

(* A reply goes to the agent it was begun for, unless that one was lost,   *)
(* and no dialog submits the text of another (keys.go:582-607).            *)
THEOREM TextGoesRight == Spec => TextGoesWhereItWasTyped
<1>1. ModesInv /\ [Next]_vars =>
          [\A c \in started' :
             c.cmd \in {"reply", "create"} /\ text # NoText /\ ~text.stolen
                => /\ text.mode = ui.mode
                   /\ c.cmd = "reply" => c.agent = text.agent \/ text.lost]_vars
  BY NextKeeps DEF StartsFit
<1> QED
  BY <1>1, ModesInvariant, PTL DEF Spec, TextGoesWhereItWasTyped

(* No burst of keys confirms what one of them asked (keys.go:30-33).       *)
THEOREM BurstsConfirm == Spec => BurstsConfirmNothing
<1>1. ModesInv /\ [Next]_vars =>
          [\A c \in started' : ui.mode \in ConfirmModes /\ c.cmd # "pin" => ~hasty]_vars
  BY NextKeeps DEF StartsFit
<1> QED
  BY <1>1, ModesInvariant, PTL DEF Spec, BurstsConfirmNothing
=============================================================================
