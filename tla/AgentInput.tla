----------------------------- MODULE AgentInput -----------------------------
(***************************************************************************)
(* What the dashboards type into the panes of the agents: replies,         *)
(* approvals, single keys and the answers of a question card               *)
(* (internal/web/actions.go, internal/tui/commands.go sendReply, sendRawKey)*)
(* as the tmux commands of internal/tmux, one after the other, while other *)
(* requests type, users type, panes close and agents begin and end turns.  *)
(*                                                                         *)
(* The agent's prompt and its question picker are external: they do what   *)
(* the drivers' comments say of them.                                      *)
(***************************************************************************)
EXTENDS Integers, FiniteSets, SequencesExt

CONSTANTS
    None,
    Agents,
    Codex,        \* those of the codex harness
    Senders,      \* requests in flight: web handlers and the TUI's commands
    Texts,        \* replies: sequences of words
    Skills,       \* the names a "$name" word is expanded for
    Surveys,      \* what may be asked: sequences of [options, multi]
    Cards,        \* what may be answered: sequences of [picks, other, multi, options]
    MaxRequests,  \* bound on requests
    MaxEvents     \* bound on what happens besides

VARIABLES
    window,   \* the agents of the window in the order of its panes
    agent,    \* agent -> its prompt, its picker and what it has been given
    card,     \* agent -> the question its state file holds, and its current tool
    buffer,   \* the paste buffer "agent-dashboard-reply"
    sender,   \* sender -> the request it is sending
    requests, events

vars == <<window, agent, card, buffer, sender, requests, events>>

(* A word; sigil: it begins with "$"; plugin: a ":" follows in it. *)
Word(name) == [name |-> name, sigil |-> FALSE, plugin |-> FALSE]

Qualified(w) ==
    IF w.sigil /\ ~w.plugin /\ w.name \in Skills THEN [w EXCEPT !.plugin = TRUE] ELSE w

Words == [name : STRING, sigil : BOOLEAN, plugin : BOOLEAN]

(* What requests are made of; None stands for no text. *)
Sendable ==
    /\ IsFiniteSet(Agents)
    /\ Texts \subseteq Seq(Words) /\ None \notin Seq(Words)
    /\ Cards \subseteq Seq([options : Nat, multi : BOOLEAN, picks : Seq(Nat), other : Seq(Words)])

ExpandCodexShortkeys(text) == [i \in DOMAIN text |-> Qualified(text[i])]

-----------------------------------------------------------------------------
(* The tmux commands.                                                       *)

Keys(ks) == [cmd |-> "keys", arg |-> ks]

Key(k) == Keys(<<k>>)

Type(ws) == [cmd |-> "type", arg |-> ws]

SetBuffer(text) == [cmd |-> "buffer", arg |-> text]

Paste == [cmd |-> "paste", arg |-> <<>>]

(* Capture the pane and choose the keys that submit. *)
Look(state) == [cmd |-> "look", arg |-> state]

(* A chunk is a word here. *)
TmuxSendKeys(text) == [i \in DOMAIN text |-> Type(<<text[i]>>)] \o <<Key("Enter")>>

(* Mistake: the draft in the prompt is not cleared first. *)
PasteKeys(text) == <<SetBuffer(text), Paste>>

TmuxPasteKeysClearingInput(text) == <<Key("C-u"), SetBuffer(text), Paste>>

stateMayQueue(state) == state \in {"running", "permission", "plan"}

fallbackSubmitKeys(state) ==
    IF stateMayQueue(state) THEN <<Key("Tab"), Key("Enter")>> ELSE <<Key("Enter")>>

SubmitKeys(hint, state) ==
    IF hint \/ state \in {"permission", "plan"} THEN <<Key("Tab"), Key("Enter")>> ELSE <<Key("Enter")>>

Itoa(n) ==
    LET D == <<"1", "2", "3", "4", "5", "6", "7", "8", "9">>
    IN  IF n < 10 THEN <<D[n]>> ELSE <<D[n \div 10], IF n % 10 = 0 THEN "0" ELSE D[n % 10]>>

(* The keys of digits, and their numbers. *)
Digits == {"0", "1", "2", "3", "4", "5", "6", "7", "8", "9"}

Digit(key) == CHOOSE n \in 0..9 : (n > 0 /\ Itoa(n) = <<key>>) \/ (n = 0 /\ key = "0")

(* Mistake: no Tab after the picks of a multi-select question. *)
PickEach(c) ==
    FlattenSeq([i \in DOMAIN c |->
        IF c[i].other # <<>> THEN <<Keys(Itoa(c[i].options + 1))>> \o TmuxSendKeys(c[i].other)
        ELSE [j \in DOMAIN c[i].picks |-> Keys(Itoa(c[i].picks[j] + 1))]]) \o <<Key("Enter")>>

driveAskUserQuestionPicker(c) ==
    FlattenSeq([i \in DOMAIN c |->
        IF c[i].other # <<>> THEN <<Keys(Itoa(c[i].options + 1))>> \o TmuxSendKeys(c[i].other)
        ELSE [j \in DOMAIN c[i].picks |-> Keys(Itoa(c[i].picks[j] + 1))]
             \o (IF c[i].multi THEN <<Key("Tab")>> ELSE <<>>)])
    \o <<Key("Enter")>>

driveCodexRequestUserInputPicker(c) ==
    LET Down(n) == [j \in 1..n |-> Key("Down")]
    IN  FlattenSeq([i \in DOMAIN c |->
            IF c[i].other # <<>> THEN Down(c[i].options) \o <<Key("Tab")>> \o TmuxSendKeys(c[i].other)
            ELSE Down(Head(c[i].picks)) \o <<Key("Enter")>>])

-----------------------------------------------------------------------------
(* The agent: a prompt with a text, and over it at times a picker, at the   *)
(* question after those answered.                                           *)

Fresh(qs) == [qs |-> qs, answers |-> <<>>, row |-> 0, marks |-> {}, typed |-> None]

At(k) == k.qs[Len(k.answers) + 1]

Submitted(k) == Len(k.answers) = Len(k.qs)

(* The prompt's text, or the picker's answers, are given to the agent. *)
Given(g, what) == [g EXCEPT !.mode = "busy", !.picker = None, !.got = Append(@, what)]

Answered(a, g, ans) ==
    LET k == [Fresh(g.picker.qs) EXCEPT !.answers = Append(g.picker.answers, ans)]
    IN  IF a \in Codex /\ Submitted(k) THEN Given(g, k.answers) ELSE [g EXCEPT !.picker = k]

Choice(picks, text) == [picks |-> picks, text |-> text]

Pressed(a, g, key) ==
    LET k == g.picker
        text == [g EXCEPT !.text = <<>>]
        asks == g.mode = "asking" /\ ~Submitted(k)
        digit == Digit(key)
    IN  CASE g.mode = "asking" /\ key \in {"Escape", "C-c"} -> [g EXCEPT !.mode = "idle", !.picker = None]
          [] g.mode = "busy" /\ key \in {"Escape", "C-c"} -> [g EXCEPT !.mode = "idle"]
          [] g.mode = "idle" /\ key = "C-c" -> text
          [] g.mode # "asking" /\ key = "C-u" -> text
          [] g.mode # "asking" /\ key \in Digits -> [g EXCEPT !.text = Append(@, Word(key))]
          [] g.mode # "asking" /\ key = "Enter" /\ g.text # <<>> /\ (g.mode = "idle" \/ a \notin Codex) ->
                 Given(text, g.text)
          [] g.mode = "busy" /\ key = "Tab" /\ g.text # <<>> /\ a \in Codex -> Given(text, g.text)
          [] asks /\ key = "Enter" /\ k.typed # None ->
                 Answered(a, g, Choice(IF a \in Codex /\ k.row < At(k).options THEN {k.row} ELSE {}, k.typed))
          [] asks /\ key = "Enter" /\ a \in Codex /\ k.typed = None -> Answered(a, g, Choice({k.row}, <<>>))
          [] asks /\ key = "Tab" /\ a \in Codex /\ k.typed = None -> [g EXCEPT !.picker.typed = <<>>]
          [] asks /\ key = "Tab" /\ a \notin Codex /\ At(k).multi -> Answered(a, g, Choice(k.marks, <<>>))
          [] asks /\ key = "Down" /\ a \in Codex /\ k.row < At(k).options -> [g EXCEPT !.picker.row = @ + 1]
          [] asks /\ key \in Digits /\ a \notin Codex /\ k.typed = None /\ digit \in 1..At(k).options ->
                 IF ~At(k).multi THEN Answered(a, g, Choice({digit - 1}, <<>>))
                 ELSE [g EXCEPT !.picker.marks = SymDiff(@, {digit - 1})]
          [] asks /\ key \in Digits /\ a \notin Codex /\ k.typed = None /\ digit = At(k).options + 1 ->
                 [g EXCEPT !.picker.typed = <<>>]
          [] g.mode = "asking" /\ ~asks /\ key = "Enter" -> Given(g, k.answers)
          [] OTHER -> g

(* One key, or the two digits of a number. *)
Press(a, g, ks) ==
    LET h == Pressed(a, g, ks[1])
    IN  IF Len(ks) = 1 THEN h ELSE Pressed(a, h, ks[2])

Typed(g, ws) ==
    IF g.mode # "asking" THEN [g EXCEPT !.text = @ \o ws]
    ELSE IF g.picker.typed # None THEN [g EXCEPT !.picker.typed = @ \o ws] ELSE g

ShowsQueueHint(a) == a \in Codex /\ agent[a].mode = "busy" /\ agent[a].text # <<>>

-----------------------------------------------------------------------------
Init ==
    /\ window \in SetToSeqs(Agents)
    /\ agent = [a \in Agents |-> [mode |-> "idle", text |-> <<>>, got |-> <<>>, picker |-> None]]
    /\ card = [a \in Agents |-> None]
    /\ buffer = None
    /\ sender = [p \in Senders |-> None]
    /\ requests = 0 /\ events = 0

Active == {p \in Senders : sender[p] # None}

(* Whom the request is for, and whom it reaches when panes have moved. *)
Reaches(x) == {x.to} \cup {window[i] : i \in {x.target} \cap DOMAIN window}

(* Two requests type over each other, or share the paste buffer. *)
Cross(x, y) ==
    \/ Reaches(x) \cap Reaches(y) # {}
    \/ x.to \in Codex /\ y.to \in Codex /\ x.kind = "reply" /\ y.kind = "reply"

(* The agent is ready for what is wanted. *)
Ready(a, kind, qs, cs) ==
    IF kind = "reply" THEN agent[a].mode # "asking" /\ (a \in Codex \/ agent[a].text = <<>>)
    ELSE /\ agent[a].mode = "asking" /\ agent[a].picker = Fresh(qs) /\ Len(cs) = Len(qs)
         /\ \A i \in DOMAIN cs :
                /\ cs[i].options = qs[i].options /\ cs[i].options < 9
                /\ cs[i].multi = qs[i].multi
                /\ cs[i].other = <<>> => IsInjective(cs[i].picks)
                /\ cs[i].other = <<>> /\ ~cs[i].multi => Len(cs[i].picks) = 1

Wanted(a, c) ==
    IF c.other # <<>> THEN Choice({}, c.other)
    ELSE Choice(IF a \in Codex THEN {Head(c.picks)} ELSE ToSet(c.picks), <<>>)

(* A request begins: its target is where the agent's pane is now.  calm is  *)
(* history: whether nothing has come between it and the agent.              *)
Send(p, a, kind, script, want, ready) ==
    LET x == [to |-> a, kind |-> kind, target |-> CHOOSE i \in DOMAIN window : window[i] = a]
        y == [to |-> a, kind |-> kind, target |-> x.target, script |-> script, failed |-> FALSE,
              want |-> want, nth |-> Len(agent[a].got) + 1,
              calm |-> ready /\ \A q \in Active : ~Cross(x, sender[q])]
    IN  /\ sender[p] = None /\ a \in ToSet(window)
        /\ requests < MaxRequests /\ requests' = requests + 1
        /\ sender' = [q \in Senders |->
               IF q = p THEN y
               ELSE IF sender[q] # None /\ Cross(x, sender[q]) THEN [sender[q] EXCEPT !.calm = FALSE]
               ELSE sender[q]]
        /\ UNCHANGED <<window, agent, card, buffer, events>>

(* A reply or an approval, by the state the dashboard has last read. *)
Reply(p, a, text, state) ==
    LET t == ExpandCodexShortkeys(text)
    IN  /\ text # <<>>
        /\ IF a \in Codex
           THEN Send(p, a, "reply", TmuxPasteKeysClearingInput(t) \o <<Look(state)>>, t, Ready(a, "reply", <<>>, <<>>))
           ELSE Send(p, a, "reply", TmuxSendKeys(text), text, Ready(a, "reply", <<>>, <<>>))

(* Stop, a confirmed key, the Escape of a reply to a plan. *)
SendRawKey(p, a, key) == Send(p, a, "key", <<Key(key)>>, None, FALSE)

(* The question the hooks have stamped, or the conversation's when there is *)
(* none.                                                                    *)
PausedOnQuestion(a) ==
    IF card[a] # None THEN card[a].qs
    ELSE IF agent[a].mode = "asking" THEN agent[a].picker.qs ELSE None

(* A stamped question must be what the current tool is asking. *)
AnswerQuestion(p, a, cs) ==
    /\ PausedOnQuestion(a) # None
    /\ card[a] # None => card[a].tool
    /\ cs # <<>>
    /\ \A i \in DOMAIN cs :
           /\ cs[i].options > 0
           /\ cs[i].other # <<>> \/ cs[i].picks # <<>>
           /\ ToSet(cs[i].picks) \subseteq 0..(cs[i].options - 1)
    /\ Send(p, a, "answer",
            IF a \in Codex THEN driveCodexRequestUserInputPicker(cs) ELSE driveAskUserQuestionPicker(cs),
            [i \in DOMAIN cs |-> Wanted(a, cs[i])], Ready(a, "answer", PausedOnQuestion(a), cs))

-----------------------------------------------------------------------------
(* The next tmux command of p, at the position it resolved, whoever is      *)
(* there now.                                                               *)
Arg(p) == Head(sender[p].script).arg

Command(p, c) ==
    /\ sender[p] # None /\ sender[p].script # <<>> /\ Head(sender[p].script).cmd = c
    /\ sender[p].target \in DOMAIN window

There(p) == window[sender[p].target]

(* What follows the command, and whether p is still undisturbed. *)
Go(p, script, calm) ==
    sender' = [sender EXCEPT ![p].script = script, ![p].calm = @ /\ calm]

SendKeys(p) ==
    /\ Command(p, "keys")
    /\ agent' = [agent EXCEPT ![There(p)] = Press(There(p), @, Arg(p))]
    /\ Go(p, Tail(sender[p].script), TRUE)
    /\ UNCHANGED <<window, card, buffer, requests, events>>

SendLiteral(p) ==
    /\ Command(p, "type")
    /\ agent' = [agent EXCEPT ![There(p)] = Typed(@, Arg(p))]
    /\ Go(p, Tail(sender[p].script), TRUE)
    /\ UNCHANGED <<window, card, buffer, requests, events>>

FillBuffer(p) ==
    /\ Command(p, "buffer")
    /\ buffer' = Arg(p)
    /\ Go(p, Tail(sender[p].script), TRUE)
    /\ UNCHANGED <<window, agent, card, requests, events>>

(* -d: the buffer is gone after it. *)
PasteBuffer(p) ==
    /\ Command(p, "paste") /\ buffer # None
    /\ agent' = [agent EXCEPT ![There(p)] = Typed(@, buffer)]
    /\ buffer' = None
    /\ Go(p, Tail(sender[p].script), TRUE)
    /\ UNCHANGED <<window, card, requests, events>>

(* The footer of the pane, or the state when it cannot be captured. *)
SubmitKeysAfterPaste(p) ==
    /\ Command(p, "look")
    /\ \/ Go(p, SubmitKeys(ShowsQueueHint(There(p)), Arg(p)), TRUE)
       \/ Go(p, fallbackSubmitKeys(Arg(p)), stateMayQueue(Arg(p)) \/ agent[There(p)].mode = "idle")
    /\ UNCHANGED <<window, agent, card, buffer, requests, events>>

(* A command fails: no such pane, no buffer, a timeout.  The picker is *)
(* aborted. *)
Fail(p) ==
    /\ sender[p] # None /\ sender[p].script # <<>> /\ events < MaxEvents
    /\ events' = events + 1
    /\ sender' = [sender EXCEPT ![p].failed = TRUE,
           ![p].script = IF sender[p].kind = "answer" /\ ~sender[p].failed THEN <<Key("Escape")>> ELSE <<>>]
    /\ UNCHANGED <<window, agent, card, buffer, requests>>

Return(p) ==
    /\ sender[p] # None /\ sender[p].script = <<>>
    /\ sender' = [sender EXCEPT ![p] = None]
    /\ UNCHANGED <<window, agent, card, buffer, requests, events>>

-----------------------------------------------------------------------------
(* Whom the event disturbs. *)
Happens(Hit(_)) ==
    /\ events < MaxEvents /\ events' = events + 1
    /\ sender' = [p \in Senders |-> IF sender[p] # None /\ Hit(sender[p])
                                    THEN [sender[p] EXCEPT !.calm = FALSE] ELSE sender[p]]

(* A turn that begins after the footer was read finds the wrong keys. *)
TurnStarts(a) ==
    /\ agent[a].mode = "idle"
    /\ agent' = [agent EXCEPT ![a].mode = "busy"]
    /\ Happens(LAMBDA x : x.to = a /\ a \in Codex /\ \A i \in DOMAIN x.script : x.script[i].cmd # "look")
    /\ UNCHANGED <<window, card, buffer, requests>>

TurnEnds(a) ==
    /\ agent[a].mode = "busy"
    /\ agent' = [agent EXCEPT ![a].mode = "idle"]
    /\ Happens(LAMBDA x : FALSE)
    /\ UNCHANGED <<window, card, buffer, requests>>

Asks(a, qs) ==
    /\ agent[a].mode = "busy"
    /\ agent' = [agent EXCEPT ![a].mode = "asking", ![a].picker = Fresh(qs)]
    /\ Happens(LAMBDA x : x.to = a)
    /\ UNCHANGED <<window, card, buffer, requests>>

(* The hooks write what the agent asks, or that it no longer does; the tool *)
(* is cleared first.                                                        *)
Stamp(a) ==
    /\ card' = [card EXCEPT ![a] = IF agent[a].mode = "asking" THEN [qs |-> agent[a].picker.qs, tool |-> TRUE]
                                   ELSE IF @ # None /\ @.tool THEN [@ EXCEPT !.tool = FALSE] ELSE None]
    /\ UNCHANGED <<window, agent, buffer, sender, requests, events>>

(* The user at the terminal types a draft, or leaves the picker. *)
UserTypes(a) ==
    /\ agent' = [agent EXCEPT ![a] = IF @.mode = "asking" THEN Pressed(a, @, "Escape") ELSE Typed(@, <<Word("draft")>>)]
    /\ Happens(LAMBDA x : x.to = a)
    /\ UNCHANGED <<window, card, buffer, requests>>

(* The panes behind it move up. *)
ClosePane(i) ==
    /\ window' = RemoveAt(window, i)
    /\ Happens(LAMBDA x : \E q \in Active :
           /\ sender[q].target >= i
           /\ x = sender[q] \/ x.to \in {window'[j] : j \in {sender[q].target} \cap DOMAIN window'})
    /\ UNCHANGED <<agent, card, buffer, requests>>

Next ==
    \/ \E p \in Senders, a \in Agents :
           \/ \E t \in Texts, st \in {"running", "plan", "done"} : Reply(p, a, t, st)
           \/ \E k \in {"C-c", "Escape"} : SendRawKey(p, a, k)
           \/ \E cs \in Cards : AnswerQuestion(p, a, cs)
    \/ \E p \in Senders :
           \/ SendKeys(p) \/ SendLiteral(p) \/ FillBuffer(p) \/ PasteBuffer(p)
           \/ SubmitKeysAfterPaste(p) \/ Fail(p) \/ Return(p)
    \/ \E a \in Agents :
           \/ TurnStarts(a) \/ TurnEnds(a) \/ Stamp(a) \/ UserTypes(a)
           \/ \E qs \in Surveys : Asks(a, qs)
    \/ \E i \in DOMAIN window : ClosePane(i)

Spec == Init /\ [][Next]_vars

-----------------------------------------------------------------------------
(* What was asked arrives, whole and unmixed, as the agent's next prompt or *)
(* as the answers to the questions it asked, when the request succeeds and  *)
(* nothing came between: another request that types to the same agent or    *)
(* pastes, a pane before it that closed, the user's typing, a draft in a    *)
(* claude prompt, a question over it, a turn that began after the footer    *)
(* was read, a card that is not the picker's or that answers a question     *)
(* twice.  (The requests reach one agent by several commands each.)         *)
InputArrives ==
    \A p \in Senders :
        LET x == sender[p]
        IN  x # None /\ x.script = <<>> /\ x.calm /\ ~x.failed =>
                LET g == agent[x.to].got
                IN  x.nth \in DOMAIN g /\ g[x.nth] = x.want
=============================================================================
