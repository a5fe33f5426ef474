-------------------------- MODULE AgentHooksProofs --------------------------
(***************************************************************************)
(* Proofs about the hooks of one session, for any number of processes      *)
(* alive at a time, events and subagents: a stop state stands against      *)
(* earlier events, and the record that the last hook leaves says what the  *)
(* session does.                                                           *)
(***************************************************************************)
EXTENDS AgentHooks, AgentRecordProofs

HookShape(h) ==
    h = [pc |-> h.pc, script |-> h.script, name |-> h.name, tool |-> h.tool,
         detected |-> h.detected, n |-> h.n, seq |-> h.seq, write |-> h.write]

(* The events hooks are started for, and by which script. *)
OfEvent(h) ==
    \/ h.script = "fast" /\ h.name \in {"PreToolUse", "PostToolUse"} /\ h.tool \in Tools
    \/ h.script = "fast" /\ h.name = "PermissionRequest" /\ h.tool \in Tools \ Delegating
    \/ /\ h.script = "reporter" /\ h.tool = ""
       /\ h.name \in {"SessionStart", "SubagentStart", "SubagentStop", "Stop"}
       /\ h.name = "Stop" => h.detected \in Detected
    \/ /\ h.script \in {"pr-create", "pr-merge"} /\ h.tool \in {"", "Bash"}
       /\ h.name \in {"UserPromptSubmit", "PostToolUse"}
    \/ h.script = "gate" /\ h.name = "PreToolUse" /\ h.tool = "Bash"

Working == {"running", "permission"}

(* The tools whose call puts the agent into a stop state. *)
Stopping == UserTools \cup {"Plan"}

Names(h, field) == field \in DOMAIN h.write.update

(* What each hook may come to write. *)
WriteFits(h) ==
    /\ IsUpdate(h.write.update)
    /\ h.write.guard \in {{}, StopStates}
    /\ h.name # "SubagentStop" => ~h.write.preserve
    /\ h.script # "gate" => Names(h, "report_seq")
    /\ Names(h, "report_seq") => h.write.update.report_seq = h.seq
    /\ Names(h, "pinned_state") => h.script \in {"pr-create", "pr-merge"}
    /\ Names(h, "preview") => h.script = "reporter" /\ h.write.update.preview \in {0, h.n}
    /\ h.script = "gate" => ~Names(h, "state")
    /\ h.name = "SubagentStop" => h.write.guard = StopStates
    /\ h.script = "fast" /\ h.name # "PostToolUse" => Names(h, "state") /\ h.write.guard = {}
    /\ Names(h, "state") =>
          LET state == h.write.update.state IN
          /\ h.script = "fast" /\ h.name = "PostToolUse" => state = "running" /\ h.write.guard = StopStates
          /\ h.script = "fast" /\ h.name # "PostToolUse" =>
                state \in IF h.tool \in Stopping THEN StopStates ELSE Working
          /\ h.name \in {"SessionStart", "SubagentStart"} => state = "running"
          /\ h.name = "Stop" => state \in StopStates \/ h.write.guard = StopStates
          /\ h.script \in {"pr-create", "pr-merge"} => state \in {"pr", "merged"}

HookFits(h) ==
    /\ HookShape(h) /\ OfEvent(h)
    /\ h.pc \in {"start", "entered", "write"}
    /\ h.n \in 1..events
    /\ h.seq \in 0..clock
    /\ h.pc = "entered" => h.script \in {"fast", "reporter"}
    /\ h.pc = "write" => WriteFits(h)

HooksFit ==
    /\ hooks = [s \in Slots |-> hooks[s]]
    /\ \A s \in InFlight : HookFits(hooks[s])
    /\ Existing(file).report_seq <= clock /\ Existing(file).preview <= events

(* Until the session has shown that it started nothing else goes on. *)
StartsAlone ==
    /\ session.phase = "new" => InFlight = {} /\ stateBy = 0 /\ session.subagents = 0 /\ seen = {}
    /\ IF session.phase \in {"tool", "asking"} THEN session.tool \in Tools ELSE session.tool = ""
    /\ \A s \in InFlight : hooks[s].name = "SessionStart" =>
          InFlight = {s} /\ stateBy = 0 /\ session.phase = "idle" /\ session.subagents = 0

(* Every event has one hook, but for that of the gate. *)
OneEach ==
    \A s \in InFlight : hooks[s].script # "gate" =>
        /\ hooks[s].n # stateBy /\ hooks[s].n # Existing(file).preview
        /\ \A t \in InFlight \ {s} : hooks[t].script # "gate" => hooks[t].n # hooks[s].n

-----------------------------------------------------------------------------
(* Who may take the agent out of a stop state is behind, in stamps as in   *)
(* events, whoever puts it into one.                                       *)

(* The stamp a hook has or, before its entry, will have at least. *)
Limit(h) == IF h.pc = "start" THEN clock ELSE h.seq

Behind(h, limit) == h.pc # "start" /\ h.seq < limit

NotAfter(h, limit) == h.pc # "start" /\ h.seq <= limit

Taker(h) == h.script = "fast" /\ h.name \in {"PreToolUse", "PermissionRequest"} /\ h.tool \notin UserTools

Setter(h) ==
    \/ h.script = "fast" /\ h.name # "PostToolUse" /\ h.tool \in Stopping
    \/ h.name = "Stop"

TakersBehind ==
    \A s \in InFlight : Taker(hooks[s]) =>
        /\ \A t \in InFlight :
              Setter(hooks[t]) /\ hooks[s].n < hooks[t].n => Behind(hooks[s], Limit(hooks[t]))
        /\ session.tool \in UserTools => Behind(hooks[s], clock)
        /\ Existing(file).state \in StopStates /\ hooks[s].n < stateBy
              => Behind(hooks[s], Existing(file).report_seq)

-----------------------------------------------------------------------------
(* Sessions that delegate nothing and open no pull request.                *)

Plain == seen \cap {"delegation", "pr", "gate"} = {}

PlainFits ==
    Plain =>
        /\ session.subagents = 0 /\ session.tool \notin Delegating
        /\ Existing(file).pinned_state # "merged"
        /\ \A s \in InFlight :
              /\ hooks[s].script \in {"fast", "reporter"} /\ hooks[s].tool \notin Delegating
              /\ hooks[s].name \notin SubagentEvents

(* The hook that ends the turn has still to write, and nobody is ahead. *)
StopPending(s) ==
    /\ hooks[s].name = "Stop"
    /\ hooks[s].pc = "write" =>
          Names(hooks[s], "state") /\ hooks[s].write.update.state \in StopStates /\ hooks[s].write.guard = {}
    /\ Existing(file).report_seq <= Limit(hooks[s])
    /\ \A t \in InFlight \ {s} :
          /\ NotAfter(hooks[t], Limit(hooks[s]))
          /\ hooks[t].name # "PostToolUse" => hooks[t].seq < Limit(hooks[s])

Stopped ==
    /\ Existing(file).state \in StopStates
    /\ \A t \in InFlight :
          hooks[t].name # "PostToolUse" => Behind(hooks[t], Existing(file).report_seq)

TurnEnds ==
    Plain /\ session.phase = "idle" /\ "Stop" \in seen => Stopped \/ \E s \in InFlight : StopPending(s)

Commanding == session.phase \in {"tool", "asking"} /\ session.tool = "Bash"

(* Between two answers of the user there are only hooks of commands. *)
OnlyCommands ==
    Plain /\ (session.phase = "thinking" \/ Commanding) =>
        \A s \in InFlight :
            hooks[s].script = "fast" /\ (hooks[s].name = "PostToolUse" \/ hooks[s].tool = "Bash")

(* The hook of the command has still to write, and nobody is ahead. *)
CommandPending(s) ==
    /\ hooks[s].script = "fast" /\ hooks[s].name = "PreToolUse" /\ hooks[s].tool = "Bash"
    /\ Existing(file).report_seq <= Limit(hooks[s])
    /\ \A t \in InFlight : hooks[t].name = "PostToolUse" => NotAfter(hooks[t], Limit(hooks[s]))

CommandShows ==
    Plain /\ Commanding => Existing(file).state \in Working \/ \E s \in InFlight : CommandPending(s)

HooksInv ==
    /\ TypeOK /\ HooksFit /\ StartsAlone /\ OneEach /\ TakersBehind
    /\ PlainFits /\ TurnEnds /\ OnlyCommands /\ CommandShows

-----------------------------------------------------------------------------
(* What the parts of the invariant say in more usable words.               *)

LEMMA RecordTyped ==
    ASSUME TypeOK
    PROVE  /\ IsRecord(Existing(file)) /\ Existing(file).report_seq \in Nat
           /\ Existing(file).preview \in Nat /\ Existing(file).subagent_count \in Nat
           /\ Existing(file).state \in States
           /\ clock \in Nat /\ events \in Nat /\ stateBy \in Nat /\ stateBy <= events
           /\ MaxEvents \in Nat /\ events <= MaxEvents
<1>1. IsRecord(Existing(file))
  BY ExistingTyped DEF TypeOK
<1>2. {"report_seq", "preview", "subagent_count", "state"} \subseteq Fields
  BY FieldNames
<1>3. /\ Values["report_seq"] = Nat /\ Values["preview"] = Nat /\ Values["subagent_count"] = Nat
      /\ Values["state"] = States
  BY DEF Values
<1>4. \A f \in Fields : Existing(file)[f] \in Values[f]
  BY <1>1 DEF IsRecord
<1>5. clock \in Nat /\ events \in 0..MaxEvents /\ stateBy \in 0..events
  BY DEF TypeOK
<1>6. events \in Nat /\ stateBy \in Nat /\ stateBy <= events /\ MaxEvents \in Nat /\ events <= MaxEvents
  BY <1>5, BoundAssumption
<1> QED
  BY <1>1, <1>2, <1>3, <1>4, <1>5, <1>6

LEMMA HookTyped ==
    ASSUME HooksInv, NEW s \in InFlight
    PROVE  /\ s \in Slots /\ HookFits(hooks[s]) /\ hooks[s].pc # "free"
           /\ hooks[s].seq \in Nat /\ hooks[s].seq <= clock
           /\ hooks[s].n \in Nat /\ hooks[s].n >= 1 /\ hooks[s].n <= events
BY RecordTyped DEF HooksInv, HooksFit, HookFits, InFlight

LEMMA FreeFact == /\ Free.pc = "free"
                  /\ \A h : HookFits(h) => h # Free /\ h.pc # "free"
BY DEF Free, HookFits

-----------------------------------------------------------------------------
(* The session goes on, with or without starting hooks.                    *)

Ticks == clock' \in {clock, clock + 1}

Fresh(h) ==
    HookShape(h) /\ OfEvent(h) /\ h.pc = "start" /\ h.n = events + 1 /\ h.seq = NoSeq

Sent(s) == hooks'[s] # hooks[s]

Emission ==
    /\ UNCHANGED <<file, stateBy>> /\ seen \subseteq seen' /\ Ticks
    /\ hooks' = [s \in Slots |-> hooks'[s]]
    /\ events' \in {events, events + 1} /\ events' <= MaxEvents
    /\ \A s \in Slots : Sent(s) => hooks[s] = Free /\ Fresh(hooks'[s]) /\ events' = events + 1
    /\ \A s, t \in Slots :
          Sent(s) /\ Sent(t) /\ hooks'[s].script # "gate" /\ hooks'[t].script # "gate" => s = t

Sends(name, tool) == \A s \in Slots : Sent(s) => hooks'[s].name = name /\ hooks'[s].tool = tool

LEMMA EmissionRecord ==
    ASSUME HooksInv, Emission
    PROVE  /\ stateBy' = stateBy /\ Existing(file)' = Existing(file)
           /\ stateBy \in Nat /\ stateBy <= events /\ events \in Nat /\ events <= events' /\ events' \in Nat
           /\ Existing(file).preview \in Nat /\ Existing(file).preview <= events
           /\ Existing(file).report_seq \in Nat /\ Existing(file).report_seq <= clock
           /\ clock \in Nat /\ clock' \in Nat /\ clock <= clock'
<1>1. TypeOK /\ HooksFit
  BY DEF HooksInv
<1>2. stateBy' = stateBy /\ Existing(file)' = Existing(file)
  BY DEF Emission, Existing
<1>3. clock' \in Nat /\ clock <= clock'
  BY <1>1, RecordTyped DEF Emission, Ticks
<1>4. events' \in Nat /\ events <= events'
  BY <1>1, RecordTyped DEF Emission
<1> QED
  BY <1>1, <1>2, <1>3, <1>4, RecordTyped DEF HooksFit

LEMMA EmissionSlots ==
    ASSUME HooksInv, Emission, NEW s \in InFlight'
    PROVE  /\ s \in Slots
           /\ \/ s \in InFlight /\ hooks'[s] = hooks[s]
              \/ Sent(s) /\ hooks[s] = Free /\ Fresh(hooks'[s]) /\ events' = events + 1
BY DEF Emission, InFlight, Sent

LEMMA EmissionKeepsSlots ==
    ASSUME Emission, HooksInv, NEW s \in InFlight PROVE s \in InFlight' /\ hooks'[s] = hooks[s]
BY DEF Emission, InFlight, Sent

(* A hook that does nothing still fits after others did something. *)
LEMMA HookFitsStays ==
    ASSUME NEW h, HookFits(h), events \in Nat, clock \in Nat, events' \in Nat, clock' \in Nat,
           events <= events', clock <= clock'
    PROVE  HookFits(h)'
<1>1. HookShape(h)' /\ OfEvent(h)' /\ (h.pc = "write" => WriteFits(h)')
  BY DEF HookFits, HookShape, OfEvent, WriteFits, Names
<1> QED
  BY <1>1 DEF HookFits

LEMMA EmissionFits == ASSUME HooksInv, Emission PROVE HooksFit'
<1>1. /\ clock \in Nat /\ events \in Nat /\ clock' \in Nat /\ clock <= clock'
      /\ events' \in Nat /\ events <= events'
      /\ Existing(file).report_seq \in Nat /\ Existing(file).report_seq <= clock
      /\ Existing(file).preview \in Nat /\ Existing(file).preview <= events
      /\ Existing(file)' = Existing(file)
  BY EmissionRecord
<1>2. ASSUME NEW s \in InFlight' PROVE HookFits(hooks[s])'
  <2> PICK h : h = hooks'[s]
    OBVIOUS
  <2>1. CASE s \in InFlight /\ hooks'[s] = hooks[s]
    <3>1. HookFits(h)
      BY <2>1, HookTyped
    <3>2. HookFits(h)'
      BY <1>1, <3>1, HookFitsStays DEF Emission
    <3> QED
      BY <3>2 DEF HookFits, HookShape, OfEvent, WriteFits, Names
  <2>2. CASE Fresh(h) /\ events' = events + 1
    <3>1. h.n \in 1..events' /\ h.seq \in 0..clock'
      BY <1>1, <2>2 DEF Fresh, NoSeq
    <3> QED
      BY <2>2, <3>1 DEF Fresh, HookFits, HookShape, OfEvent
  <2> QED
    BY <2>1, <2>2, EmissionSlots
<1>3. Existing(file)'.report_seq <= clock' /\ Existing(file)'.preview <= events'
  BY <1>1
<1> QED
  BY <1>2, <1>3 DEF HooksFit, Emission

LEMMA EmissionOneEach == ASSUME HooksInv, Emission PROVE OneEach'
<1> SUFFICES ASSUME NEW s \in InFlight', hooks'[s].script # "gate"
             PROVE  /\ hooks'[s].n # stateBy' /\ hooks'[s].n # Existing(file)'.preview
                    /\ \A t \in InFlight' \ {s} :
                          hooks'[t].script # "gate" => hooks'[t].n # hooks'[s].n
  BY DEF OneEach
<1>1. /\ stateBy' = stateBy /\ Existing(file)' = Existing(file)
      /\ stateBy <= events /\ events \in Nat /\ Existing(file).preview \in Nat /\ stateBy \in Nat
      /\ Existing(file).preview <= events
  BY EmissionRecord
<1>2. CASE s \in InFlight /\ hooks'[s] = hooks[s]
  <2>1. hooks[s].n # stateBy /\ hooks[s].n # Existing(file).preview
    BY <1>2 DEF HooksInv, OneEach
  <2>2. ASSUME NEW t \in InFlight' \ {s}, hooks'[t].script # "gate" PROVE hooks'[t].n # hooks'[s].n
    <3>1. CASE t \in InFlight /\ hooks'[t] = hooks[t]
      BY <1>2, <2>2, <3>1 DEF HooksInv, OneEach
    <3>2. CASE Fresh(hooks'[t])
      BY <1>1, <1>2, <3>2, HookTyped DEF Fresh
    <3> QED
      BY <3>1, <3>2, EmissionSlots
  <2> QED
    BY <1>1, <1>2, <2>1, <2>2
<1>3. CASE Sent(s) /\ Fresh(hooks'[s])
  <2>1. hooks'[s].n = events + 1
    BY <1>3 DEF Fresh
  <2>2. ASSUME NEW t \in InFlight' \ {s}, hooks'[t].script # "gate" PROVE hooks'[t].n # hooks'[s].n
    <3>1. CASE t \in InFlight /\ hooks'[t] = hooks[t]
      BY <1>1, <2>1, <3>1, HookTyped
    <3>2. CASE Sent(t)
      BY <1>3, <2>2, <3>2, EmissionSlots DEF Emission
    <3> QED
      BY <3>1, <3>2, EmissionSlots
  <2> QED
    BY <1>1, <2>1, <2>2
<1> QED
  BY <1>2, <1>3, EmissionSlots

(* A new setter, or a call that waits for the user, finds the takers behind. *)
LEMMA EmissionTakers ==
    ASSUME HooksInv, Emission,
           \A t \in Slots : Sent(t) /\ Setter(hooks'[t]) =>
               \A s \in InFlight : Taker(hooks[s]) => Behind(hooks[s], clock'),
           session'.tool \in UserTools =>
               /\ \A s \in InFlight : Taker(hooks[s]) => Behind(hooks[s], clock')
               /\ \A s \in Slots : Sent(s) => ~Taker(hooks'[s])
    PROVE  TakersBehind'
<1> SUFFICES ASSUME NEW s \in InFlight', Taker(hooks'[s])
             PROVE  /\ \A t \in InFlight' :
                          Setter(hooks'[t]) /\ hooks'[s].n < hooks'[t].n
                             => Behind(hooks'[s], Limit(hooks[t])')
                    /\ session'.tool \in UserTools => Behind(hooks'[s], clock')
                    /\ Existing(file)'.state \in StopStates /\ hooks'[s].n < stateBy'
                          => Behind(hooks'[s], Existing(file)'.report_seq)
  BY DEF TakersBehind, Taker, Setter, Behind
<1>1. /\ stateBy' = stateBy /\ Existing(file)' = Existing(file)
      /\ stateBy <= events /\ events \in Nat /\ stateBy \in Nat
      /\ clock \in Nat /\ clock' \in Nat /\ clock <= clock'
  BY EmissionRecord
<1>2. CASE s \in InFlight /\ hooks'[s] = hooks[s]
  <2>0. /\ hooks[s].seq \in Nat
        /\ \A t \in InFlight :
              Setter(hooks[t]) /\ hooks[s].n < hooks[t].n => Behind(hooks[s], Limit(hooks[t]))
        /\ Existing(file).state \in StopStates /\ hooks[s].n < stateBy
              => Behind(hooks[s], Existing(file).report_seq)
    BY <1>2, HookTyped DEF HooksInv, TakersBehind
  <2>1. ASSUME NEW t \in InFlight', Setter(hooks'[t]), hooks'[s].n < hooks'[t].n
        PROVE  Behind(hooks'[s], Limit(hooks[t])')
    <3>1. CASE t \in InFlight /\ hooks'[t] = hooks[t]
      <4>1. Behind(hooks[s], Limit(hooks[t]))
        BY <1>2, <2>0, <2>1, <3>1
      <4> QED
        BY <1>1, <1>2, <2>0, <3>1, <4>1 DEF Behind, Limit
    <3>2. CASE Sent(t) /\ Fresh(hooks'[t])
      <4>1. Behind(hooks[s], clock')
        BY <1>2, <2>1, <3>2, EmissionSlots
      <4> QED
        BY <1>2, <3>2, <4>1 DEF Fresh, Limit
    <3> QED
      BY <3>1, <3>2, EmissionSlots
  <2> QED
    BY <1>1, <1>2, <2>0, <2>1
<1>3. CASE Sent(s) /\ Fresh(hooks'[s]) /\ events' = events + 1
  <2>1. hooks'[s].n = events + 1
    BY <1>3 DEF Fresh
  <2>2. ASSUME NEW t \in InFlight' PROVE hooks'[t].n <= events + 1 /\ hooks'[t].n \in Nat
    BY <1>1, EmissionSlots, HookTyped DEF Fresh
  <2> QED
    BY <1>1, <1>3, <2>1, <2>2, EmissionSlots
<1> QED
  BY <1>2, <1>3, EmissionSlots

New(h) == HookShape(h) /\ h.pc = "start" /\ h.n = events + 1 /\ h.seq = NoSeq

LEMMA EmitFact ==
    ASSUME HooksInv, NEW h, New(h), OfEvent(h), Emit(h), Ticks
    PROVE  /\ Emission /\ Sends(h.name, h.tool) /\ seen' = seen \cup {Kind(h)}
           /\ \E s \in Slots : Sent(s)
           /\ \A s \in Slots : Sent(s) => hooks'[s].script = h.script
<1> PICK s \in Slots : hooks[s] = Free /\ hooks' = [hooks EXCEPT ![s] = h]
  BY DEF Emit
<1>1. hooks = [t \in Slots |-> hooks[t]]
  BY DEF HooksInv, HooksFit
<1>2. hooks'[s] = h /\ \A t \in Slots \ {s} : hooks'[t] = hooks[t]
  BY <1>1
<1>3. hooks' = [t \in Slots |-> hooks'[t]]
  BY <1>1
<1>4. Fresh(h) /\ h # Free
  BY DEF Fresh, New, Free
<1>5. /\ events' = events + 1 /\ events' <= MaxEvents /\ seen' = seen \cup {Kind(h)}
      /\ UNCHANGED <<file, stateBy>>
  BY RecordTyped, BoundAssumption DEF Emit, HooksInv
<1>6. Emission
  BY <1>2, <1>3, <1>4, <1>5 DEF Emission, Sent
<1> QED
  BY <1>2, <1>4, <1>5, <1>6 DEF Sends, Sent

-----------------------------------------------------------------------------
(* What each action of the session amounts to.                             *)

TurnTaken ==
    \A s \in TurnHooks : hooks[s].pc # "start" /\ (hooks[s].name # "PostToolUse" => hooks[s].seq < clock')

LEMMA TurnIsTaken == ASSUME MayTakeTurn PROVE TurnTaken /\ Ticks
BY DEF MayTakeTurn, TurnTaken, Ticks

LEMMA SessionFact ==
    ASSUME HooksInv
    PROVE  /\ session.phase \in {"new", "idle", "thinking", "tool", "asking"}
           /\ session.tool \in Tools \cup {""} /\ session.subagents \in 0..MaxSubagents
           /\ session = [phase |-> session.phase, tool |-> session.tool, subagents |-> session.subagents]
           /\ IF session.phase \in {"tool", "asking"} THEN session.tool \in Tools ELSE session.tool = ""
           /\ session.phase = "new" => InFlight = {} /\ stateBy = 0 /\ session.subagents = 0 /\ seen = {}
<1>1. session \in [phase : {"new", "idle", "thinking", "tool", "asking"},
                   tool : Tools \cup {""}, subagents : 0..MaxSubagents]
  BY DEF HooksInv, TypeOK
<1> QED
  BY <1>1 DEF HooksInv, StartsAlone

Starts ==
    /\ Emission /\ Sends("SessionStart", "") /\ session.phase = "new"
    /\ \E s \in Slots : Sent(s)
    /\ session' = [session EXCEPT !.phase = "idle"] /\ seen' = seen \cup {"SessionStart"}

LEMMA StartsFact == ASSUME HooksInv, SessionStart PROVE Starts
<1> PICK h : h = Hook("reporter", "SessionStart", "", "") /\ Emit(h)
  BY DEF SessionStart
<1>1. New(h) /\ h.script = "reporter" /\ h.name = "SessionStart" /\ h.tool = ""
  BY DEF Hook, New, HookShape
<1>2. OfEvent(h) /\ Kind(h) = "SessionStart" /\ Ticks
  BY <1>1 DEF OfEvent, Kind, Delegating, SessionStart, Ticks
<1> QED
  BY <1>1, <1>2, EmitFact DEF SessionStart, Starts

Prompts ==
    /\ Emission /\ TurnHooks = {} /\ session.phase = "idle"
    /\ Sends("UserPromptSubmit", "")
    /\ seen' \in {seen, seen \cup {"pr"}}
    /\ (\E s \in Slots : Sent(s)) => "pr" \in seen'
    /\ session' = [session EXCEPT !.phase = "thinking"]

LEMMA PromptsFact == ASSUME HooksInv, UserPrompt PROVE Prompts
<1>1. TurnHooks = {} /\ Ticks /\ session.phase = "idle" /\ session' = [session EXCEPT !.phase = "thinking"]
  BY DEF UserPrompt, UserMayAct, Ticks
<1>2. CASE UNCHANGED <<hooks, events, file, stateBy, seen>>
  <2>1. events <= MaxEvents
    BY RecordTyped DEF HooksInv
  <2>2. Emission
    BY <1>1, <1>2, <2>1 DEF Emission, Sent, HooksInv, HooksFit
  <2> QED
    BY <1>1, <1>2, <2>2 DEF Prompts, Sends, Sent
<1>3. ASSUME NEW h, h = Hook("pr-create", "UserPromptSubmit", "", ""), Emit(h) PROVE Prompts
  <2>0. New(h) /\ h.script = "pr-create" /\ h.name = "UserPromptSubmit" /\ h.tool = ""
    BY <1>3 DEF Hook, New, HookShape
  <2>1. OfEvent(h) /\ Kind(h) = "pr"
    BY <2>0 DEF OfEvent, Kind
  <2> QED
    BY <1>1, <1>3, <2>0, <2>1, EmitFact DEF Prompts
<1> QED
  BY <1>2, <1>3 DEF UserPrompt

Calls(tool) ==
    /\ Emission /\ TurnTaken /\ session.phase = "thinking"
    /\ Sends("PreToolUse", tool) /\ \E s \in Slots : Sent(s)
    /\ \A s \in Slots : Sent(s) => hooks'[s].script = "fast"
    /\ seen' = seen \cup {IF tool \in Delegating THEN "delegation" ELSE "PreToolUse"}
    /\ session' = [session EXCEPT !.phase = "tool", !.tool = tool]

LEMMA CallsFact == ASSUME HooksInv, PreToolUse PROVE \E tool \in Tools : Calls(tool)
<1> PICK tool \in Tools : /\ Emit(Hook("fast", "PreToolUse", tool, ""))
                         /\ session' = [session EXCEPT !.phase = "tool", !.tool = tool]
  BY DEF PreToolUse
<1> PICK h : h = Hook("fast", "PreToolUse", tool, "")
  OBVIOUS
<1>1. New(h) /\ h.script = "fast" /\ h.name = "PreToolUse" /\ h.tool = tool
  BY DEF Hook, New, HookShape
<1>2. OfEvent(h) /\ Kind(h) = IF tool \in Delegating THEN "delegation" ELSE "PreToolUse"
  BY <1>1 DEF OfEvent, Kind
<1>3. TurnTaken /\ Ticks /\ session.phase = "thinking"
  BY TurnIsTaken DEF PreToolUse
<1> QED
  BY <1>1, <1>2, <1>3, EmitFact DEF Calls

Blocks ==
    /\ Emission /\ TurnTaken /\ session.phase = "thinking" /\ UNCHANGED session
    /\ Sends("PreToolUse", "Bash") /\ seen' = seen \cup {"gate"}

LEMMA BlocksFact == ASSUME HooksInv, PreToolUseBlocked PROVE Blocks
<1>1. /\ events' = events + 1 /\ events < MaxEvents /\ seen' = seen \cup {"gate"}
      /\ UNCHANGED <<file, stateBy, session>>
  BY DEF PreToolUseBlocked
<1>2. events' <= MaxEvents
  BY <1>1, RecordTyped DEF HooksInv
<1> PICK s \in Slots, g \in Slots :
       /\ s # g /\ hooks[s] = Free /\ hooks[g] = Free
       /\ hooks' = [hooks EXCEPT ![s] = Hook("fast", "PreToolUse", "Bash", ""),
                                 ![g] = Hook("gate", "PreToolUse", "Bash", "")]
  BY DEF PreToolUseBlocked
<1> PICK f, h : f = Hook("fast", "PreToolUse", "Bash", "") /\ h = Hook("gate", "PreToolUse", "Bash", "")
  OBVIOUS
<1>3. hooks = [t \in Slots |-> hooks[t]]
  BY DEF HooksInv, HooksFit
<1>4. hooks'[s] = f /\ hooks'[g] = h /\ \A t \in Slots \ {s, g} : hooks'[t] = hooks[t]
  BY <1>3
<1>5. hooks' = [t \in Slots |-> hooks'[t]]
  BY <1>3
<1>6. Fresh(f) /\ Fresh(h)
  BY DEF Hook, Fresh, HookShape, OfEvent, Tools
<1>7. TurnTaken /\ Ticks /\ session.phase = "thinking"
  BY TurnIsTaken DEF PreToolUseBlocked
<1>8. h.script = "gate" /\ h.name = "PreToolUse" /\ h.tool = "Bash" /\ f.name = "PreToolUse" /\ f.tool = "Bash"
  BY DEF Hook
<1>9. \A t \in Slots : Sent(t) => t = s \/ t = g
  BY <1>4 DEF Sent
<1>10. Emission
  BY <1>1, <1>4, <1>5, <1>6, <1>2, <1>7, <1>8, <1>9 DEF Emission
<1> QED
  BY <1>1, <1>4, <1>7, <1>8, <1>9, <1>10 DEF Blocks, Sends

Asks ==
    /\ Emission /\ session.phase = "tool" /\ session.tool \notin Delegating
    /\ Sends("PermissionRequest", session.tool)
    /\ \A s \in Slots : Sent(s) => hooks'[s].script = "fast"
    /\ UNCHANGED clock
    /\ seen' = seen \cup {"PermissionRequest"}
    /\ session' = [session EXCEPT !.phase = "asking"]

LEMMA AsksFact == ASSUME HooksInv, PermissionRequest PROVE Asks
<1> PICK h : h = Hook("fast", "PermissionRequest", session.tool, "") /\ Emit(h)
  BY DEF PermissionRequest
<1>1. session.tool \in Tools /\ session.tool \notin Delegating
  BY SessionFact DEF PermissionRequest
<1>2. New(h) /\ h.script = "fast" /\ h.name = "PermissionRequest" /\ h.tool = session.tool
  BY DEF Hook, New, HookShape
<1>3. OfEvent(h) /\ Kind(h) = "PermissionRequest" /\ Ticks
  BY <1>2, <1>1 DEF OfEvent, Kind, PermissionRequest, Ticks
<1> QED
  BY <1>2, <1>1, <1>3, EmitFact DEF Asks, PermissionRequest

Answers ==
    /\ Emission /\ session.phase \in {"tool", "asking"}
    /\ session.phase = "asking" \/ session.tool \in UserTools => TurnHooks = {}
    /\ Sends("PostToolUse", session.tool)
    /\ \/ \A s \in Slots : Sent(s) => hooks'[s].script = "fast"
       \/ "pr" \in seen'
    /\ seen' \subseteq seen \cup {"PostToolUse", "delegation", "pr"}
    /\ session' = [session EXCEPT !.phase = "thinking", !.tool = ""]

LEMMA AnswersFact == ASSUME HooksInv, PostToolUse PROVE Answers
<1> PICK script \in {"fast", "pr-create", "pr-merge"} :
       /\ Emit(Hook(script, "PostToolUse", session.tool, ""))
       /\ script # "fast" => session.tool = "Bash"
  BY DEF PostToolUse
<1> PICK h : h = Hook(script, "PostToolUse", session.tool, "")
  OBVIOUS
<1>1. New(h) /\ h.script = script /\ h.name = "PostToolUse" /\ h.tool = session.tool
  BY DEF Hook, New, HookShape
<1>2. session.tool \in Tools
  BY SessionFact DEF PostToolUse
<1>3. OfEvent(h) /\ Kind(h) \in {"PostToolUse", "delegation", "pr"} /\ (script # "fast" => Kind(h) = "pr")
  BY <1>1, <1>2 DEF OfEvent, Kind
<1>4. Ticks /\ (session.phase = "asking" \/ session.tool \in UserTools => TurnHooks = {})
  BY DEF PostToolUse, UserMayAct, Ticks
<1>5. /\ Emission /\ Sends("PostToolUse", session.tool) /\ seen' = seen \cup {Kind(h)}
      /\ \A s \in Slots : Sent(s) => hooks'[s].script = script
  BY <1>1, <1>3, <1>4, EmitFact
<1>6. session.phase \in {"tool", "asking"} /\ session' = [session EXCEPT !.phase = "thinking", !.tool = ""]
  BY DEF PostToolUse
<1> QED
  BY <1>3, <1>4, <1>5, <1>6 DEF Answers

Delegates ==
    /\ Emission /\ session.phase = "tool" /\ session.tool \in Delegating
    /\ Sends("SubagentStart", "") /\ session.subagents < MaxSubagents
    /\ seen' = seen \cup {"SubagentStart"}
    /\ session' = [session EXCEPT !.subagents = @ + 1]

LEMMA DelegatesFact == ASSUME HooksInv, SubagentStart PROVE Delegates
<1> PICK h : h = Hook("reporter", "SubagentStart", "", "") /\ Emit(h)
  BY DEF SubagentStart
<1>1. New(h) /\ h.script = "reporter" /\ h.name = "SubagentStart" /\ h.tool = ""
  BY DEF Hook, New, HookShape
<1>2. OfEvent(h) /\ Kind(h) = "SubagentStart" /\ Ticks
  BY <1>1 DEF OfEvent, Kind, Delegating, SubagentStart, Ticks
<1> QED
  BY <1>1, <1>2, EmitFact DEF SubagentStart, Delegates

Returns ==
    /\ Emission /\ session.subagents > 0 /\ Sends("SubagentStop", "")
    /\ seen' = seen \cup {"SubagentStop"}
    /\ session' = [session EXCEPT !.subagents = @ - 1]

LEMMA ReturnsFact == ASSUME HooksInv, SubagentStop PROVE Returns
<1> PICK h : h = Hook("reporter", "SubagentStop", "", "") /\ Emit(h)
  BY DEF SubagentStop
<1>1. New(h) /\ h.script = "reporter" /\ h.name = "SubagentStop" /\ h.tool = ""
  BY DEF Hook, New, HookShape
<1>2. OfEvent(h) /\ Kind(h) = "SubagentStop" /\ Ticks
  BY <1>1 DEF OfEvent, Kind, Delegating, SubagentStop, Ticks
<1> QED
  BY <1>1, <1>2, EmitFact DEF SubagentStop, Returns

Ends ==
    /\ Emission /\ TurnTaken /\ Sends("Stop", "") /\ \E s \in Slots : Sent(s)
    /\ \A s \in Slots : Sent(s) => hooks'[s].script = "reporter"
    /\ seen' = seen \cup {"Stop"}
    /\ \/ session.phase = "thinking" /\ session' = [session EXCEPT !.phase = "idle"]
       \/ session.phase \in {"tool", "asking"} /\ session.tool \in UserTools /\ session' = session

LEMMA EndsFact == ASSUME HooksInv, Stop PROVE Ends
<1> PICK detected \in Detected : Emit(Hook("reporter", "Stop", "", detected))
  BY DEF Stop
<1> PICK h : h = Hook("reporter", "Stop", "", detected)
  OBVIOUS
<1>1. New(h) /\ h.script = "reporter" /\ h.name = "Stop" /\ h.tool = "" /\ h.detected = detected
  BY DEF Hook, New, HookShape
<1>2. OfEvent(h) /\ Kind(h) = "Stop"
  BY <1>1 DEF OfEvent, Kind, Delegating
<1>3. TurnTaken /\ Ticks
  BY TurnIsTaken DEF Stop
<1>4. \/ session.phase = "thinking" /\ session' = [session EXCEPT !.phase = "idle"]
      \/ session.phase \in {"tool", "asking"} /\ session.tool \in UserTools /\ session' = session
  BY DEF Stop
<1> QED
  BY <1>1, <1>2, <1>3, <1>4, EmitFact DEF Ends

SessionActs ==
    \/ Starts \/ Prompts \/ (\E tool \in Tools : Calls(tool)) \/ Blocks \/ Asks \/ Answers \/ Delegates
    \/ Returns \/ Ends

LEMMA SessionActsFact == ASSUME HooksInv, SessionStep PROVE SessionActs
BY StartsFact, PromptsFact, CallsFact, BlocksFact, AsksFact, AnswersFact, DelegatesFact, ReturnsFact,
   EndsFact DEF SessionStep, SessionActs

-----------------------------------------------------------------------------
(* The session's steps keep the invariant. *)

LEMMA Emits == ASSUME SessionActs PROVE Emission
BY DEF SessionActs, Starts, Prompts, Calls, Blocks, Asks, Answers, Delegates, Returns, Ends

LEMMA SessionGoesOn ==
    ASSUME HooksInv, SessionActs
    PROVE  /\ session' \in [phase : {"idle", "thinking", "tool", "asking"}, tool : Tools \cup {""},
                            subagents : 0..MaxSubagents]
           /\ IF session'.phase \in {"tool", "asking"} THEN session'.tool \in Tools ELSE session'.tool = ""
<1> PICK n \in 0..MaxSubagents : n = session.subagents
  BY SessionFact
<1> PICK p, t : p = session.phase /\ t = session.tool
  OBVIOUS
<1>1. /\ p \in {"new", "idle", "thinking", "tool", "asking"}
      /\ t \in Tools \cup {""}
      /\ session = [phase |-> p, tool |-> t, subagents |-> n]
      /\ IF p \in {"tool", "asking"} THEN t \in Tools ELSE t = ""
  BY SessionFact
<1>2. p = "new" => n = 0
  BY SessionFact
<1>3. MaxSubagents \in Nat
  BY BoundAssumption
<1>4. ASSUME NEW q \in {"idle", "thinking", "tool", "asking"}, NEW u \in Tools \cup {""},
             NEW k \in 0..MaxSubagents, session' = [phase |-> q, tool |-> u, subagents |-> k],
             IF q \in {"tool", "asking"} THEN u \in Tools ELSE u = ""
      PROVE  /\ session' \in [phase : {"idle", "thinking", "tool", "asking"}, tool : Tools \cup {""},
                              subagents : 0..MaxSubagents]
             /\ IF session'.phase \in {"tool", "asking"} THEN session'.tool \in Tools ELSE session'.tool = ""
  BY <1>4
<1>5. CASE Starts
  <2>1. session' = [phase |-> "idle", tool |-> t, subagents |-> n] /\ p = "new"
    BY <1>1, <1>5 DEF Starts
  <2> QED
    BY <1>1, <1>4, <2>1
<1>6. CASE Prompts
  <2>1. session' = [phase |-> "thinking", tool |-> t, subagents |-> n] /\ p = "idle"
    BY <1>1, <1>6 DEF Prompts
  <2> QED
    BY <1>1, <1>4, <2>1
<1>7. CASE \E tool \in Tools : Calls(tool)
  <2> PICK tool \in Tools : Calls(tool)
    BY <1>7
  <2>1. session' = [phase |-> "tool", tool |-> tool, subagents |-> n]
    BY <1>1 DEF Calls
  <2> QED
    BY <1>1, <1>4, <2>1
<1>8. CASE Blocks
  <2>1. session' = [phase |-> p, tool |-> t, subagents |-> n] /\ p = "thinking"
    BY <1>1, <1>8 DEF Blocks
  <2> QED
    BY <1>1, <1>4, <2>1
<1>9. CASE Asks
  <2>1. session' = [phase |-> "asking", tool |-> t, subagents |-> n] /\ p = "tool"
    BY <1>1, <1>9 DEF Asks
  <2> QED
    BY <1>1, <1>4, <2>1
<1>10. CASE Answers
  <2>1. session' = [phase |-> "thinking", tool |-> "", subagents |-> n]
    BY <1>1, <1>10 DEF Answers
  <2> QED
    BY <1>1, <1>4, <2>1
<1>11. CASE Delegates
  <2>1. session' = [phase |-> p, tool |-> t, subagents |-> n + 1] /\ n < MaxSubagents /\ p = "tool"
    BY <1>1, <1>11 DEF Delegates
  <2>2. n < MaxSubagents
    BY <2>1
  <2>3. n + 1 \in 0..MaxSubagents
    BY <1>3, <2>2
  <2> QED
    BY <1>1, <1>4, <2>1, <2>3
<1>12. CASE Returns
  <2>1. session' = [phase |-> p, tool |-> t, subagents |-> n - 1] /\ n > 0
    BY <1>1, <1>12 DEF Returns
  <2>2. n > 0
    BY <2>1
  <2>3. n - 1 \in 0..MaxSubagents
    BY <1>3, <2>2
  <2>4. p # "new"
    BY <1>2, <2>2
  <2> QED
    BY <1>1, <1>4, <2>1, <2>3, <2>4
<1>13. CASE Ends
  <2>1. \/ session' = [phase |-> "idle", tool |-> t, subagents |-> n] /\ p = "thinking"
        \/ session' = [phase |-> p, tool |-> t, subagents |-> n] /\ p \in {"tool", "asking"}
    BY <1>1, <1>13 DEF Ends
  <2> QED
    BY <1>1, <1>4, <2>1
<1> QED
  BY <1>5, <1>6, <1>7, <1>8, <1>9, <1>10, <1>11, <1>12, <1>13 DEF SessionActs

LEMMA SessionTypes == ASSUME HooksInv, SessionActs PROVE TypeOK'
<1>1. Emission /\ TypeOK
  BY Emits DEF HooksInv
<1>2. file' = file /\ (file = NoRecord \/ IsRecord(file))
  BY <1>1 DEF Emission, TypeOK
<1>3. clock' \in Nat /\ events' \in 0..MaxEvents /\ stateBy' \in 0..events'
  BY <1>1, EmissionRecord, RecordTyped DEF Emission
<1>4. \A s \in Slots : hooks'[s].pc \in {"free", "start", "entered", "write"}
  BY <1>1 DEF Emission, Fresh, TypeOK, Sent
<1>5. seen' \subseteq {"SessionStart", "PreToolUse", "PermissionRequest", "PostToolUse",
                  "SubagentStart", "SubagentStop", "Stop", "delegation", "pr", "gate"}
  <2>1. seen \subseteq {"SessionStart", "PreToolUse", "PermissionRequest", "PostToolUse",
                  "SubagentStart", "SubagentStop", "Stop", "delegation", "pr", "gate"}
    BY <1>1 DEF TypeOK
  <2> QED
    BY <2>1 DEF SessionActs, Starts, Prompts, Calls, Blocks, Asks, Answers, Delegates, Returns, Ends
<1>6. session' \in [phase : {"new", "idle", "thinking", "tool", "asking"},
                    tool : Tools \cup {""}, subagents : 0..MaxSubagents]
  BY SessionGoesOn
<1> QED
  BY <1>2, <1>3, <1>4, <1>5, <1>6 DEF TypeOK

(* No step of the session is possible while its start has not been shown. *)
LEMMA NothingBesideStart ==
    ASSUME HooksInv, SessionActs, NEW s \in InFlight, hooks[s].name = "SessionStart"
    PROVE  FALSE
<1>1. InFlight = {s} /\ session.phase = "idle" /\ session.subagents = 0
  BY DEF HooksInv, StartsAlone
<1>2. TurnHooks # {}
  BY DEF TurnHooks, SubagentEvents
<1>3. ~Starts /\ ~Prompts
  BY <1>1, <1>2 DEF Starts, Prompts
<1>4. ~Blocks /\ ~Asks /\ ~Answers /\ \A tool \in Tools : ~Calls(tool)
  BY <1>1 DEF Blocks, Asks, Answers, Calls
<1>5. ~Delegates /\ ~Returns /\ ~Ends
  BY <1>1 DEF Delegates, Returns, Ends
<1> QED
  BY <1>3, <1>4, <1>5 DEF SessionActs

LEMMA SessionStartsAlone == ASSUME HooksInv, SessionActs PROVE StartsAlone'
<1>1. Emission
  BY Emits
<1>2. ASSUME NEW s \in InFlight', hooks'[s].name = "SessionStart"
      PROVE  InFlight' = {s} /\ stateBy' = 0 /\ session'.phase = "idle" /\ session'.subagents = 0
  <2>1. Sent(s) /\ Fresh(hooks'[s])
    BY <1>1, <1>2, NothingBesideStart, EmissionSlots
  <2>2. Starts
    BY <1>1, <1>2, <2>1, EmissionSlots
    DEF SessionActs, Starts, Prompts, Calls, Blocks, Asks, Answers, Delegates, Returns, Ends, Sends
  <2>3. InFlight = {} /\ stateBy = 0 /\ session.subagents = 0
    BY <2>2, SessionFact DEF Starts
  <2>4. ASSUME NEW t \in InFlight' PROVE t = s
    <3>1. Sent(t) /\ Fresh(hooks'[t]) /\ t \in Slots /\ s \in Slots
      BY <1>1, <2>3, EmissionSlots
    <3>2. hooks'[t].name = "SessionStart"
      BY <2>2, <3>1 DEF Starts, Sends
    <3>3. hooks'[t].script # "gate" /\ hooks'[s].script # "gate"
      BY <1>2, <2>1, <3>1, <3>2 DEF Fresh, OfEvent
    <3> QED
      BY <1>1, <2>1, <3>1, <3>3 DEF Emission
  <2> QED
    BY <1>1, <2>2, <2>3, <2>4, SessionFact DEF Starts, Emission
<1>3. session'.phase # "new"
  BY SessionGoesOn
<1> QED
  BY <1>2, <1>3, SessionGoesOn DEF StartsAlone

LEMMA SessionTakers == ASSUME HooksInv, SessionActs PROVE TakersBehind'
<1>1. /\ Emission /\ clock \in Nat /\ clock' \in Nat /\ clock <= clock'
      /\ \A s \in Slots : Sent(s) => Fresh(hooks'[s])
  BY Emits, EmissionRecord DEF Emission
<1>2. ASSUME NEW s \in InFlight, Taker(hooks[s]), TurnTaken PROVE Behind(hooks[s], clock')
  BY <1>2 DEF Taker, TurnTaken, TurnHooks, SubagentEvents, Behind
<1>3. ASSUME NEW s \in InFlight, Taker(hooks[s]), session.tool \in UserTools PROVE Behind(hooks[s], clock')
  <2>1. Behind(hooks[s], clock) /\ hooks[s].seq \in Nat
    BY <1>3, HookTyped DEF HooksInv, TakersBehind
  <2> QED
    BY <1>1, <2>1 DEF Behind
<1>4. ASSUME NEW t \in Slots, Sent(t), Setter(hooks'[t])
      PROVE  TurnTaken \/ session.tool \in UserTools
  <2>1. OfEvent(hooks'[t])
    BY <1>1, <1>4 DEF Fresh
  <2>2. ~Starts /\ ~Prompts /\ ~Answers /\ ~Delegates /\ ~Returns
    BY <1>4, <2>1 DEF Starts, Prompts, Answers, Delegates, Returns, Sends, Setter, OfEvent
  <2>3. Asks => session.tool \in UserTools
    BY <1>4, <2>1 DEF Asks, Sends, Setter, Stopping, Delegating
  <2> QED
    BY <2>2, <2>3 DEF SessionActs, Calls, Blocks, Ends
<1>5. ASSUME session'.tool \in UserTools
      PROVE  /\ session.tool \in UserTools \/ TurnTaken
             /\ \A s \in Slots : Sent(s) => ~Taker(hooks'[s])
  <2>1. /\ IF session.phase \in {"tool", "asking"} THEN session.tool \in Tools ELSE session.tool = ""
        /\ session = [phase |-> session.phase, tool |-> session.tool, subagents |-> session.subagents]
    BY SessionFact
  <2>2. ~Blocks /\ ~Answers
    BY <1>5, <2>1 DEF Blocks, Answers, UserTools
  <2>3. CASE \E tool \in Tools : Calls(tool)
    BY <1>5, <2>1, <2>3 DEF Calls, Sends, Taker
  <2>4. CASE Starts \/ Prompts \/ Delegates \/ Returns \/ Ends
    <3>1. ASSUME NEW s \in Slots, Sent(s) PROVE ~Taker(hooks'[s])
      BY <2>4, <3>1 DEF Starts, Prompts, Delegates, Returns, Ends, Sends, Taker
    <3>2. session.tool = session'.tool
      BY <2>1, <2>4 DEF Starts, Prompts, Delegates, Returns, Ends
    <3> QED
      BY <1>5, <3>1, <3>2
  <2>5. CASE Asks
    <3>1. session.tool = session'.tool
      BY <2>1, <2>5 DEF Asks
    <3> QED
      BY <1>5, <2>5, <3>1 DEF Asks, Sends, Taker
  <2> QED
    BY <2>2, <2>3, <2>4, <2>5 DEF SessionActs
<1> QED
  BY <1>1, <1>2, <1>3, <1>4, <1>5, EmissionTakers

LEMMA SessionPlain == ASSUME HooksInv, SessionActs PROVE PlainFits' /\ (Plain' => Plain /\ ~Delegates /\ ~Returns)
<1>1. Emission /\ PlainFits
  BY Emits DEF HooksInv
<1> SUFFICES ASSUME Plain'
             PROVE  /\ Plain /\ ~Delegates /\ ~Returns
                    /\ session'.subagents = 0 /\ session'.tool \notin Delegating
                    /\ Existing(file)'.pinned_state # "merged"
                    /\ \A s \in InFlight' :
                          /\ hooks'[s].script \in {"fast", "reporter"} /\ hooks'[s].tool \notin Delegating
                          /\ hooks'[s].name \notin SubagentEvents
  BY DEF PlainFits
<1>2. Plain
  BY <1>1 DEF Plain, Emission
<1>3. session.subagents = 0 /\ session.tool \notin Delegating /\ Existing(file)'.pinned_state # "merged"
  BY <1>1, <1>2 DEF PlainFits, Emission, Existing
<1>4. ~Delegates /\ ~Returns /\ ~Blocks
  <2>1. ~Delegates
    BY <1>3 DEF Delegates
  <2>2. ~Returns
    BY <1>3 DEF Returns
  <2>3. ~Blocks
    BY DEF Blocks, Plain
  <2> QED
    BY <2>1, <2>2, <2>3
<1>5. ASSUME NEW tool \in Tools, Calls(tool) PROVE tool \notin Delegating
  BY <1>5 DEF Calls, Plain
<1>6. session = [phase |-> session.phase, tool |-> session.tool, subagents |-> session.subagents]
  BY SessionFact
<1>7. session'.subagents = 0 /\ session'.tool \notin Delegating
  BY <1>3, <1>4, <1>5, <1>6 DEF SessionActs, Starts, Prompts, Calls, Asks, Answers, Ends, Delegating
<1>8. ASSUME NEW s \in Slots, Sent(s)
      PROVE  /\ hooks'[s].script \in {"fast", "reporter"} /\ hooks'[s].tool \notin Delegating
             /\ hooks'[s].name \notin SubagentEvents
  <2>1. OfEvent(hooks'[s])
    BY <1>1, <1>8 DEF Emission, Fresh
  <2>2. ~Prompts
    BY <1>8 DEF Prompts, Plain
  <2>3. CASE Starts
    BY <1>8, <2>1, <2>3 DEF Starts, Sends, OfEvent, SubagentEvents, Delegating
  <2>4. CASE \E tool \in Tools : Calls(tool)
    BY <1>5, <1>8, <2>4 DEF Calls, Sends, SubagentEvents
  <2>5. CASE Asks
    BY <1>8, <2>5 DEF Asks, Sends, SubagentEvents
  <2>6. CASE Answers
    BY <1>3, <1>8, <2>6 DEF Answers, Sends, SubagentEvents, Plain
  <2>7. CASE Ends
    BY <1>8, <2>7 DEF Ends, Sends, SubagentEvents, Delegating
  <2> QED
    BY <1>4, <2>2, <2>3, <2>4, <2>5, <2>6, <2>7 DEF SessionActs
<1>9. ASSUME NEW s \in InFlight'
      PROVE  /\ hooks'[s].script \in {"fast", "reporter"} /\ hooks'[s].tool \notin Delegating
             /\ hooks'[s].name \notin SubagentEvents
  BY <1>1, <1>2, <1>8, EmissionSlots DEF PlainFits
<1> QED
  BY <1>2, <1>3, <1>4, <1>7, <1>9

(* In plain sessions all hooks are those of the turn. *)
LEMMA PlainTurn == ASSUME HooksInv, Plain, NEW s \in InFlight PROVE s \in TurnHooks
BY DEF HooksInv, PlainFits, TurnHooks

LEMMA SessionTurnEnds == ASSUME HooksInv, SessionActs PROVE TurnEnds'
<1> SUFFICES ASSUME Plain', session'.phase = "idle", "Stop" \in seen'
             PROVE  \E s \in InFlight' : StopPending(s)'
  BY DEF TurnEnds
<1>1. /\ Emission /\ Plain /\ ~Delegates /\ ~Returns
      /\ Existing(file)' = Existing(file) /\ Existing(file).report_seq <= clock
      /\ Existing(file).report_seq \in Nat /\ clock \in Nat /\ clock' \in Nat /\ clock <= clock'
  BY Emits, SessionPlain, EmissionRecord
<1>2. session = [phase |-> session.phase, tool |-> session.tool, subagents |-> session.subagents]
  BY SessionFact
<1>3. ~Starts
  <2> SUFFICES ASSUME Starts PROVE FALSE
    OBVIOUS
  <2>1. seen = {}
    BY SessionFact DEF Starts
  <2>2. seen' = seen \cup {"SessionStart"}
    BY DEF Starts
  <2> QED
    BY <2>1, <2>2
<1>4. Ends /\ session.phase = "thinking"
  BY <1>1, <1>2, <1>3 DEF SessionActs, Prompts, Calls, Blocks, Asks, Answers, Ends
<1> PICK s \in Slots : Sent(s)
  BY <1>4 DEF Ends
<1>5. Fresh(hooks'[s]) /\ hooks'[s].name = "Stop" /\ s \in InFlight'
  <2>1. Fresh(hooks'[s]) /\ hooks'[s].name = "Stop"
    BY <1>1, <1>4 DEF Emission, Ends, Sends
  <2>2. hooks'[s] # Free
    BY <2>1 DEF Fresh, Free
  <2> QED
    BY <2>1, <2>2 DEF InFlight
<1>6. Limit(hooks[s])' = clock'
  BY <1>5 DEF Limit, Fresh
<1>7. ASSUME NEW t \in InFlight' \ {s}
      PROVE  NotAfter(hooks'[t], clock') /\ (hooks'[t].name # "PostToolUse" => hooks'[t].seq < clock')
  <2>1. t \in InFlight /\ hooks'[t] = hooks[t]
    BY <1>1, <1>4, EmissionSlots DEF Ends, Emission
  <2>2. hooks[t].pc # "start" /\ (hooks[t].name # "PostToolUse" => hooks[t].seq < clock')
    BY <1>1, <1>4, <2>1, PlainTurn DEF Ends, TurnTaken
  <2>3. hooks[t].seq \in Nat /\ hooks[t].seq <= clock
    BY <2>1, HookTyped
  <2> QED
    BY <1>1, <2>1, <2>2, <2>3 DEF NotAfter
<1>8. StopPending(s)'
  <2>1. hooks'[s].pc # "write"
    BY <1>5 DEF Fresh
  <2>2. Existing(file)'.report_seq <= clock'
    BY <1>1
  <2> QED
    BY <1>5, <1>6, <1>7, <2>1, <2>2 DEF StopPending, NotAfter
<1> QED
  BY <1>5, <1>8

LEMMA SessionCommands == ASSUME HooksInv, SessionActs PROVE OnlyCommands'
<1> SUFFICES ASSUME Plain', session'.phase = "thinking" \/ Commanding', NEW s \in InFlight'
             PROVE  hooks'[s].script = "fast" /\ (hooks'[s].name = "PostToolUse" \/ hooks'[s].tool = "Bash")
  BY DEF OnlyCommands
<1>1. Emission /\ Plain /\ ~Delegates /\ ~Returns /\ session.tool \notin Delegating /\ ~Blocks
  BY Emits, SessionPlain DEF HooksInv, PlainFits, Blocks, Plain
<1>2. /\ session = [phase |-> session.phase, tool |-> session.tool, subagents |-> session.subagents]
      /\ IF session.phase \in {"tool", "asking"} THEN session.tool \in Tools ELSE session.tool = ""
  BY SessionFact
<1>3. CASE s \in InFlight /\ hooks'[s] = hooks[s]
  <2>1. session.phase = "thinking" \/ Commanding
    <3>1. TurnHooks # {}
      BY <1>1, <1>3, PlainTurn
    <3>2. ~Starts /\ ~Prompts /\ ~Ends
      BY <1>2, <3>1 DEF Starts, Prompts, Ends, Commanding, UserTools
    <3>3. CASE Answers
      BY <1>1, <1>2, <3>1, <3>3 DEF Answers, Commanding, Tools, UserTools, Delegating
    <3>4. CASE Asks
      BY <1>2, <3>4 DEF Asks, Commanding
    <3> QED
      BY <1>1, <3>2, <3>3, <3>4 DEF SessionActs, Calls
  <2> QED
    BY <1>1, <1>3, <2>1 DEF HooksInv, OnlyCommands
<1>4. CASE Sent(s) /\ s \in Slots
  <2>1. ~Prompts
    BY <1>4 DEF Prompts, Plain
  <2>2. ~Starts /\ ~Ends
    BY <1>2 DEF Starts, Ends, Commanding, UserTools
  <2>3. CASE Asks
    BY <1>2, <1>4, <2>3 DEF Asks, Commanding, Sends
  <2>4. CASE \E tool \in Tools : Calls(tool)
    BY <1>2, <1>4, <2>4 DEF Calls, Commanding, Sends
  <2>5. CASE Answers
    BY <1>4, <2>5 DEF Answers, Sends, Plain
  <2> QED
    BY <1>1, <2>1, <2>2, <2>3, <2>4, <2>5 DEF SessionActs
<1> QED
  BY <1>1, <1>3, <1>4, EmissionSlots

LEMMA SessionCommandShows == ASSUME HooksInv, SessionActs PROVE CommandShows'
<1> SUFFICES ASSUME Plain', Commanding'
             PROVE  Existing(file)'.state \in Working \/ \E s \in InFlight' : CommandPending(s)'
  BY DEF CommandShows
<1>1. /\ Emission /\ Plain /\ ~Delegates /\ ~Returns
      /\ Existing(file)' = Existing(file) /\ Existing(file).report_seq <= clock
      /\ Existing(file).report_seq \in Nat /\ clock \in Nat /\ clock' \in Nat /\ clock <= clock'
  BY Emits, SessionPlain, EmissionRecord
<1>2. session = [phase |-> session.phase, tool |-> session.tool, subagents |-> session.subagents]
  BY SessionFact
<1>3. (\E tool \in Tools : Calls(tool) /\ tool = "Bash") \/ (Asks /\ Commanding)
  BY <1>1, <1>2 DEF SessionActs, Starts, Prompts, Calls, Blocks, Asks, Answers, Ends, Commanding, UserTools, Plain
<1>4. CASE \E tool \in Tools : Calls(tool) /\ tool = "Bash"
  <2> PICK s \in Slots : Sent(s)
    BY <1>4 DEF Calls
  <2>1. /\ Fresh(hooks'[s]) /\ hooks'[s].script = "fast" /\ hooks'[s].name = "PreToolUse"
        /\ hooks'[s].tool = "Bash" /\ s \in InFlight'
    BY <1>1, <1>4 DEF Emission, Calls, Sends, Fresh, InFlight, Free
  <2>2. Limit(hooks[s])' = clock' /\ Existing(file)'.report_seq <= clock'
    BY <1>1, <2>1 DEF Limit, Fresh
  <2>3. ASSUME NEW t \in InFlight', hooks'[t].name = "PostToolUse" PROVE NotAfter(hooks'[t], clock')
    <3>1. t \in InFlight /\ hooks'[t] = hooks[t]
      BY <1>1, <1>4, <2>3, EmissionSlots DEF Calls, Sends
    <3>2. hooks[t].pc # "start" /\ hooks[t].seq \in Nat /\ hooks[t].seq <= clock
      BY <1>1, <1>4, <3>1, PlainTurn, HookTyped DEF Calls, TurnTaken
    <3> QED
      BY <1>1, <3>1, <3>2 DEF NotAfter
  <2>4. CommandPending(s)'
    BY <2>1, <2>2, <2>3 DEF CommandPending, NotAfter
  <2> QED
    BY <2>1, <2>4
<1>5. CASE Asks /\ Commanding
  <2>1. Existing(file).state \in Working \/ \E s \in InFlight : CommandPending(s)
    BY <1>1, <1>5 DEF HooksInv, CommandShows
  <2>2. ASSUME NEW s \in InFlight, CommandPending(s) PROVE s \in InFlight' /\ CommandPending(s)'
    <3>1. s \in InFlight' /\ hooks'[s] = hooks[s]
      BY <1>1, EmissionKeepsSlots
    <3>2. Limit(hooks[s])' = Limit(hooks[s])
      BY <1>5, <3>1 DEF Limit, Asks
    <3>3. ASSUME NEW t \in InFlight', hooks'[t].name = "PostToolUse"
          PROVE  NotAfter(hooks'[t], Limit(hooks[s])')
      <4>1. t \in InFlight /\ hooks'[t] = hooks[t]
        BY <1>1, <1>5, <3>3, EmissionSlots DEF Asks, Sends
      <4> QED
        BY <2>2, <3>2, <3>3, <4>1 DEF CommandPending
    <3> QED
      BY <1>1, <2>2, <3>1, <3>2, <3>3 DEF CommandPending, NotAfter
  <2> QED
    BY <1>1, <2>1, <2>2
<1> QED
  BY <1>3, <1>4, <1>5

LEMMA SessionKeeps == ASSUME HooksInv, SessionStep PROVE HooksInv'
BY SessionActsFact, Emits, SessionTypes, EmissionFits, SessionStartsAlone, EmissionOneEach, SessionTakers,
   SessionPlain, SessionTurnEnds, SessionCommands, SessionCommandShows DEF HooksInv

-----------------------------------------------------------------------------
(* A hook goes on without touching the record.                             *)

SameEvent(h, g) == g.script = h.script /\ g.name = h.name /\ g.tool = h.tool /\ g.n = h.n

(* The hook in slot s comes to the state g, or ends with nothing to write, *)
(* which it may do only while nobody relies on what it is to write.        *)
Advances(s, g) ==
    /\ UNCHANGED <<file, session, events, stateBy, seen>> /\ Ticks
    /\ hooks' = [hooks EXCEPT ![s] = g]
    /\ \/ g = Free
       \/ /\ HookFits(g)' /\ SameEvent(hooks[s], g) /\ g.pc # "start"
          /\ IF hooks[s].pc = "start" THEN g.script = "gate" \/ g.seq = clock' ELSE g.seq = hooks[s].seq
    /\ Plain /\ session.phase = "idle" /\ StopPending(s) =>
          /\ g # Free
          /\ g.pc = "write" => /\ "state" \in DOMAIN g.write.update
                               /\ g.write.update.state \in StopStates /\ g.write.guard = {}
    /\ CommandPending(s) /\ Existing(file).state \notin Working => g # Free

LEMMA AdvanceClock ==
    ASSUME HooksInv, NEW s, NEW g, Advances(s, g)
    PROVE  /\ clock \in Nat /\ clock' \in Nat /\ clock <= clock' /\ events \in Nat /\ events' = events
           /\ stateBy' = stateBy /\ Existing(file)' = Existing(file) /\ seen' = seen /\ session' = session
           /\ Existing(file).report_seq \in Nat /\ Existing(file).report_seq <= clock
           /\ Plain' = Plain /\ Commanding' = Commanding
<1>1. TypeOK /\ HooksFit
  BY DEF HooksInv
<1>2. clock' \in Nat /\ clock <= clock'
  BY <1>1, RecordTyped DEF Advances, Ticks
<1>3. /\ events' = events /\ stateBy' = stateBy /\ seen' = seen /\ session' = session
      /\ Existing(file)' = Existing(file)
  BY DEF Advances, Existing
<1>4. Plain' = Plain /\ Commanding' = Commanding
  BY <1>3 DEF Plain, Commanding
<1> QED
  BY <1>1, <1>2, <1>3, <1>4, RecordTyped DEF HooksFit

LEMMA AdvanceSlots ==
    ASSUME HooksInv, NEW s \in InFlight, NEW g, Advances(s, g), NEW t \in InFlight'
    PROVE  /\ t \in InFlight /\ SameEvent(hooks[t], hooks'[t]) /\ hooks'[t].pc \in {"start", "entered", "write"}
           /\ hooks[t].seq \in Nat /\ hooks[t].seq <= clock /\ Limit(hooks[t]) \in Nat
           /\ hooks'[t].seq \in Nat /\ hooks'[t].seq <= clock' /\ Limit(hooks[t])' \in Nat
           /\ hooks[t].pc # "start" => hooks'[t].pc # "start" /\ hooks'[t].seq = hooks[t].seq
           /\ hooks[t].script # "gate" => Limit(hooks[t]) <= Limit(hooks[t])'
           /\ IF t = s THEN hooks'[t] = g /\ HookFits(g)' ELSE hooks'[t] = hooks[t]
<1>1. hooks = [u \in Slots |-> hooks[u]] /\ s \in Slots
  BY HookTyped DEF HooksInv, HooksFit
<1>2. hooks' = [hooks EXCEPT ![s] = g]
  BY DEF Advances
<1>3. hooks'[s] = g /\ \A u \in Slots \ {s} : hooks'[u] = hooks[u]
  BY <1>1, <1>2
<1>4. t \in InFlight /\ t \in Slots
  BY <1>3 DEF InFlight
<1>5. hooks[t].seq \in Nat /\ hooks[t].seq <= clock /\ clock \in Nat /\ clock' \in Nat /\ clock <= clock'
  BY <1>4, HookTyped, AdvanceClock
<1>6. CASE t # s
  BY <1>3, <1>4, <1>5, <1>6, HookTyped DEF SameEvent, Limit, HookFits
<1>7. CASE t = s
  <2>1. g # Free
    BY <1>3, <1>7 DEF InFlight
  <2>2. /\ HookFits(g)' /\ SameEvent(hooks[s], g) /\ g.pc # "start"
        /\ IF hooks[s].pc = "start" THEN g.script = "gate" \/ g.seq = clock' ELSE g.seq = hooks[s].seq
    BY <2>1 DEF Advances
  <2>3. g.pc \in {"start", "entered", "write"} /\ g.seq \in 0..clock'
    BY <2>2 DEF HookFits
  <2> QED
    BY <1>3, <1>4, <1>5, <1>7, <2>2, <2>3 DEF SameEvent, Limit
<1> QED
  BY <1>6, <1>7

LEMMA AdvanceFits ==
    ASSUME HooksInv, NEW s \in InFlight, NEW g, Advances(s, g)
    PROVE  TypeOK' /\ HooksFit' /\ StartsAlone' /\ OneEach' /\ PlainFits' /\ OnlyCommands'
<1>1. TypeOK /\ HooksFit /\ StartsAlone /\ OneEach /\ PlainFits /\ OnlyCommands
  BY DEF HooksInv
<1>2. /\ clock \in Nat /\ clock' \in Nat /\ clock <= clock' /\ events \in Nat /\ events' = events
      /\ stateBy' = stateBy /\ Existing(file)' = Existing(file) /\ seen' = seen /\ session' = session
      /\ Existing(file).report_seq \in Nat /\ Existing(file).report_seq <= clock
      /\ Plain' = Plain /\ Commanding' = Commanding
  BY AdvanceClock
<1>3. InFlight' \subseteq InFlight
  BY AdvanceSlots
<1>4. \A t \in InFlight' : SameEvent(hooks[t], hooks'[t])
  BY AdvanceSlots
<1>5. TypeOK'
  <2>1. \A t \in Slots : hooks'[t].pc \in {"free", "start", "entered", "write"}
    BY AdvanceSlots DEF InFlight, Free
  <2>2. file' = file
    BY DEF Advances
  <2> QED
    BY <1>1, <1>2, <2>1, <2>2 DEF TypeOK
<1>6. HooksFit'
  <2>1. hooks' = [u \in Slots |-> hooks'[u]]
    BY <1>1 DEF HooksFit, Advances
  <2>2. ASSUME NEW t \in InFlight' PROVE HookFits(hooks[t])'
    <3> PICK h : h = hooks'[t]
      OBVIOUS
    <3>1. HookFits(h)'
      <4>1. CASE t = s
        BY <4>1, AdvanceSlots
      <4>2. CASE t # s
        <5>1. HookFits(h)
          BY <2>2, <4>2, AdvanceSlots, HookTyped
        <5> QED
          BY <1>2, <5>1, HookFitsStays
      <4> QED
        BY <4>1, <4>2
    <3> QED
      BY <3>1 DEF HookFits, HookShape, OfEvent, WriteFits, Names
  <2>3. Existing(file)'.report_seq <= clock' /\ Existing(file)'.preview <= events'
    BY <1>1, <1>2 DEF HooksFit
  <2> QED
    BY <2>1, <2>2, <2>3 DEF HooksFit
<1>7. StartsAlone'
  BY <1>1, <1>2, <1>3, <1>4 DEF StartsAlone, SameEvent
<1>8. OneEach'
  BY <1>1, <1>2, <1>3, <1>4 DEF OneEach, SameEvent
<1>9. PlainFits'
  BY <1>1, <1>2, <1>3, <1>4 DEF PlainFits, SameEvent
<1>10. OnlyCommands'
  BY <1>1, <1>2, <1>3, <1>4 DEF OnlyCommands, SameEvent
<1> QED
  BY <1>5, <1>6, <1>7, <1>8, <1>9, <1>10

LEMMA AdvanceTakers ==
    ASSUME HooksInv, NEW s \in InFlight, NEW g, Advances(s, g)
    PROVE  TakersBehind'
<1>1. /\ clock \in Nat /\ clock' \in Nat /\ clock <= clock' /\ stateBy' = stateBy
      /\ Existing(file)' = Existing(file) /\ session' = session
  BY AdvanceClock
<1> SUFFICES ASSUME NEW t \in InFlight', Taker(hooks'[t])
             PROVE  /\ \A u \in InFlight' :
                          Setter(hooks'[u]) /\ hooks'[t].n < hooks'[u].n
                             => Behind(hooks'[t], Limit(hooks[u])')
                    /\ session'.tool \in UserTools => Behind(hooks'[t], clock')
                    /\ Existing(file)'.state \in StopStates /\ hooks'[t].n < stateBy'
                          => Behind(hooks'[t], Existing(file)'.report_seq)
  BY DEF TakersBehind, Taker, Setter, Behind
<1>2. /\ t \in InFlight /\ hooks'[t].n = hooks[t].n /\ Taker(hooks[t]) /\ hooks[t].seq \in Nat
      /\ hooks[t].pc # "start" => hooks'[t].pc # "start" /\ hooks'[t].seq = hooks[t].seq
  BY AdvanceSlots DEF SameEvent, Taker
<1>3. /\ \A u \in InFlight :
            Setter(hooks[u]) /\ hooks[t].n < hooks[u].n => Behind(hooks[t], Limit(hooks[u]))
      /\ session.tool \in UserTools => Behind(hooks[t], clock)
      /\ Existing(file).state \in StopStates /\ hooks[t].n < stateBy
            => Behind(hooks[t], Existing(file).report_seq)
  BY <1>2 DEF HooksInv, TakersBehind
<1>4. ASSUME NEW u \in InFlight', Setter(hooks'[u]), hooks'[t].n < hooks'[u].n
      PROVE  Behind(hooks'[t], Limit(hooks[u])')
  <2>1. u \in InFlight /\ Setter(hooks[u]) /\ hooks'[u].n = hooks[u].n /\ HookFits(hooks[u])
    BY <1>4, AdvanceSlots, HookTyped DEF SameEvent, Setter
  <2>2. Limit(hooks[u]) <= Limit(hooks[u])' /\ Limit(hooks[u]) \in Nat /\ Limit(hooks[u])' \in Nat
    BY <2>1, AdvanceSlots DEF HookFits, OfEvent, Setter
  <2>3. Behind(hooks[t], Limit(hooks[u]))
    BY <1>2, <1>3, <1>4, <2>1
  <2> QED
    BY <1>2, <2>2, <2>3 DEF Behind
<1> QED
  BY <1>1, <1>2, <1>3, <1>4 DEF Behind

LEMMA AdvanceTurnEnds ==
    ASSUME HooksInv, NEW s \in InFlight, NEW g, Advances(s, g)
    PROVE  TurnEnds'
<1>1. /\ clock \in Nat /\ clock' \in Nat /\ clock <= clock' /\ stateBy' = stateBy
      /\ Existing(file)' = Existing(file) /\ session' = session /\ seen' = seen /\ Plain' = Plain
      /\ Existing(file).report_seq \in Nat
  BY AdvanceClock
<1> SUFFICES ASSUME Plain, session.phase = "idle", "Stop" \in seen
             PROVE  Stopped' \/ \E u \in InFlight' : StopPending(u)'
  BY <1>1 DEF TurnEnds
<1>2. CASE Stopped
  <2>1. ASSUME NEW t \in InFlight', hooks'[t].name # "PostToolUse"
        PROVE  Behind(hooks'[t], Existing(file)'.report_seq)
    <3>1. t \in InFlight /\ hooks[t].name # "PostToolUse"
      BY <2>1, AdvanceSlots DEF SameEvent
    <3> QED
      BY <1>1, <1>2, <3>1, AdvanceSlots DEF Stopped, Behind
  <2> QED
    BY <1>1, <1>2, <2>1 DEF Stopped, Behind
<1>3. ASSUME NEW u \in InFlight, StopPending(u) PROVE u \in InFlight' /\ StopPending(u)'
  <2>0. hooks = [v \in Slots |-> hooks[v]] /\ s \in Slots
    BY HookTyped DEF HooksInv, HooksFit
  <2>1. u \in InFlight'
    <3>1. CASE u = s
      BY <1>3, <2>0, <3>1 DEF Advances, InFlight
    <3>2. CASE u # s
      BY <2>0, <3>2 DEF Advances, InFlight
    <3> QED
      BY <3>1, <3>2
  <2>2. hooks'[u].name = "Stop" /\ hooks[u].script # "gate"
    BY <1>3, <2>1, AdvanceSlots, HookTyped DEF StopPending, SameEvent, HookFits, OfEvent
  <2>3. ASSUME hooks'[u].pc = "write"
        PROVE  /\ "state" \in DOMAIN hooks'[u].write.update
               /\ hooks'[u].write.update.state \in StopStates /\ hooks'[u].write.guard = {}
    <3>1. CASE u = s
      <4>1. hooks'[s] = g
        BY <2>1, <3>1, AdvanceSlots
      <4> QED
        BY <1>3, <2>3, <3>1, <4>1 DEF Advances
    <3>2. CASE u # s
      BY <1>3, <2>1, <2>3, <3>2, AdvanceSlots DEF StopPending, Names
    <3> QED
      BY <3>1, <3>2
  <2>4. Limit(hooks[u]) <= Limit(hooks[u])' /\ Limit(hooks[u]) \in Nat /\ Limit(hooks[u])' \in Nat
    BY <2>1, <2>2, AdvanceSlots
  <2>5. Existing(file)'.report_seq <= Limit(hooks[u])'
    BY <1>1, <1>3, <2>4 DEF StopPending
  <2>6. ASSUME NEW t \in InFlight' \ {u}
        PROVE  /\ NotAfter(hooks'[t], Limit(hooks[u])')
               /\ hooks'[t].name # "PostToolUse" => hooks'[t].seq < Limit(hooks[u])'
    <3>1. /\ t \in InFlight /\ NotAfter(hooks[t], Limit(hooks[u]))
          /\ hooks[t].name # "PostToolUse" => hooks[t].seq < Limit(hooks[u])
      BY <1>3, <2>6, AdvanceSlots DEF StopPending
    <3>2. hooks'[t].pc # "start" /\ hooks'[t].seq = hooks[t].seq /\ hooks[t].seq \in Nat /\ hooks'[t].name = hooks[t].name
      BY <2>6, <3>1, AdvanceSlots DEF NotAfter, SameEvent
    <3> QED
      BY <2>4, <3>1, <3>2 DEF NotAfter
  <2>7. StopPending(u)'
    BY <2>2, <2>3, <2>5, <2>6 DEF StopPending, Names, NotAfter
  <2> QED
    BY <2>1, <2>7
<1> QED
  BY <1>2, <1>3 DEF HooksInv, TurnEnds

LEMMA AdvanceCommandShows ==
    ASSUME HooksInv, NEW s \in InFlight, NEW g, Advances(s, g)
    PROVE  CommandShows'
<1>1. /\ clock \in Nat /\ clock' \in Nat /\ clock <= clock' /\ Plain' = Plain /\ Commanding' = Commanding
      /\ Existing(file)' = Existing(file) /\ Existing(file).report_seq \in Nat
  BY AdvanceClock
<1> SUFFICES ASSUME Plain, Commanding, Existing(file).state \notin Working
             PROVE  \E u \in InFlight' : CommandPending(u)'
  BY <1>1 DEF CommandShows
<1> PICK u \in InFlight : CommandPending(u)
  BY DEF HooksInv, CommandShows
<1>2. hooks = [v \in Slots |-> hooks[v]] /\ s \in Slots
  BY HookTyped DEF HooksInv, HooksFit
<1>3. u \in InFlight'
  <2>1. CASE u = s
    BY <1>2, <2>1 DEF Advances, InFlight
  <2>2. CASE u # s
    BY <1>2, <2>2 DEF Advances, InFlight
  <2> QED
    BY <2>1, <2>2
<1>4. hooks'[u].script = "fast" /\ hooks'[u].name = "PreToolUse" /\ hooks'[u].tool = "Bash" /\ hooks[u].script # "gate"
  BY <1>3, AdvanceSlots DEF CommandPending, SameEvent
<1>5. Limit(hooks[u]) <= Limit(hooks[u])' /\ Limit(hooks[u]) \in Nat /\ Limit(hooks[u])' \in Nat
  BY <1>3, <1>4, AdvanceSlots
<1>6. Existing(file)'.report_seq <= Limit(hooks[u])'
  BY <1>1, <1>5 DEF CommandPending
<1>7. ASSUME NEW t \in InFlight', hooks'[t].name = "PostToolUse" PROVE NotAfter(hooks'[t], Limit(hooks[u])')
  <2>1. t \in InFlight /\ NotAfter(hooks[t], Limit(hooks[u]))
    BY <1>7, AdvanceSlots DEF CommandPending, SameEvent
  <2>2. hooks'[t].pc # "start" /\ hooks'[t].seq = hooks[t].seq /\ hooks[t].seq \in Nat
    BY <2>1, <1>7, AdvanceSlots DEF NotAfter
  <2> QED
    BY <1>5, <2>1, <2>2 DEF NotAfter
<1> QED
  BY <1>3, <1>4, <1>6, <1>7 DEF CommandPending, NotAfter

LEMMA AdvanceKeeps ==
    ASSUME HooksInv, NEW s \in InFlight, NEW g, Advances(s, g)
    PROVE  HooksInv'
BY AdvanceFits, AdvanceTakers, AdvanceTurnEnds, AdvanceCommandShows DEF HooksInv

-----------------------------------------------------------------------------
(* What the hooks decide to write.                                         *)

LEMMA OnlyFact ==
    ASSUME NEW values, NEW fields, fields \subseteq Fields, \A f \in fields : values[f] \in Values[f]
    PROVE  /\ IsUpdate(Only(values, fields)) /\ DOMAIN Only(values, fields) = fields
           /\ \A f \in fields : Only(values, fields)[f] = values[f]
BY DEF Only, IsUpdate

LEMMA StampFact ==
    ASSUME NEW update, NEW seq
    PROVE  /\ DOMAIN Stamp(update, seq) = DOMAIN update \cup {"report_seq"}
           /\ Stamp(update, seq).report_seq = seq
           /\ \A f \in DOMAIN update \ {"report_seq"} : Stamp(update, seq)[f] = update[f]
BY DEF Stamp

LEMMA GuardsChange == {} # {"unchanged"} /\ StopStates # {"unchanged"} /\ NoChange.guard = {"unchanged"}
<1>1. "done" \in StopStates
  BY DEF StopStates
<1> QED
  BY <1>1 DEF NoChange

LEMMA ResolveFact ==
    ASSUME NEW h, h.script = "fast", OfEvent(h), NEW r, r = resolveState(h.name, h.tool)
    PROVE  IF h.name = "PostToolUse" THEN r = "running"
           ELSE r \in IF h.tool \in Stopping THEN {"plan", "question"} ELSE Working
<1>1. /\ h.name \in {"PreToolUse", "PostToolUse", "PermissionRequest"} /\ h.tool \in Tools
      /\ h.name = "PermissionRequest" => h.tool \notin Delegating
  BY DEF OfEvent
<1> QED
  BY <1>1 DEF resolveState, Stopping, UserTools, Delegating, Tools, Working

(* What buildUpdate decides. *)
BuildDecides(h, e, w) ==
    \/ w = NoChange /\ (h.name = "PreToolUse" /\ h.tool = "Bash" => e.state \in Working)
    \/ /\ w = [update |-> w.update, guard |-> w.guard, preserve |-> FALSE]
       /\ w.guard \in {{}, StopStates} /\ IsUpdate(w.update)
       /\ DOMAIN w.update \subseteq {"state", "current_tool", "pending_question", "hook_blocked"}
       /\ h.name # "PostToolUse" => "state" \in DOMAIN w.update /\ w.guard = {}
       /\ "state" \in DOMAIN w.update =>
             IF h.name = "PostToolUse" THEN w.update.state = "running" /\ w.guard = StopStates
             ELSE w.update.state \in IF h.tool \in Stopping THEN StopStates ELSE Working

LEMMA BuildFact ==
    ASSUME NEW h, NEW e, NEW other \in BOOLEAN, NEW w, w = buildUpdate(h, e, other),
           h.script = "fast", OfEvent(h), IsRecord(e)
    PROVE  BuildDecides(h, e, w)
<1> DEFINE post == h.name = "PostToolUse"
           asks == h.tool = "AskUserQuestion"
           consumeBlocked == e.hook_blocked /\ h.name = "PreToolUse"
           resolved == resolveState(h.name, h.tool)
           state == IF consumeBlocked /\ resolved = "running" THEN "permission" ELSE resolved
           currentTool == IF post THEN "" ELSE toolName(h.tool)
           stampPendingQ == ~post /\ asks
           clearPendingQ == /\ ~stampPendingQ
                            /\ e.pending_question
                            /\ IF asks THEN post ELSE h.name = "PreToolUse"
           question == IF stampPendingQ \/ clearPendingQ THEN {"pending_question"} ELSE {}
           blocked == IF consumeBlocked THEN {"hook_blocked"} ELSE {}
           values == [state |-> state, current_tool |-> currentTool,
                      pending_question |-> stampPendingQ, hook_blocked |-> FALSE]
           changed == \/ e.state # state
                      \/ e.current_tool # currentTool
                      \/ consumeBlocked \/ stampPendingQ \/ clearPendingQ \/ other
           most == {"state", "current_tool"} \cup question \cup blocked
<1>1. w = IF post /\ e.state \in StopStates
          THEN IF clearPendingQ \/ other THEN Unguarded(Only(values, question)) ELSE NoChange
          ELSE IF ~changed THEN NoChange
          ELSE [update |-> Only(values, most), guard |-> fastGuard(post), preserve |-> FALSE]
  BY DEF buildUpdate
<1>2. IF post THEN state = "running"
      ELSE state \in IF h.tool \in Stopping THEN StopStates ELSE Working
  BY ResolveFact DEF Working, StopStates
<1>3. h.tool \in Tools
  BY DEF OfEvent
<1>4. currentTool \in {"", "Bash", "AskUserQuestion", "ExitPlanMode", "Agent"}
  BY <1>3 DEF toolName, Tools
<1>5. stampPendingQ \in BOOLEAN
  OBVIOUS
<1>6. state \in States
  BY <1>2 DEF States, StopStates, Working
<1>7. question \subseteq {"pending_question"} /\ blocked \subseteq {"hook_blocked"}
  OBVIOUS
<1>8. DOMAIN values = {"state", "current_tool", "pending_question", "hook_blocked"} /\ values.state = state
  OBVIOUS
<1>9. \A f \in {"state", "current_tool", "pending_question", "hook_blocked"} : values[f] \in Values[f]
  <2>1. values["state"] \in Values["state"]
    BY <1>6 DEF Values
  <2>2. values["current_tool"] \in Values["current_tool"]
    BY <1>4 DEF Values
  <2>3. values["pending_question"] \in Values["pending_question"]
    BY <1>5 DEF Values
  <2>4. values["hook_blocked"] \in Values["hook_blocked"]
    BY DEF Values
  <2> QED
    BY <2>1, <2>2, <2>3, <2>4
<1>10. post /\ e.state \in StopStates => ~(h.name = "PreToolUse")
  OBVIOUS
<1>11. e.state \notin Working /\ h.tool = "Bash" /\ ~post => changed
  BY <1>2 DEF Stopping, UserTools
<1> HIDE DEF values, state, changed, clearPendingQ, question, blocked, currentTool, stampPendingQ, consumeBlocked, resolved
<1>12. question \subseteq Fields /\ most \subseteq Fields /\ "state" \notin question
  BY <1>7, FieldNames
<1>13. CASE w = NoChange
  BY <1>1, <1>10, <1>11, <1>13, GuardsChange DEF fastGuard, Unguarded, BuildDecides
<1>14. CASE w = Unguarded(Only(values, question)) /\ post
  <2>1. IsUpdate(Only(values, question)) /\ DOMAIN Only(values, question) = question
    BY <1>7, <1>9, <1>12, OnlyFact
  <2>2. /\ w = [update |-> w.update, guard |-> w.guard, preserve |-> FALSE]
        /\ w.update = Only(values, question) /\ w.guard = {}
    BY <1>14 DEF Unguarded
  <2>3. IsUpdate(w.update) /\ DOMAIN w.update = question
    BY <2>1, <2>2
  <2> QED
    BY <1>7, <1>12, <1>14, <2>2, <2>3 DEF BuildDecides
<1>15. CASE w = [update |-> Only(values, most), guard |-> fastGuard(post), preserve |-> FALSE]
  <2>1. \A f \in most : values[f] \in Values[f]
    BY <1>7, <1>9
  <2>2. w.update = Only(values, most) /\ w.guard = fastGuard(post)
    BY <1>15
  <2>3. most \subseteq {"state", "current_tool", "pending_question", "hook_blocked"} /\ "state" \in most
    BY <1>7
  <2>4. most \subseteq Fields
    BY <1>12
  <2> HIDE DEF most
  <2>5. IsUpdate(Only(values, most)) /\ DOMAIN Only(values, most) = most
    BY ONLY <2>1, <2>4, OnlyFact, Zenon
  <2>6. IsUpdate(Only(values, most)) /\ DOMAIN Only(values, most) = most /\ Only(values, most).state = state
    <3>1. "state" \in most
      BY <2>3
    <3>2. Only(values, most)["state"] = values["state"]
      BY ONLY <2>1, <2>4, <3>1, OnlyFact, Zenon
    <3>3. Only(values, most).state = state
      BY <1>8, <3>2
    <3> QED
      BY ONLY <2>5, <3>3, Zenon
  <2> QED
    BY <1>2, <1>15, <2>2, <2>3, <2>6 DEF fastGuard, BuildDecides
<1> QED
  BY <1>1, <1>13, <1>14, <1>15

LEMMA CountFact == ASSUME NEW name, NEW count \in Nat PROVE subagentCount(name, count) \in Nat
<1>1. CASE name = "SubagentStart"
  BY <1>1 DEF subagentCount
<1>2. CASE name = "SubagentStop"
  BY <1>2 DEF subagentCount
<1>3. CASE name # "SubagentStart" /\ name # "SubagentStop"
  BY <1>3 DEF subagentCount
<1> QED
  BY <1>1, <1>2, <1>3

(* What report decides. *)
ReportDecides(h, e, pending, w) ==
    \/ w = NoChange /\ (h.name = "Stop" => e.pinned_state = "merged" \/ e.preview = h.n)
    \/ /\ w = [update |-> w.update, guard |-> w.guard, preserve |-> w.preserve]
       /\ w.guard \in {{}, StopStates} /\ IsUpdate(w.update) /\ w.preserve \in BOOLEAN
       /\ DOMAIN w.update = {"state", "subagent_count", "preview"}
       /\ h.name # "SubagentStop" => ~w.preserve
       /\ h.name = "SubagentStop" => w.guard = StopStates
       /\ w.update.preview \in {0, h.n}
       /\ h.name \in {"SessionStart", "SubagentStart"} => w.update.state = "running"
       /\ h.name = "Stop" =>
             IF pending THEN w.guard = StopStates ELSE w.update.state \in StopStates /\ w.guard = {}

LEMMA ReportFact ==
    ASSUME NEW h, NEW e, NEW pending \in BOOLEAN, NEW other \in BOOLEAN, NEW w,
           w = report(h, e, pending, other), h.script = "reporter", OfEvent(h), IsRecord(e), h.n \in Nat
    PROVE  ReportDecides(h, e, pending, w)
<1> DEFINE starts == h.name \in {"SessionStart", "SubagentStart"}
           state == IF starts THEN "running" ELSE resolveStopState(h, e, pending)
           entry == buildReportEntry(h, e, state)
           changed == other \/ \E f \in DOMAIN entry : e[f] # entry[f]
           final == /\ h.name = "SubagentStop"
                    /\ ~pending
                    /\ entry.subagent_count = 0
           guarded == shouldGuardWrite(h.name, pending)
<1>1. w = IF (h.name = "Stop" /\ e.pinned_state = "merged") \/ ~changed
          THEN NoChange
          ELSE [update |-> entry, guard |-> IF guarded THEN StopStates ELSE {}, preserve |-> guarded /\ final]
  BY DEF report
<1>2. e.state \in States /\ e.subagent_count \in Nat
  <2>1. {"state", "subagent_count"} \subseteq Fields /\ Values["state"] = States /\ Values["subagent_count"] = Nat
    BY FieldNames DEF Values
  <2> QED
    BY <2>1 DEF IsRecord
<1>3. h.name \in {"SessionStart", "SubagentStart", "SubagentStop", "Stop"} /\ (h.name = "Stop" => h.detected \in Detected)
  BY DEF OfEvent
<1>4. h.name = "Stop" /\ ~pending => state \in StopStates
  BY <1>3, BoundAssumption DEF resolveStopState, StopStates
<1>5. state \in States
  BY <1>2, <1>3, <1>4 DEF resolveStopState, States, StopStates
<1> HIDE DEF state
<1> PICK k \in Nat : k = subagentCount(h.name, e.subagent_count)
  BY <1>2, CountFact
<1> PICK v : v = IF h.name \in {"SessionStart", "SubagentStart"} THEN 0 ELSE h.n
  OBVIOUS
<1>6. entry = [state |-> state, subagent_count |-> k, preview |-> v]
  BY DEF buildReportEntry
<1>7. v \in {0, h.n} /\ v \in Nat /\ (h.name = "Stop" => v = h.n)
  OBVIOUS
<1>8. IsUpdate(entry)
  <2>1. DOMAIN entry \subseteq Fields
    BY <1>6, FieldNames
  <2>2. entry["state"] \in Values["state"]
    BY <1>5, <1>6 DEF Values
  <2>3. entry["subagent_count"] \in Values["subagent_count"] /\ entry["preview"] \in Values["preview"]
    BY <1>6, <1>7 DEF Values
  <2> QED
    BY <1>6, <2>1, <2>2, <2>3 DEF IsUpdate
<1>9. h.name = "Stop" /\ e.preview # h.n => changed
  BY <1>6, <1>7
<1>10. guarded = (h.name = "SubagentStop" \/ (h.name = "Stop" /\ pending))
  BY DEF shouldGuardWrite
<1>11. DOMAIN entry = {"state", "subagent_count", "preview"} /\ entry.state = state /\ entry.preview = v
  BY <1>6
<1>12. guarded \in BOOLEAN /\ final \in BOOLEAN
  BY <1>10
<1> HIDE DEF entry, changed, guarded
<1>13. CASE w = NoChange
  <2>1. h.name = "Stop" => e.pinned_state = "merged" \/ e.preview = h.n
    BY <1>1, <1>9, <1>13, GuardsChange
  <2> QED
    BY <1>13, <2>1 DEF ReportDecides
<1>14. CASE w = [update |-> entry, guard |-> IF guarded THEN StopStates ELSE {}, preserve |-> guarded /\ final]
  <2>1. w.update = entry /\ w.guard = (IF guarded THEN StopStates ELSE {}) /\ w.preserve = (guarded /\ final)
    BY <1>14
  <2>2. w = [update |-> w.update, guard |-> w.guard, preserve |-> w.preserve]
    BY <1>14
  <2>3. w.preserve \in BOOLEAN /\ (h.name # "SubagentStop" => ~w.preserve)
    BY <1>12, <2>1
  <2>4. /\ w.guard \in {{}, StopStates} /\ (h.name = "SubagentStop" => w.guard = StopStates)
        /\ h.name = "Stop" => IF pending THEN w.guard = StopStates ELSE w.guard = {}
    BY <1>10, <2>1
  <2>5. starts => state = "running"
    BY DEF state
  <2> QED
    BY <1>4, <1>7, <1>8, <1>11, <2>1, <2>2, <2>3, <2>4, <2>5 DEF ReportDecides
<1> QED
  BY <1>1, <1>13, <1>14

-----------------------------------------------------------------------------
(* The steps of a hook up to its write. *)

LEMMA EnteredFact ==
    ASSUME NEW h, HookShape(h), NEW seq
    PROVE  [h EXCEPT !.pc = "entered", !.seq = seq]
              = [pc |-> "entered", script |-> h.script, name |-> h.name, tool |-> h.tool,
                 detected |-> h.detected, n |-> h.n, seq |-> seq, write |-> h.write]
<1> PICK k : k = [h EXCEPT !.pc = "entered", !.seq = seq]
  OBVIOUS
<1> DEFINE fields == {"pc", "script", "name", "tool", "detected", "n", "seq", "write"}
<1>1. DOMAIN k = DOMAIN h /\ DOMAIN h = fields
  BY DEF HookShape
<1>2. /\ k.pc = "entered" /\ k.seq = seq /\ k.script = h.script /\ k.name = h.name /\ k.tool = h.tool
      /\ k.detected = h.detected /\ k.n = h.n /\ k.write = h.write
  BY <1>1
<1>3. k = [f \in fields |-> k[f]]
  BY <1>1
<1> QED
  BY <1>1, <1>2, <1>3

LEMMA EnterKeeps == ASSUME HooksInv, NEW s \in Slots, Enter(s) PROVE HooksInv'
<1>1. s \in InFlight
  BY DEF Enter, InFlight
<1> PICK h : h = hooks[s]
  OBVIOUS
<1>2. HookFits(h) /\ h.n \in 1..events
  BY <1>1, HookTyped DEF HookFits
<1>3. /\ h.pc = "start" /\ h.script \in {"fast", "reporter"} /\ Ticks
      /\ UNCHANGED <<file, session, events, stateBy, seen>>
      /\ hooks' = [hooks EXCEPT ![s] = [h EXCEPT !.pc = "entered", !.seq = clock']]
  BY DEF Enter, Ticks
<1>4. hooks = [t \in Slots |-> hooks[t]]
  BY DEF HooksInv, HooksFit
<1> PICK g : g = [pc |-> "entered", script |-> h.script, name |-> h.name, tool |-> h.tool,
                  detected |-> h.detected, n |-> h.n, seq |-> clock', write |-> h.write]
  OBVIOUS
<1>5. hooks' = [hooks EXCEPT ![s] = g]
  <2>1. g = [h EXCEPT !.pc = "entered", !.seq = clock']
    BY <1>2, EnteredFact DEF HookFits
  <2> QED
    BY <1>3, <2>1
<1>6. HookFits(g)'
  <2>1. HookShape(g) /\ g.pc = "entered" /\ g.seq = clock'
    BY DEF HookShape
  <2>2. OfEvent(g)
    BY <1>2 DEF HookFits, OfEvent
  <2>3. g.n \in 1..events' /\ g.seq \in 0..clock' /\ g.script \in {"fast", "reporter"}
    <3>1. clock' \in Nat
      BY <1>3, RecordTyped DEF Ticks, HooksInv
    <3>2. clock' \in 0..clock'
      BY <3>1
    <3> QED
      BY <1>2, <1>3, <2>1, <3>2
  <2> QED
    BY <2>1, <2>2, <2>3 DEF HookFits, HookShape, OfEvent
<1>7. SameEvent(hooks[s], g) /\ g.pc = "entered" /\ g.seq = clock'
  BY DEF SameEvent
<1>8. g # Free
  BY <1>7 DEF Free
<1>9. Advances(s, g)
  BY <1>3, <1>5, <1>6, <1>7, <1>8 DEF Advances
<1> QED
  BY <1>1, <1>9, AdvanceKeeps

(* A hook that has decided on a write. *)
Decided(h, w) ==
    [pc |-> "write", script |-> h.script, name |-> h.name, tool |-> h.tool,
     detected |-> h.detected, n |-> h.n, seq |-> h.seq, write |-> w]

LEMMA DecidedFact ==
    ASSUME NEW h, HookShape(h), OfEvent(h), NEW w, NEW g, g = Decided(h, w)
    PROVE  /\ HookShape(g) /\ OfEvent(g) /\ g.pc = "write" /\ g.script = h.script /\ g.name = h.name
           /\ g.tool = h.tool /\ g.n = h.n /\ g.seq = h.seq /\ g.write = w /\ SameEvent(h, g) /\ g # Free
<1>1. /\ HookShape(g) /\ g.pc = "write" /\ g.script = h.script /\ g.name = h.name
      /\ g.tool = h.tool /\ g.n = h.n /\ g.seq = h.seq /\ g.write = w /\ g.detected = h.detected
  BY DEF Decided, HookShape
<1>2. OfEvent(g)
  BY <1>1 DEF OfEvent
<1>3. g # Free
  BY <1>1 DEF Free
<1> QED
  BY <1>1, <1>2, <1>3 DEF SameEvent

LEMMA ReadyFact ==
    ASSUME NEW h, HookShape(h), NEW w, w # NoChange
    PROVE  Ready(h, w) = Decided(h, w)
BY DEF Ready, Decided, HookShape

LEMMA ReadKeeps == ASSUME HooksInv, NEW s \in Slots, Read(s) PROVE HooksInv'
<1>1. s \in InFlight
  BY DEF Read, InFlight, Free
<1> PICK h, e : h = hooks[s] /\ e = Existing(file)
  OBVIOUS
<1>2. HookFits(h) /\ HookShape(h) /\ OfEvent(h) /\ h.n \in 1..events /\ h.n \in Nat /\ h.seq \in 0..clock /\ h.seq \in Nat
  BY <1>1, HookTyped DEF HookFits
<1>3. h.pc = "entered" /\ h.script \in {"fast", "reporter"} /\ UNCHANGED <<file, clock, session, events, stateBy, seen>>
  BY <1>2 DEF Read, HookFits
<1>4. IsRecord(e)
  BY RecordTyped DEF HooksInv
<1>5. (session.phase \in {"tool", "asking"}) \in BOOLEAN
  OBVIOUS
<1> PICK pending \in BOOLEAN : pending = (session.phase \in {"tool", "asking"})
  BY <1>5
<1>6. PICK other \in BOOLEAN :
         LET write == IF h.script = "fast" THEN buildUpdate(h, e, other) ELSE report(h, e, pending, other)
             stamped == [write EXCEPT !.update = Stamp(@, h.seq)]
         IN  hooks' = [hooks EXCEPT ![s] = Ready(h, IF write = NoChange THEN write ELSE stamped)]
  BY DEF Read
<1> PICK w : w = IF h.script = "fast" THEN buildUpdate(h, e, other) ELSE report(h, e, pending, other)
  OBVIOUS
<1>7. hooks' = [hooks EXCEPT ![s] =
                    Ready(h, IF w = NoChange THEN w ELSE [w EXCEPT !.update = Stamp(@, h.seq)])]
  BY <1>6
<1>8. Ticks
  BY <1>3 DEF Ticks
<1>9. ASSUME h.script = "fast" PROVE BuildDecides(h, e, w)
  <2>1. w = buildUpdate(h, e, other)
    BY <1>9
  <2> QED
    BY <1>2, <1>4, <1>9, <2>1, BuildFact
<1>10. ASSUME h.script = "reporter" PROVE ReportDecides(h, e, pending, w)
  <2>1. w = report(h, e, pending, other)
    BY <1>10
  <2> QED
    BY <1>2, <1>4, <1>10, <2>1, ReportFact
<1>11. CASE w = NoChange
  <2>1. hooks' = [hooks EXCEPT ![s] = Free]
    BY <1>7, <1>11 DEF Ready
  <2>2. ~(Plain /\ session.phase = "idle" /\ StopPending(s))
    <3> SUFFICES ASSUME Plain, session.phase = "idle", StopPending(s) PROVE FALSE
      OBVIOUS
    <3>1. h.name = "Stop" /\ h.script = "reporter" /\ h.script # "fast"
      BY <1>2 DEF StopPending, OfEvent
    <3>2. e.pinned_state # "merged" /\ e.preview # h.n
      BY <1>1, <3>1 DEF HooksInv, PlainFits, OneEach
    <3> QED
      BY <1>11, <1>10, <3>1, <3>2, GuardsChange DEF ReportDecides
  <2>3. ~(CommandPending(s) /\ Existing(file).state \notin Working)
    <3> SUFFICES ASSUME CommandPending(s), e.state \notin Working PROVE FALSE
      OBVIOUS
    <3>1. h.script = "fast" /\ h.name = "PreToolUse" /\ h.tool = "Bash"
      BY DEF CommandPending
    <3> QED
      BY <1>11, <1>9, <3>1, GuardsChange DEF BuildDecides
  <2> PICK g : g = Free
    OBVIOUS
  <2>4. Advances(s, g)
    BY <1>3, <1>8, <2>1, <2>2, <2>3 DEF Advances
  <2> QED
    BY <1>1, <2>4, AdvanceKeeps
<1>12. CASE w # NoChange
  <2>1. /\ w = [update |-> w.update, guard |-> w.guard, preserve |-> w.preserve]
        /\ w.guard \in {{}, StopStates} /\ IsUpdate(w.update)
        /\ DOMAIN w.update \subseteq {"state", "current_tool", "pending_question", "hook_blocked", "subagent_count", "preview"}
    BY <1>3, <1>12, <1>9, <1>10 DEF BuildDecides, ReportDecides
  <2> PICK v : v = [update |-> Stamp(w.update, h.seq), guard |-> w.guard, preserve |-> w.preserve]
    OBVIOUS
  <2>2. v = [w EXCEPT !.update = Stamp(@, h.seq)] /\ v.guard = w.guard /\ v.preserve = w.preserve /\ v.update = Stamp(w.update, h.seq)
    BY <2>1
  <2>3. v # NoChange
    BY <2>1, <2>2, GuardsChange
  <2> PICK g : g = Decided(h, v)
    OBVIOUS
  <2>4. hooks' = [hooks EXCEPT ![s] = g]
    <3>1. hooks' = [hooks EXCEPT ![s] = Ready(h, v)]
      BY <1>7, <1>12, <2>2
    <3>2. Ready(h, v) = Decided(h, v)
      BY <1>2, <2>3, ReadyFact
    <3> QED
      BY <3>1, <3>2
  <2>5. /\ HookShape(g) /\ OfEvent(g) /\ g.pc = "write" /\ g.script = h.script /\ g.name = h.name
        /\ g.tool = h.tool /\ g.n = h.n /\ g.seq = h.seq /\ g.write = v /\ SameEvent(h, g) /\ g # Free
    BY <1>2, DecidedFact
  <2>6. /\ IsUpdate(v.update) /\ DOMAIN v.update = DOMAIN w.update \cup {"report_seq"} /\ v.update.report_seq = h.seq
        /\ \A f \in DOMAIN w.update : v.update[f] = w.update[f]
    <3>1. IsUpdate(Stamp(w.update, h.seq))
      BY <1>2, <2>1, StampTyped
    <3> PICK u : u = w.update
      OBVIOUS
    <3>2. "report_seq" \notin DOMAIN u
      BY <2>1
    <3>3. /\ DOMAIN Stamp(u, h.seq) = DOMAIN u \cup {"report_seq"} /\ Stamp(u, h.seq).report_seq = h.seq
          /\ \A f \in DOMAIN u : Stamp(u, h.seq)[f] = u[f]
      BY <3>2 DEF Stamp
    <3>4. v.update = Stamp(u, h.seq)
      BY <2>2
    <3> QED
      BY <3>1, <3>3, <3>4
  <2>7. WriteFits(g)
    <3>1. CASE h.script = "fast"
      <4>1. h.name \in {"PreToolUse", "PostToolUse", "PermissionRequest"}
        BY <1>2, <3>1 DEF OfEvent
      <4>2. /\ w.preserve = FALSE
            /\ DOMAIN w.update \subseteq {"state", "current_tool", "pending_question", "hook_blocked"}
            /\ h.name # "PostToolUse" => "state" \in DOMAIN w.update /\ w.guard = {}
            /\ "state" \in DOMAIN w.update =>
                  IF h.name = "PostToolUse" THEN w.update.state = "running" /\ w.guard = StopStates
                  ELSE w.update.state \in IF h.tool \in Stopping THEN StopStates ELSE Working
        BY <1>12, <1>9, <3>1 DEF BuildDecides
      <4>3. g.script = "fast" /\ g.name = h.name /\ g.tool = h.tool /\ g.seq = h.seq
        BY <2>5, <3>1
      <4>4. g.write.update = v.update /\ g.write.guard = w.guard /\ g.write.preserve = w.preserve
        BY <2>2, <2>5
      <4>5. g.write.guard \in {{}, StopStates} /\ IsUpdate(g.write.update)
        BY <2>1, <2>6, <4>4
      <4>6. ~g.write.preserve
        BY <4>2, <4>4
      <4>7. /\ DOMAIN g.write.update = DOMAIN w.update \cup {"report_seq"}
            /\ g.write.update.report_seq = g.seq
            /\ "state" \in DOMAIN w.update => g.write.update.state = w.update.state
        <5>1. g.write.update = v.update /\ g.seq = h.seq
          BY <4>3, <4>4
        <5>2. DOMAIN v.update = DOMAIN w.update \cup {"report_seq"} /\ v.update.report_seq = h.seq
          BY <2>6
        <5>3. "state" \in DOMAIN w.update => v.update.state = w.update.state
          BY <2>6
        <5> QED
          BY ONLY <5>1, <5>2, <5>3
      <4>8. /\ Names(g, "report_seq") /\ ~Names(g, "preview") /\ ~Names(g, "pinned_state")
            /\ Names(g, "state") => "state" \in DOMAIN w.update /\ g.write.update.state = w.update.state
        BY <4>2, <4>7 DEF Names
      <4>9. g.name # "PostToolUse" => Names(g, "state") /\ g.write.guard = {}
        BY <4>2, <4>3, <4>4, <4>7 DEF Names
      <4>10. Names(g, "state") =>
                IF g.name = "PostToolUse" THEN g.write.update.state = "running" /\ g.write.guard = StopStates
                ELSE g.write.update.state \in IF g.tool \in Stopping THEN StopStates ELSE Working
        <5> SUFFICES ASSUME Names(g, "state")
                     PROVE  IF g.name = "PostToolUse" THEN g.write.update.state = "running" /\ g.write.guard = StopStates
                            ELSE g.write.update.state \in IF g.tool \in Stopping THEN StopStates ELSE Working
          OBVIOUS
        <5>1. g.write.update.state = w.update.state
          BY <4>8
        <5>2. IF h.name = "PostToolUse" THEN w.update.state = "running" /\ w.guard = StopStates
              ELSE w.update.state \in IF h.tool \in Stopping THEN StopStates ELSE Working
          BY <4>2, <4>8
        <5>3. g.name = h.name /\ g.tool = h.tool /\ g.write.guard = w.guard
          BY <4>3, <4>4
        <5> QED
          BY ONLY <5>1, <5>2, <5>3
      <4>11. g.name \in {"PreToolUse", "PostToolUse", "PermissionRequest"}
        BY <4>1, <4>3
      <4> QED
        BY <4>3, <4>5, <4>6, <4>7, <4>8, <4>9, <4>10, <4>11 DEF WriteFits
    <3>2. CASE h.script = "reporter"
      <4>1. h.name \in {"SessionStart", "SubagentStart", "SubagentStop", "Stop"}
        BY <1>2, <3>2 DEF OfEvent
      <4>2. /\ DOMAIN w.update = {"state", "subagent_count", "preview"}
            /\ h.name = "SubagentStop" => w.guard = StopStates
            /\ w.update.preview \in {0, h.n}
            /\ h.name \in {"SessionStart", "SubagentStart"} => w.update.state = "running"
            /\ h.name = "Stop" => w.update.state \in StopStates \/ w.guard = StopStates
        BY <1>12, <1>10, <3>2 DEF ReportDecides
      <4>3. /\ DOMAIN g.write.update = {"state", "subagent_count", "preview", "report_seq"}
            /\ g.write.update.state = w.update.state /\ g.write.update.preview = w.update.preview
            /\ g.write.update.report_seq = g.seq
        <5>1. g.write.update = v.update /\ g.seq = h.seq
          BY <2>5
        <5>2. {"state", "preview"} \subseteq DOMAIN w.update
          BY <4>2
        <5>3. DOMAIN v.update = {"state", "subagent_count", "preview", "report_seq"}
          BY <2>6, <4>2
        <5>4. v.update.state = w.update.state /\ v.update.preview = w.update.preview /\ v.update.report_seq = h.seq
          BY <2>6, <5>2
        <5> QED
          BY <5>1, <5>3, <5>4
      <4>4. g.write.guard = w.guard /\ IsUpdate(g.write.update) /\ g.n = h.n
        BY <2>2, <2>5, <2>6
      <4>5. g.script = "reporter" /\ g.name = h.name
        BY <2>5, <3>2
      <4>6. Names(g, "report_seq") /\ Names(g, "state") /\ Names(g, "preview") /\ ~Names(g, "pinned_state")
        BY <4>3 DEF Names
      <4>7. g.write.guard \in {{}, StopStates}
        BY <2>1, <4>4
      <4>8. g.name # "SubagentStop" => ~g.write.preserve
        <5>1. h.name # "SubagentStop" => ~w.preserve
          BY <1>12, <1>10, <3>2 DEF ReportDecides
        <5>2. g.write.preserve = w.preserve
          BY <2>2, <2>5
        <5> QED
          BY <4>5, <5>1, <5>2, Zenon
      <4>9. /\ g.name \in {"SessionStart", "SubagentStart", "SubagentStop", "Stop"}
            /\ g.name = "SubagentStop" => g.write.guard = StopStates
            /\ g.write.update.preview \in {0, g.n}
            /\ g.name \in {"SessionStart", "SubagentStart"} => g.write.update.state = "running"
            /\ g.name = "Stop" => g.write.update.state \in StopStates \/ g.write.guard = StopStates
        <5>1. g.write.update.state = w.update.state /\ g.write.update.preview = w.update.preview
          BY <4>3
        <5>2. g.write.guard = w.guard /\ g.n = h.n /\ g.name = h.name
          BY <4>4, <4>5
        <5>3. g.write.update.preview \in {0, g.n}
          BY <4>2, <5>1, <5>2
        <5> QED
          BY <4>1, <4>2, <5>1, <5>2, <5>3
      <4>10. IsUpdate(g.write.update) /\ g.write.update.report_seq = g.seq
        BY <4>3, <4>4
      <4> QED
        BY <4>5, <4>6, <4>7, <4>8, <4>9, <4>10 DEF WriteFits
    <3> QED
      BY <1>3, <3>1, <3>2
  <2>8. HookFits(g)'
    <3>1. WriteFits(g)'
      BY <2>7 DEF WriteFits, Names
    <3>2. g.n \in 1..events' /\ g.seq \in 0..clock'
      BY <1>2, <1>3, <2>5
    <3> QED
      BY <2>5, <3>1, <3>2 DEF HookFits, HookShape, OfEvent
  <2>9. ASSUME Plain, session.phase = "idle", StopPending(s)
        PROVE  "state" \in DOMAIN g.write.update /\ g.write.update.state \in StopStates /\ g.write.guard = {}
    <3>1. h.name = "Stop" /\ h.script = "reporter"
      BY <1>2, <2>9 DEF StopPending, OfEvent
    <3>2. ~pending
      BY <2>9
    <3>3. DOMAIN w.update = {"state", "subagent_count", "preview"} /\ w.update.state \in StopStates /\ w.guard = {}
      BY <1>12, <1>10, <3>1, <3>2 DEF ReportDecides
    <3>4. g.write.update = v.update /\ g.write.guard = w.guard
      BY <2>2, <2>5
    <3>5. v.update.state = w.update.state /\ "state" \in DOMAIN v.update
      BY <2>6, <3>3
    <3> QED
      BY <3>3, <3>4, <3>5
  <2>10. Advances(s, g)
    BY <1>3, <1>8, <2>4, <2>5, <2>8, <2>9 DEF Advances
  <2> QED
    BY <1>1, <2>10, AdvanceKeeps
<1> QED
  BY <1>11, <1>12

LEMMA PrFact ==
    ASSUME NEW h, h.script \in {"pr-create", "pr-merge"}, NEW u, u = prUpdate(h)
    PROVE  /\ IsUpdate(u) /\ DOMAIN u = {"state", "pinned_state"} /\ u.state \in {"pr", "merged"}
<1>1. u = [state |-> "pr", pinned_state |-> "pr"] \/ u = [state |-> "merged", pinned_state |-> "merged"]
  BY DEF prUpdate
<1>2. DOMAIN u = {"state", "pinned_state"} /\ u.state \in {"pr", "merged"} /\ u.pinned_state \in {"pr", "merged"}
  BY <1>1
<1>3. u["state"] \in Values["state"] /\ u["pinned_state"] \in Values["pinned_state"]
  BY <1>2 DEF Values, States
<1> QED
  BY <1>2, <1>3, FieldNames DEF IsUpdate

LEMMA GateFact ==
    ASSUME NEW h, h.script = "gate", NEW u, u = prUpdate(h)
    PROVE  IsUpdate(u) /\ DOMAIN u = {"hook_blocked"}
<1>1. u = [hook_blocked |-> TRUE]
  BY DEF prUpdate
<1>2. DOMAIN u = {"hook_blocked"} /\ u["hook_blocked"] \in BOOLEAN
  BY <1>1
<1>3. Values["hook_blocked"] = BOOLEAN
  BY DEF Values
<1> QED
  BY <1>2, <1>3, FieldNames DEF IsUpdate

(* The pull-request hooks and the gate are nobody's hope. *)
LEMMA OtherAdvances ==
    ASSUME HooksInv, NEW s \in InFlight, hooks[s].script \notin {"fast", "reporter"}, NEW g,
           UNCHANGED <<file, session, events, stateBy, seen>>, Ticks,
           hooks' = [hooks EXCEPT ![s] = g], HookFits(g)', SameEvent(hooks[s], g), g.pc # "start",
           hooks[s].pc = "start", g.script = "gate" \/ g.seq = clock'
    PROVE  HooksInv'
<1>1. HookFits(hooks[s])
  BY HookTyped
<1>2. ~StopPending(s) /\ ~CommandPending(s)
  BY <1>1 DEF StopPending, CommandPending, HookFits, OfEvent
<1>3. Advances(s, g)
  BY <1>2 DEF Advances
<1> QED
  BY <1>3, AdvanceKeeps

LEMMA ReadyUnreadKeeps == ASSUME HooksInv, NEW s \in Slots, ReadyUnread(s) PROVE HooksInv'
<1>1. s \in InFlight
  BY DEF ReadyUnread, InFlight, Free
<1> PICK h : h = hooks[s]
  OBVIOUS
<1>2. HookFits(h) /\ HookShape(h) /\ OfEvent(h) /\ h.n \in 1..events /\ h.seq \in 0..clock /\ h.seq \in Nat
  BY <1>1, HookTyped DEF HookFits
<1>3. h.pc = "start" /\ h.script \notin {"fast", "reporter"} /\ UNCHANGED <<file, session, events, stateBy, seen>>
  BY DEF ReadyUnread
<1>4. hooks = [t \in Slots |-> hooks[t]]
  BY DEF HooksInv, HooksFit
<1> PICK u : u = prUpdate(h)
  OBVIOUS
<1>5. CASE h.script = "gate"
  <2> PICK w : w = [update |-> u, guard |-> {}, preserve |-> FALSE]
    OBVIOUS
  <2> PICK g : g = Decided(h, w)
    OBVIOUS
  <2>1. w = Unguarded(prUpdate(h)) /\ w.guard = {} /\ w.update = u /\ w.preserve = FALSE
    BY DEF Unguarded
  <2>2. w # NoChange
    BY <2>1, GuardsChange
  <2>3. Ready(h, w) = g
    BY <1>2, <2>2, ReadyFact
  <2>4. hooks' = [hooks EXCEPT ![s] = g] /\ clock' = clock
    BY <1>5, <2>1, <2>3 DEF ReadyUnread
  <2>5. /\ HookShape(g) /\ OfEvent(g) /\ g.pc = "write" /\ g.script = h.script /\ g.name = h.name
        /\ g.tool = h.tool /\ g.n = h.n /\ g.seq = h.seq /\ g.write = w /\ SameEvent(h, g) /\ g # Free
    BY <1>2, DecidedFact
  <2>6. IsUpdate(u) /\ DOMAIN u = {"hook_blocked"}
    BY <1>5, GateFact
  <2>7. g.name = "PreToolUse"
    BY <1>2, <1>5, <2>5 DEF OfEvent
  <2>8. WriteFits(g)
    <3>1. g.write.update = u /\ g.write.guard = {} /\ g.write.preserve = FALSE /\ g.script = "gate"
      BY <1>5, <2>1, <2>5
    <3>2. ~Names(g, "report_seq") /\ ~Names(g, "state") /\ ~Names(g, "pinned_state") /\ ~Names(g, "preview")
      BY <2>6, <3>1 DEF Names
    <3>3. IsUpdate(g.write.update)
      BY <2>6, <3>1
    <3> QED
      BY <2>7, <3>1, <3>2, <3>3 DEF WriteFits
  <2>9. HookFits(g)'
    <3>1. WriteFits(g)'
      BY <2>8 DEF WriteFits, Names
    <3>2. g.n \in 1..events' /\ g.seq \in 0..clock'
      BY <1>2, <1>3, <2>4, <2>5
    <3> QED
      BY <2>5, <3>1, <3>2 DEF HookFits, HookShape, OfEvent
  <2>10. Ticks
    BY <2>4 DEF Ticks
  <2> QED
    BY <1>1, <1>3, <1>5, <2>4, <2>5, <2>9, <2>10, OtherAdvances
<1>6. CASE h.script # "gate"
  <2>1. h.script \in {"pr-create", "pr-merge"} /\ h.name \in {"UserPromptSubmit", "PostToolUse"}
    BY <1>2, <1>3, <1>6 DEF OfEvent
  <2>2. /\ Ticks
        /\ hooks' = [hooks EXCEPT ![s] = Ready([h EXCEPT !.seq = clock'], Unguarded(Stamp(prUpdate(h), clock')))]
    BY <1>6 DEF ReadyUnread, Ticks
  <2>3. clock' \in Nat
    BY <2>2, RecordTyped DEF Ticks, HooksInv
  <2> PICK c \in Nat : c = clock'
    BY <2>3
  <2> PICK k : k = [h EXCEPT !.seq = c]
    OBVIOUS
  <2>4. k = [pc |-> h.pc, script |-> h.script, name |-> h.name, tool |-> h.tool,
             detected |-> h.detected, n |-> h.n, seq |-> c, write |-> h.write]
    BY <1>2 DEF HookShape
  <2>5. /\ HookShape(k) /\ k.seq = c /\ k.script = h.script /\ k.name = h.name /\ k.tool = h.tool /\ k.n = h.n
        /\ k.detected = h.detected
    BY <2>4 DEF HookShape
  <2>6. OfEvent(k)
    BY <1>2, <2>5 DEF OfEvent
  <2> PICK v : v = Stamp(u, c)
    OBVIOUS
  <2> PICK w : w = [update |-> v, guard |-> {}, preserve |-> FALSE]
    OBVIOUS
  <2> PICK g : g = Decided(k, w)
    OBVIOUS
  <2>7. w = Unguarded(Stamp(prUpdate(h), clock')) /\ w.guard = {} /\ w.update = v /\ w.preserve = FALSE
    BY DEF Unguarded
  <2>8. w # NoChange
    BY <2>7, GuardsChange
  <2>9. Ready(k, w) = g
    BY <2>5, <2>8, ReadyFact
  <2>10. hooks' = [hooks EXCEPT ![s] = g]
    BY <2>2, <2>7, <2>9
  <2>11. /\ HookShape(g) /\ OfEvent(g) /\ g.pc = "write" /\ g.script = k.script /\ g.name = k.name
         /\ g.tool = k.tool /\ g.n = k.n /\ g.seq = c /\ g.write = w /\ SameEvent(k, g)
    <3>1. /\ HookShape(g) /\ OfEvent(g) /\ g.pc = "write" /\ g.script = k.script /\ g.name = k.name
          /\ g.tool = k.tool /\ g.n = k.n /\ g.seq = k.seq /\ g.write = w /\ SameEvent(k, g)
      <4>1. HookShape(k) /\ OfEvent(k) /\ g = Decided(k, w)
        BY <2>5, <2>6
      <4> QED
        BY ONLY <4>1, DecidedFact
    <3> QED
      BY <2>5, <3>1
  <2>12. SameEvent(h, g)
    BY <2>5, <2>11 DEF SameEvent
  <2>13. IsUpdate(u) /\ DOMAIN u = {"state", "pinned_state"} /\ u.state \in {"pr", "merged"}
    BY <2>1, PrFact
  <2>14. /\ IsUpdate(v) /\ DOMAIN v = {"state", "pinned_state", "report_seq"}
         /\ v.state = u.state /\ v.report_seq = c
    <3>1. IsUpdate(v)
      BY <2>13, StampTyped
    <3> QED
      BY <2>13, <3>1 DEF Stamp
  <2>15. WriteFits(g)
    <3>1. g.write.update = v /\ g.write.guard = {} /\ g.write.preserve = FALSE
      BY <2>7, <2>11
    <3>2. g.script \in {"pr-create", "pr-merge"} /\ g.name \in {"UserPromptSubmit", "PostToolUse"} /\ g.seq = c
      BY <2>1, <2>5, <2>11
    <3>3. Names(g, "report_seq") /\ ~Names(g, "preview")
      BY <2>14, <3>1 DEF Names
    <3>4. IsUpdate(g.write.update) /\ g.write.update.report_seq = g.seq /\ g.write.update.state \in {"pr", "merged"}
      BY <2>13, <2>14, <3>1, <3>2
    <3> QED
      BY <3>1, <3>2, <3>3, <3>4 DEF WriteFits
  <2>16. HookFits(g)'
    <3>1. WriteFits(g)'
      BY <2>15 DEF WriteFits, Names
    <3>2. g.n \in 1..events' /\ g.seq \in 0..clock'
      BY <1>2, <1>3, <2>5, <2>11
    <3> QED
      BY <2>11, <3>1, <3>2 DEF HookFits, HookShape, OfEvent
  <2> QED
    BY <1>1, <1>3, <2>2, <2>10, <2>11, <2>12, <2>16, OtherAdvances
<1> QED
  BY <1>5, <1>6

-----------------------------------------------------------------------------
(* The write of the hook h turns the record e into m: it decides the state, *)
(* or leaves the state and who decided it.                                 *)

Decides(h, e, m) ==
    /\ Names(h, "state") /\ m.state = h.write.update.state /\ e.state \notin h.write.guard
    /\ e.report_seq <= h.seq /\ m.report_seq = h.seq
    /\ stateBy' = IF h.name \in SubagentEvents THEN 0 ELSE h.n

Writes(h, e, m) ==
    /\ IsRecord(m)
    /\ e.report_seq <= m.report_seq /\ m.report_seq \in {e.report_seq, h.seq}
    /\ m.preview = e.preview \/ m.preview = 0 \/ (m.preview = h.n /\ h.script = "reporter")
    /\ h.script \notin {"pr-create", "pr-merge"} => m.pinned_state = e.pinned_state
    /\ Decides(h, e, m) \/ (m.state = e.state /\ stateBy' = stateBy)
    /\ Names(h, "state") /\ h.write.guard = {} /\ e.report_seq <= h.seq => Decides(h, e, m)

LEMMA RecordPresent == ASSUME NEW m, IsRecord(m) PROVE Existing(m) = m
BY FieldNames DEF IsRecord, Existing, NoRecord

LEMMA WriteFact ==
    ASSUME HooksInv, NEW s \in Slots, Write(s)
    PROVE  /\ s \in InFlight /\ hooks[s].pc = "write" /\ WriteFits(hooks[s])
           /\ UNCHANGED <<clock, session, events, seen>> /\ hooks' = [hooks EXCEPT ![s] = Free]
           /\ file' = NoRecord \/ IsRecord(file')
           /\ Writes(hooks[s], Existing(file), Existing(file)')
<1> PICK h, e, w : h = hooks[s] /\ e = Existing(file) /\ w = h.write
  OBVIOUS
<1>1. /\ h.pc = "write" /\ hooks' = [hooks EXCEPT ![s] = Free] /\ UNCHANGED <<clock, session, events, seen>>
      /\ IF Rejected(e, w, clock) THEN UNCHANGED <<file, stateBy>>
         ELSE /\ file' = Merged(e, w, clock)
              /\ stateBy' = IF Preserved(e, w) \/ "state" \notin DOMAIN w.update
                            THEN stateBy
                            ELSE IF h.name \in SubagentEvents THEN 0 ELSE h.n
  BY DEF Write
<1>2. s \in InFlight
  BY <1>1 DEF InFlight, Free
<1>3. HookFits(h) /\ OfEvent(h) /\ WriteFits(h) /\ h.seq \in Nat
  BY <1>1, <1>2, HookTyped DEF HookFits
<1>4. /\ IsRecord(e) /\ e.report_seq \in Nat /\ e.report_seq <= clock /\ clock \in Nat
      /\ file = NoRecord \/ IsRecord(file)
  BY RecordTyped DEF HooksInv, HooksFit, TypeOK
<1>5. /\ IsUpdate(w.update)
      /\ Names(h, "report_seq") <=> "report_seq" \in DOMAIN w.update
      /\ Names(h, "report_seq") => w.update.report_seq = h.seq
      /\ Names(h, "state") <=> "state" \in DOMAIN w.update
      /\ Names(h, "state") => Names(h, "report_seq")
      /\ "preview" \in DOMAIN w.update => h.script = "reporter" /\ w.update.preview \in {0, h.n}
      /\ h.script \notin {"pr-create", "pr-merge"} => "pinned_state" \notin DOMAIN w.update
  BY <1>3 DEF WriteFits, Names
<1>6. StaleReportSeq(e, w.update, clock) <=> Names(h, "report_seq") /\ h.seq < e.report_seq
  BY <1>4, <1>5, StaleFact
<1>7. CASE Rejected(e, w, clock)
  <2>1. file' = file /\ stateBy' = stateBy /\ Existing(file)' = e
    BY <1>1, <1>7 DEF Existing
  <2>2. ~(w.guard = {} /\ e.report_seq <= h.seq)
    BY <1>3, <1>4, <1>6, <1>7 DEF Rejected, GuardHit
  <2>3. Writes(h, e, e)
    BY <1>4, <2>1, <2>2 DEF Writes
  <2> QED
    BY <1>1, <1>2, <1>3, <1>4, <2>1, <2>3
<1>8. CASE ~Rejected(e, w, clock)
  <2> PICK m : m = Merged(e, w, clock)
    OBVIOUS
  <2>1. /\ IsRecord(m)
        /\ m.state = IF Preserved(e, w) \/ "state" \notin DOMAIN w.update THEN e.state ELSE w.update.state
        /\ m.preview = IF "preview" \in DOMAIN w.update THEN w.update.preview ELSE e.preview
        /\ "pinned_state" \notin DOMAIN w.update => m.pinned_state = e.pinned_state
        /\ m.report_seq = IF "report_seq" \in DOMAIN w.update /\ ~(w.update.report_seq < e.report_seq)
                          THEN w.update.report_seq ELSE e.report_seq
    BY <1>4, <1>5, MergedFact
  <2>2. file' = m /\ Existing(file)' = m
    BY <1>1, <1>8, <2>1, RecordPresent DEF Existing
  <2>3. e.report_seq <= m.report_seq /\ m.report_seq \in {e.report_seq, h.seq}
    BY <1>3, <1>4, <1>5, <2>1
  <2>4. CASE Preserved(e, w) \/ "state" \notin DOMAIN w.update
    <3>1. m.state = e.state /\ stateBy' = stateBy
      BY <1>1, <1>8, <2>1, <2>4
    <3>2. ~(Names(h, "state") /\ w.guard = {})
      BY <1>5, <2>4 DEF Preserved, GuardHit
    <3>3. Writes(h, e, m)
      BY <1>5, <2>1, <2>3, <3>1, <3>2 DEF Writes
    <3> QED
      BY <1>1, <1>2, <1>3, <2>1, <2>2, <3>3
  <2>5. CASE ~Preserved(e, w) /\ "state" \in DOMAIN w.update
    <3>1. m.state = w.update.state /\ stateBy' = IF h.name \in SubagentEvents THEN 0 ELSE h.n
      BY <1>1, <1>8, <2>1, <2>5
    <3>2. e.state \notin w.guard /\ ~(h.seq < e.report_seq)
      BY <1>5, <1>6, <1>8, <2>5 DEF Rejected, Preserved, GuardHit
    <3>3. e.report_seq <= h.seq /\ m.report_seq = h.seq
      BY <1>3, <1>4, <1>5, <2>1, <2>5, <3>2
    <3>4. Decides(h, e, m)
      BY <1>5, <2>5, <3>1, <3>2, <3>3 DEF Decides
    <3>5. Writes(h, e, m)
      BY <1>5, <2>1, <2>3, <3>4 DEF Writes
    <3> QED
      BY <1>1, <1>2, <1>3, <2>1, <2>2, <3>5
  <2> QED
    BY <2>4, <2>5
<1> QED
  BY <1>7, <1>8

(* The write as the lemmas below see it. *)
Wrote(s, h, e, m) ==
    /\ s \in InFlight /\ h = hooks[s] /\ e = Existing(file) /\ m = Existing(file)'
    /\ h.pc = "write" /\ WriteFits(h) /\ HookFits(h) /\ OfEvent(h)
    /\ UNCHANGED <<clock, session, events, seen>>
    /\ hooks' = [t \in Slots |-> hooks'[t]]
    /\ InFlight' = InFlight \ {s} /\ \A t \in InFlight' : hooks'[t] = hooks[t]
    /\ file' = NoRecord \/ IsRecord(file')
    /\ Writes(h, e, m)
    /\ h.n \in Nat /\ h.n >= 1 /\ h.n <= events /\ h.seq \in Nat /\ h.seq <= clock /\ Limit(h) = h.seq
    /\ e.report_seq \in Nat /\ m.report_seq \in Nat /\ e.report_seq <= clock
    /\ clock \in Nat /\ events \in Nat /\ e.preview \in Nat /\ e.preview <= events

LEMMA WroteFact ==
    ASSUME HooksInv, NEW s \in Slots, Write(s), NEW h, NEW e, NEW m,
           h = hooks[s], e = Existing(file), m = Existing(file)'
    PROVE  Wrote(s, h, e, m)
<1>1. /\ s \in InFlight /\ h.pc = "write" /\ WriteFits(h)
      /\ UNCHANGED <<clock, session, events, seen>> /\ hooks' = [hooks EXCEPT ![s] = Free]
      /\ file' = NoRecord \/ IsRecord(file')
  BY WriteFact
<1>2. Writes(h, e, m)
  <2>1. Writes(hooks[s], Existing(file), Existing(file)')
    BY WriteFact
  <2> QED
    BY <2>1 DEF Writes, Decides, Names
<1>3. HookFits(h) /\ OfEvent(h) /\ h.seq \in Nat /\ h.seq <= clock /\ h.n \in Nat /\ h.n >= 1 /\ h.n <= events
  BY <1>1, HookTyped DEF HookFits
<1>4. hooks = [t \in Slots |-> hooks[t]]
  BY DEF HooksInv, HooksFit
<1>5. hooks' = [t \in Slots |-> hooks'[t]] /\ hooks'[s] = Free /\ \A t \in Slots \ {s} : hooks'[t] = hooks[t]
  BY <1>1, <1>4
<1>6. InFlight' = InFlight \ {s} /\ \A t \in InFlight' : hooks'[t] = hooks[t]
  BY <1>5 DEF InFlight
<1>7. /\ e.report_seq \in Nat /\ e.report_seq <= clock /\ clock \in Nat /\ events \in Nat /\ e.preview \in Nat
      /\ e.preview <= events
  BY RecordTyped DEF HooksInv, HooksFit
<1>8. m.report_seq \in Nat
  BY <1>2, <1>3, <1>7 DEF Writes
<1>9. Limit(h) = h.seq
  BY <1>1 DEF Limit
<1> QED
  BY <1>1, <1>2, <1>3, <1>5, <1>6, <1>7, <1>8, <1>9 DEF Wrote

LEMMA WriteShape ==
    ASSUME HooksInv, NEW s, NEW h, NEW e, NEW m, Wrote(s, h, e, m)
    PROVE  TypeOK' /\ HooksFit' /\ StartsAlone' /\ OneEach' /\ PlainFits' /\ OnlyCommands'
<1>1. TypeOK /\ HooksFit /\ StartsAlone /\ OneEach /\ PlainFits /\ OnlyCommands
  BY DEF HooksInv
<1>2. /\ s \in InFlight /\ h = hooks[s] /\ e = Existing(file) /\ m = Existing(file)'
      /\ clock' = clock /\ session' = session /\ events' = events /\ seen' = seen
      /\ InFlight' = InFlight \ {s} /\ \A t \in InFlight' : hooks'[t] = hooks[t]
  BY DEF Wrote
<1>3. stateBy' = stateBy \/ stateBy' = 0 \/ (stateBy' = h.n /\ h.script # "gate")
  BY DEF Wrote, Writes, Decides, WriteFits
<1>4. Plain' = Plain /\ Commanding' = Commanding
  BY <1>2 DEF Plain, Commanding
<1>5. h.n \in Nat /\ h.n >= 1 /\ h.n <= events /\ h.seq \in Nat /\ h.seq <= clock /\ clock \in Nat /\ events \in Nat
  BY DEF Wrote
<1>6. TypeOK'
  <2>1. stateBy' \in 0..events
    BY <1>1, <1>3, <1>5, RecordTyped
  <2>2. \A t \in Slots : hooks'[t].pc \in {"free", "start", "entered", "write"}
    <3> SUFFICES ASSUME NEW t \in Slots PROVE hooks'[t].pc \in {"free", "start", "entered", "write"}
      OBVIOUS
    <3>1. CASE t \in InFlight'
      BY <1>1, <1>2, <3>1 DEF TypeOK
    <3>2. CASE t \notin InFlight'
      <4>1. hooks'[t] = Free
        BY <3>2 DEF InFlight
      <4> QED
        BY <4>1 DEF Free
    <3> QED
      BY <3>1, <3>2
  <2>3. file' = NoRecord \/ IsRecord(file')
    BY DEF Wrote
  <2> QED
    BY <1>1, <1>2, <2>1, <2>2, <2>3 DEF TypeOK
<1>7. HooksFit'
  <2>1. m.report_seq <= clock
    BY DEF Wrote, Writes
  <2>2. m.preview <= events
    BY DEF Wrote, Writes
  <2>3. \A t \in InFlight' : HookFits(hooks[t])'
    <3> SUFFICES ASSUME NEW t \in InFlight' PROVE HookFits(hooks[t])'
      OBVIOUS
    <3> PICK g : g = hooks'[t]
      OBVIOUS
    <3>1. HookFits(g)
      BY <1>1, <1>2 DEF HooksFit
    <3>2. HookFits(g)'
      BY <1>2, <1>5, <3>1, HookFitsStays
    <3> QED
      BY <3>2 DEF HookFits, HookShape, OfEvent, WriteFits, Names
  <2>4. hooks' = [t \in Slots |-> hooks'[t]]
    BY DEF Wrote
  <2> QED
    BY <1>2, <2>1, <2>2, <2>3, <2>4 DEF HooksFit
<1>8. StartsAlone'
  <2>1. session.phase # "new"
    BY <1>1, <1>2 DEF StartsAlone
  <2>2. ASSUME NEW t \in InFlight', hooks'[t].name = "SessionStart" PROVE FALSE
    BY <1>1, <1>2, <2>2 DEF StartsAlone
  <2> QED
    BY <1>1, <1>2, <2>1, <2>2 DEF StartsAlone
<1>9. OneEach'
  <2> SUFFICES ASSUME NEW t \in InFlight', hooks[t].script # "gate"
               PROVE  /\ hooks[t].n # stateBy' /\ hooks[t].n # m.preview
                      /\ \A u \in InFlight' \ {t} : hooks[u].script # "gate" => hooks[u].n # hooks[t].n
    BY <1>2 DEF OneEach
  <2>1. /\ hooks[t].n # stateBy /\ hooks[t].n # e.preview /\ (h.script # "gate" => hooks[t].n # h.n)
        /\ \A u \in InFlight' \ {t} : hooks[u].script # "gate" => hooks[u].n # hooks[t].n
    BY <1>1, <1>2 DEF OneEach
  <2>2. hooks[t].n \in Nat /\ hooks[t].n >= 1
    BY <1>2, HookTyped
  <2>3. m.preview = e.preview \/ m.preview = 0 \/ (m.preview = h.n /\ h.script # "gate")
    BY DEF Wrote, Writes
  <2> QED
    BY <1>3, <2>1, <2>2, <2>3
<1>10. PlainFits'
  <2> SUFFICES ASSUME Plain PROVE PlainFits'
    BY <1>4 DEF PlainFits
  <2>1. m.pinned_state = e.pinned_state
    BY <1>1, <1>2 DEF PlainFits, Wrote, Writes
  <2> QED
    BY <1>1, <1>2, <2>1 DEF PlainFits
<1>11. OnlyCommands'
  BY <1>1, <1>2, <1>4 DEF OnlyCommands
<1> QED
  BY <1>6, <1>7, <1>8, <1>9, <1>10, <1>11

(* A hook that puts the agent into a stop state is a setter, or one of a    *)
(* subagent's event.                                                       *)
LEMMA StopsBySetter ==
    ASSUME NEW h, OfEvent(h), WriteFits(h), Names(h, "state"), h.write.update.state \in StopStates,
           h.name \notin SubagentEvents
    PROVE  Setter(h)
<1>1. h.write.update.state \notin Working /\ h.write.update.state \notin {"running", "pr", "merged"}
  BY DEF StopStates, Working
<1>2. h.script # "gate" /\ h.script \notin {"pr-create", "pr-merge"}
  BY <1>1 DEF WriteFits
<1>3. CASE h.script = "fast"
  BY <1>1, <1>3 DEF WriteFits, Setter
<1>4. CASE h.script = "reporter"
  BY <1>1, <1>4 DEF WriteFits, OfEvent, Setter, SubagentEvents
<1> QED
  BY <1>2, <1>3, <1>4 DEF OfEvent

LEMMA WriteTakers ==
    ASSUME HooksInv, NEW s, NEW h, NEW e, NEW m, Wrote(s, h, e, m)
    PROVE  TakersBehind'
<1>1. /\ s \in InFlight /\ h = hooks[s] /\ e = Existing(file) /\ m = Existing(file)'
      /\ clock' = clock /\ session' = session
      /\ InFlight' = InFlight \ {s} /\ \A t \in InFlight' : hooks'[t] = hooks[t]
      /\ e.report_seq \in Nat /\ m.report_seq \in Nat /\ e.report_seq <= m.report_seq
  BY DEF Wrote, Writes
<1> SUFFICES ASSUME NEW t \in InFlight', Taker(hooks[t])
             PROVE  /\ \A u \in InFlight' :
                          Setter(hooks[u]) /\ hooks[t].n < hooks[u].n => Behind(hooks[t], Limit(hooks[u]))
                    /\ session.tool \in UserTools => Behind(hooks[t], clock)
                    /\ m.state \in StopStates /\ hooks[t].n < stateBy' => Behind(hooks[t], m.report_seq)
  BY <1>1 DEF TakersBehind, Taker, Setter, Behind, Limit
<1>2. /\ \A u \in InFlight :
            Setter(hooks[u]) /\ hooks[t].n < hooks[u].n => Behind(hooks[t], Limit(hooks[u]))
      /\ session.tool \in UserTools => Behind(hooks[t], clock)
      /\ e.state \in StopStates /\ hooks[t].n < stateBy => Behind(hooks[t], e.report_seq)
      /\ hooks[t].seq \in Nat /\ hooks[t].n \in Nat
  BY <1>1, HookTyped DEF HooksInv, TakersBehind
<1>3. ASSUME m.state \in StopStates, hooks[t].n < stateBy' PROVE Behind(hooks[t], m.report_seq)
  <2>1. CASE m.state = e.state /\ stateBy' = stateBy
    BY <1>1, <1>2, <1>3, <2>1 DEF Behind
  <2>2. CASE Decides(h, e, m)
    <3>1. h.name \notin SubagentEvents /\ stateBy' = h.n
      BY <1>2, <1>3, <2>2 DEF Decides
    <3>2. Setter(h)
      BY <1>3, <2>2, <3>1, StopsBySetter DEF Decides, Wrote
    <3>3. Behind(hooks[t], Limit(h))
      BY <1>1, <1>2, <1>3, <3>1, <3>2
    <3>4. Limit(h) = m.report_seq
      BY <2>2 DEF Decides, Wrote
    <3> QED
      BY <3>3, <3>4
  <2> QED
    BY <2>1, <2>2 DEF Wrote, Writes
<1> QED
  BY <1>1, <1>2, <1>3

LEMMA WriteTurnEnds ==
    ASSUME HooksInv, NEW s, NEW h, NEW e, NEW m, Wrote(s, h, e, m)
    PROVE  TurnEnds'
<1>1. /\ s \in InFlight /\ h = hooks[s] /\ e = Existing(file) /\ m = Existing(file)' /\ h.pc = "write"
      /\ clock' = clock /\ session' = session /\ seen' = seen
      /\ InFlight' = InFlight \ {s} /\ \A t \in InFlight' : hooks'[t] = hooks[t]
      /\ e.report_seq \in Nat /\ m.report_seq \in Nat /\ e.report_seq <= m.report_seq
      /\ h.seq \in Nat /\ Limit(h) = h.seq /\ m.report_seq \in {e.report_seq, h.seq}
      /\ Decides(h, e, m) \/ m.state = e.state
  BY DEF Wrote, Writes
<1> SUFFICES ASSUME Plain, session.phase = "idle", "Stop" \in seen
             PROVE  Stopped' \/ \E v \in InFlight' : StopPending(v)'
  BY <1>1 DEF TurnEnds, Plain
<1>2. ASSUME NEW t \in InFlight' PROVE hooks[t].seq \in Nat /\ hooks'[t] = hooks[t] /\ t \in InFlight /\ t # s
  BY <1>1, HookTyped
<1>3. ASSUME m.state \in StopStates,
             \A t \in InFlight' : hooks[t].name # "PostToolUse" => Behind(hooks[t], m.report_seq)
      PROVE  Stopped'
  BY <1>1, <1>3 DEF Stopped, Behind
<1>4. CASE Stopped
  <2>1. e.state \in StopStates /\ \A t \in InFlight : hooks[t].name # "PostToolUse" => Behind(hooks[t], e.report_seq)
    BY <1>1, <1>4 DEF Stopped
  <2>2. ~Decides(h, e, m)
    <3> SUFFICES ASSUME Decides(h, e, m) PROVE FALSE
      OBVIOUS
    <3>1. CASE h.name = "PostToolUse"
      <4>1. h.script = "fast"
        BY <1>1, <3>1 DEF HooksInv, PlainFits, Wrote, OfEvent
      <4> QED
        BY <2>1, <3>1, <4>1 DEF Decides, Wrote, WriteFits
    <3>2. CASE h.name # "PostToolUse"
      <4>1. h.seq < e.report_seq
        BY <1>1, <2>1, <3>2 DEF Behind
      <4> QED
        BY <1>1, <4>1 DEF Decides
    <3> QED
      BY <3>1, <3>2
  <2>3. m.state \in StopStates
    BY <1>1, <2>1, <2>2
  <2>4. ASSUME NEW t \in InFlight', hooks[t].name # "PostToolUse" PROVE Behind(hooks[t], m.report_seq)
    BY <1>1, <1>2, <2>1, <2>4 DEF Behind
  <2> QED
    BY <1>3, <2>3, <2>4
<1>5. CASE StopPending(s)
  <2>1. /\ Names(h, "state") /\ h.write.update.state \in StopStates /\ h.write.guard = {}
        /\ e.report_seq <= h.seq
        /\ \A t \in InFlight \ {s} : NotAfter(hooks[t], h.seq) /\ (hooks[t].name # "PostToolUse" => hooks[t].seq < h.seq)
    BY <1>1, <1>5 DEF StopPending
  <2>2. Decides(h, e, m)
    BY <2>1 DEF Wrote, Writes
  <2>3. m.state \in StopStates /\ m.report_seq = h.seq
    BY <2>1, <2>2 DEF Decides
  <2>4. ASSUME NEW t \in InFlight', hooks[t].name # "PostToolUse" PROVE Behind(hooks[t], m.report_seq)
    BY <1>2, <2>1, <2>3, <2>4 DEF Behind, NotAfter
  <2> QED
    BY <1>3, <2>3, <2>4
<1>6. ASSUME NEW v \in InFlight \ {s}, StopPending(v) PROVE v \in InFlight' /\ StopPending(v)'
  <2>1. v \in InFlight' /\ hooks'[v] = hooks[v]
    BY <1>1
  <2> PICK limit : limit = Limit(hooks[v])
    OBVIOUS
  <2>2. Limit(hooks[v])' = limit /\ limit \in Nat
    BY <1>1, <1>2, <2>1, RecordTyped DEF Limit, HooksInv
  <2>3. /\ hooks[v].name = "Stop"
        /\ hooks[v].pc = "write" =>
              Names(hooks[v], "state") /\ hooks[v].write.update.state \in StopStates /\ hooks[v].write.guard = {}
        /\ e.report_seq <= limit
        /\ \A t \in InFlight \ {v} : NotAfter(hooks[t], limit) /\ (hooks[t].name # "PostToolUse" => hooks[t].seq < limit)
    BY <1>1, <1>6 DEF StopPending
  <2>4. h.seq <= limit
    BY <1>1, <2>3 DEF NotAfter
  <2>5. m.report_seq <= limit
    BY <1>1, <2>3, <2>4
  <2> QED
    BY <1>1, <2>1, <2>2, <2>3, <2>5 DEF StopPending, Names, NotAfter
<1> QED
  BY <1>4, <1>5, <1>6 DEF HooksInv, TurnEnds

LEMMA WriteCommandShows ==
    ASSUME HooksInv, NEW s, NEW h, NEW e, NEW m, Wrote(s, h, e, m)
    PROVE  CommandShows'
<1>1. /\ s \in InFlight /\ h = hooks[s] /\ e = Existing(file) /\ m = Existing(file)' /\ h.pc = "write"
      /\ clock' = clock /\ session' = session /\ seen' = seen
      /\ InFlight' = InFlight \ {s} /\ \A t \in InFlight' : hooks'[t] = hooks[t]
      /\ e.report_seq \in Nat /\ m.report_seq \in Nat /\ e.report_seq <= m.report_seq
      /\ h.seq \in Nat /\ Limit(h) = h.seq /\ m.report_seq \in {e.report_seq, h.seq}
      /\ Decides(h, e, m) \/ m.state = e.state
  BY DEF Wrote, Writes
<1> SUFFICES ASSUME Plain, Commanding, m.state \notin Working
             PROVE  \E v \in InFlight' : CommandPending(v)'
  BY <1>1 DEF CommandShows, Plain, Commanding
<1>2. h.script = "fast" /\ (h.name = "PostToolUse" \/ h.tool = "Bash")
  BY <1>1 DEF HooksInv, OnlyCommands
<1>3. ~Decides(h, e, m)
  <2> SUFFICES ASSUME Decides(h, e, m) PROVE FALSE
    OBVIOUS
  <2>1. h.tool = "Bash" => h.tool \notin Stopping
    BY DEF Stopping, UserTools
  <2>2. h.write.update.state \in Working
    BY <1>2, <2>1 DEF Decides, Wrote, WriteFits, Working
  <2> QED
    BY <2>2 DEF Decides
<1>4. e.state \notin Working
  BY <1>1, <1>3
<1>5. h.name # "PostToolUse" => h.seq < e.report_seq
  <2>1. h.name # "PostToolUse" => Names(h, "state") /\ h.write.guard = {}
    BY <1>2 DEF Wrote, WriteFits
  <2>2. Names(h, "state") /\ h.write.guard = {} /\ e.report_seq <= h.seq => Decides(h, e, m)
    BY DEF Wrote, Writes
  <2> QED
    BY <1>1, <1>3, <2>1, <2>2
<1> PICK v \in InFlight : CommandPending(v)
  BY <1>1, <1>4 DEF HooksInv, CommandShows
<1> PICK limit : limit = Limit(hooks[v])
  OBVIOUS
<1>6. /\ hooks[v].script = "fast" /\ hooks[v].name = "PreToolUse" /\ hooks[v].tool = "Bash"
      /\ e.report_seq <= limit
      /\ \A t \in InFlight : hooks[t].name = "PostToolUse" => NotAfter(hooks[t], limit)
  BY <1>1 DEF CommandPending
<1>7. v # s
  BY <1>1, <1>5, <1>6
<1>8. v \in InFlight' /\ hooks'[v] = hooks[v]
  BY <1>1, <1>7
<1>9. Limit(hooks[v])' = limit /\ limit \in Nat
  BY <1>1, <1>8, HookTyped, RecordTyped DEF Limit, HooksInv
<1>10. m.report_seq <= limit
  <2>1. CASE h.name = "PostToolUse"
    BY <1>1, <1>6, <2>1 DEF NotAfter
  <2>2. CASE h.name # "PostToolUse"
    BY <1>1, <1>5, <1>6, <2>2
  <2> QED
    BY <2>1, <2>2
<1> QED
  BY <1>1, <1>6, <1>8, <1>9, <1>10 DEF CommandPending, NotAfter

LEMMA WriteKeeps == ASSUME HooksInv, NEW s \in Slots, Write(s) PROVE HooksInv'
<1> PICK h, e, m : h = hooks[s] /\ e = Existing(file) /\ m = Existing(file)'
  OBVIOUS
<1>1. Wrote(s, h, e, m)
  BY WroteFact
<1> QED
  BY <1>1, WriteShape, WriteTakers, WriteTurnEnds, WriteCommandShows DEF HooksInv

-----------------------------------------------------------------------------
(* The theorems. *)

LEMMA StartedTyped == IsRecord(Started) /\ Started.report_seq = 1 /\ Started.preview = 0 /\ Started.pinned_state = ""
<1>1. {"state", "report_seq", "preview", "pinned_state"} \subseteq Fields /\ IsRecord(Empty)
  BY FieldNames, EmptyTyped
<1>2. "running" \in Values["state"] /\ 1 \in Values["report_seq"]
  BY DEF Values, States
<1>3. DOMAIN Empty = Fields /\ \A f \in Fields : Empty[f] \in Values[f]
  BY <1>1 DEF IsRecord
<1> PICK e : e = Empty
  OBVIOUS
<1> PICK r : r = [e EXCEPT !.state = "running"]
  OBVIOUS
<1>4. DOMAIN r = Fields /\ (\A f \in Fields : r[f] \in Values[f]) /\ \A f \in Fields \ {"state"} : r[f] = e[f]
  BY <1>1, <1>2, <1>3
<1> PICK q : q = [r EXCEPT !.report_seq = 1]
  OBVIOUS
<1>5. /\ DOMAIN q = Fields /\ (\A f \in Fields : q[f] \in Values[f]) /\ q.report_seq = 1
      /\ \A f \in Fields \ {"state", "report_seq"} : q[f] = e[f]
  BY <1>1, <1>2, <1>4
<1>6. Started = q
  BY DEF Started
<1>7. e.preview = 0 /\ e.pinned_state = ""
  BY DEF Empty
<1> QED
  BY <1>1, <1>5, <1>6, <1>7 DEF IsRecord

LEMMA InitHooks == Init => HooksInv
<1> SUFFICES ASSUME Init PROVE HooksInv
  OBVIOUS
<1>1. /\ clock = 1 /\ hooks = [s \in Slots |-> Free] /\ events = 0 /\ stateBy = 0 /\ seen = {}
      /\ \/ file = NoRecord /\ session = [phase |-> "new", tool |-> "", subagents |-> 0]
         \/ file = Started /\ session = [phase |-> "idle", tool |-> "", subagents |-> 0]
  BY DEF Init
<1>2. InFlight = {}
  BY <1>1 DEF InFlight
<1>3. Started # NoRecord
  BY StartedTyped, RecordPresent, EmptyTyped, FieldNames DEF IsRecord, NoRecord
<1>4. /\ Existing(file).report_seq \in {0, 1} /\ Existing(file).preview = 0 /\ Existing(file).pinned_state = ""
      /\ file = NoRecord \/ IsRecord(file)
  <2>1. CASE file = NoRecord
    BY <2>1 DEF Existing, Empty, NoSeq
  <2>2. CASE file = Started
    BY <1>3, <2>2, StartedTyped DEF Existing
  <2> QED
    BY <1>1, <2>1, <2>2
<1>5. \/ session = [phase |-> "new", tool |-> "", subagents |-> 0]
      \/ session = [phase |-> "idle", tool |-> "", subagents |-> 0]
  BY <1>1
<1>6. session.phase \in {"new", "idle"} /\ session.tool = "" /\ session.subagents = 0
  <2>1. CASE session = [phase |-> "new", tool |-> "", subagents |-> 0]
    BY ONLY <2>1
  <2>2. CASE session = [phase |-> "idle", tool |-> "", subagents |-> 0]
    BY ONLY <2>2
  <2> QED
    BY ONLY <1>5, <2>1, <2>2
<1>7. TypeOK
  <2>1. 0 \in 0..MaxEvents /\ 0 \in 0..MaxSubagents /\ 0 \in 0..0
    BY BoundAssumption
  <2>2. session \in [phase : {"new", "idle", "thinking", "tool", "asking"},
                    tool : Tools \cup {""}, subagents : 0..MaxSubagents]
    <3>1. CASE session = [phase |-> "new", tool |-> "", subagents |-> 0]
      BY ONLY <2>1, <3>1
    <3>2. CASE session = [phase |-> "idle", tool |-> "", subagents |-> 0]
      BY ONLY <2>1, <3>2
    <3> QED
      BY ONLY <1>5, <3>1, <3>2
  <2>3. \A s \in Slots : hooks[s].pc \in {"free", "start", "entered", "write"}
    BY <1>1 DEF Free
  <2>4. events \in 0..MaxEvents /\ stateBy \in 0..events /\ clock \in Nat
    BY <1>1, <2>1
  <2> QED
    BY <1>1, <1>4, <2>2, <2>3, <2>4 DEF TypeOK
<1>8. HooksFit
  <2>1. Existing(file).report_seq <= clock /\ Existing(file).preview <= events
    <3>1. clock = 1 /\ events = 0
      BY <1>1
    <3>2. Existing(file).report_seq \in {0, 1} /\ Existing(file).preview = 0
      BY <1>4
    <3>3. \A x \in {0, 1} : x <= 1
      OBVIOUS
    <3> QED
      BY ONLY <3>1, <3>2, <3>3
  <2> QED
    BY <1>1, <1>2, <2>1 DEF HooksFit
<1>9. StartsAlone
  BY <1>1, <1>2, <1>6 DEF StartsAlone
<1>10. OneEach /\ TakersBehind
  BY <1>2 DEF OneEach, TakersBehind
<1>11. PlainFits
  <2>1. session.tool \notin Delegating
    BY <1>6 DEF Delegating
  <2> QED
    BY <1>2, <1>4, <1>6, <2>1 DEF PlainFits
<1>12. TurnEnds /\ OnlyCommands /\ CommandShows
  BY <1>1, <1>2, <1>6 DEF TurnEnds, OnlyCommands, CommandShows, Commanding
<1> QED
  BY <1>7, <1>8, <1>9, <1>10, <1>11, <1>12 DEF HooksInv

LEMMA StutterKeeps == ASSUME HooksInv, UNCHANGED vars PROVE HooksInv'
<1>1. /\ file' = file /\ clock' = clock /\ session' = session /\ hooks' = hooks /\ events' = events
      /\ stateBy' = stateBy /\ seen' = seen
  BY DEF vars
<1>2. InFlight' = InFlight /\ Existing(file)' = Existing(file)
  BY <1>1 DEF InFlight, Existing
<1>3. TypeOK' /\ HooksFit'
  BY <1>1, <1>2 DEF HooksInv, TypeOK, HooksFit, HookFits
<1>4. StartsAlone' /\ OneEach'
  BY <1>1, <1>2 DEF HooksInv, StartsAlone, OneEach
<1>5. TakersBehind'
  BY <1>1, <1>2 DEF HooksInv, TakersBehind, Limit
<1>6. PlainFits' /\ OnlyCommands'
  BY <1>1, <1>2 DEF HooksInv, PlainFits, Plain, OnlyCommands, Commanding
<1>7. TurnEnds'
  BY <1>1, <1>2 DEF HooksInv, TurnEnds, Plain, Stopped, StopPending, Limit
<1>8. CommandShows'
  BY <1>1, <1>2 DEF HooksInv, CommandShows, Plain, Commanding, CommandPending, Limit
<1> QED
  BY <1>3, <1>4, <1>5, <1>6, <1>7, <1>8 DEF HooksInv

LEMMA HooksInvariant == Spec => []HooksInv
<1>1. HooksInv /\ [Next]_vars => HooksInv'
  BY SessionKeeps, EnterKeeps, ReadKeeps, ReadyUnreadKeeps, WriteKeeps, StutterKeeps DEF Next, HookStep
<1> QED
  BY InitHooks, <1>1, PTL DEF Spec

(* The record stays a record and every process and counter in its range,    *)
(* whatever the hooks of a session do in whatever order.                    *)
THEOREM HooksTypeCorrect == Spec => []TypeOK
<1>1. HooksInv => TypeOK
  BY DEF HooksInv
<1> QED
  BY HooksInvariant, <1>1, PTL

(* When the last hook has finished, a finished turn shows as stopped and a  *)
(* running command as running: the stamps taken at the entry of the hooks   *)
(* (agent-state-fast.js, agent-state-reporter.js) put the writes into the   *)
(* order of the events as far as this needs it.                             *)
THEOREM RestingIsRight == Spec => []RestingStateIsRight
<1>1. HooksInv => RestingStateIsRight
  <2> SUFFICES ASSUME HooksInv, Quiet, Plain
               PROVE  /\ session.phase = "idle" /\ "Stop" \in seen => file.state \in StopStates
                      /\ Commanding => file.state \in {"running", "permission"}
    BY DEF RestingStateIsRight, Plain, Commanding
  <2>1. Empty.state = ""
    BY DEF Empty
  <2>2. Existing(file).state \in StopStates \cup Working => file.state = Existing(file).state
    BY <2>1 DEF Existing, StopStates, Working
  <2>3. session.phase = "idle" /\ "Stop" \in seen => Existing(file).state \in StopStates
    BY DEF HooksInv, TurnEnds, Quiet, Stopped
  <2>4. Commanding => Existing(file).state \in Working
    BY DEF HooksInv, CommandShows, Quiet
  <2> QED
    BY <2>2, <2>3, <2>4 DEF Working
<1> QED
  BY HooksInvariant, <1>1, PTL

(* Only a later event of the main agent takes it out of a stop state, and   *)
(* never a finished tool or subagent: the guards of the writes              *)
(* (agent-state-fast.js:335-337, agent-state-reporter.js:304-309) and the   *)
(* stamps together see to it.                                               *)
THEOREM StopStands == Spec => StopStateStands
<1> DEFINE Stands ==
       \A s \in InFlight :
          (/\ Runs(s)
           /\ hooks[s].script \in {"fast", "reporter"}
           /\ hooks[s].name # "SubagentStart"
           /\ Existing(file).state \in StopStates
           /\ Existing(file').state \notin StopStates)
              => /\ hooks[s].n > stateBy
                 /\ hooks[s].name \notin {"SubagentStop", "PostToolUse"}
<1>1. HooksInv /\ [Next]_vars => Stands
  <2> SUFFICES ASSUME HooksInv, [Next]_vars, NEW s \in InFlight, Runs(s), hooks[s].script \in {"fast", "reporter"},
                      hooks[s].name # "SubagentStart", Existing(file).state \in StopStates,
                      Existing(file').state \notin StopStates
               PROVE  hooks[s].n > stateBy /\ hooks[s].name \notin {"SubagentStop", "PostToolUse"}
    OBVIOUS
  <2> PICK h, e, m : h = hooks[s] /\ e = Existing(file) /\ m = Existing(file)'
    OBVIOUS
  <2>1. file' # file
    BY DEF Existing
  <2>2. PICK v \in Slots : Write(v)
    <3>1. ~SessionStep
      BY <2>1, SessionActsFact, Emits DEF Emission
    <3>2. \A v \in Slots : ~Enter(v) /\ ~Read(v) /\ ~ReadyUnread(v)
      BY <2>1 DEF Enter, Read, ReadyUnread
    <3> QED
      BY <2>1, <3>1, <3>2 DEF Next, HookStep, vars
  <2>3. v = s
    BY <2>2, HookTyped DEF Write, Runs, HooksInv, HooksFit
  <2>4. Wrote(s, h, e, m)
    BY <2>2, <2>3, WroteFact
  <2>5. m.state # e.state /\ e.state \in StopStates /\ m.state \notin StopStates
    BY DEF Existing
  <2>6. Decides(h, e, m)
    BY <2>4, <2>5 DEF Wrote, Writes
  <2>7. /\ WriteFits(h) /\ OfEvent(h) /\ h.n \in Nat /\ h.n >= 1 /\ h.seq \in Nat /\ h.pc = "write"
        /\ e.report_seq \in Nat /\ e.report_seq <= h.seq
        /\ Names(h, "state") /\ h.write.update.state \notin StopStates /\ h.write.guard # StopStates
    BY <2>4, <2>5, <2>6 DEF Wrote, Decides
  <2>8. h.name \notin {"SubagentStop", "PostToolUse"}
    BY <2>7 DEF WriteFits, OfEvent
  <2>9. h.n > stateBy
    <3>1. stateBy \in Nat /\ h.n # stateBy
      BY RecordTyped DEF HooksInv, OneEach
    <3>2. CASE h.name = "SessionStart"
      <4>1. stateBy = 0
        BY <3>2 DEF HooksInv, StartsAlone
      <4> QED
        BY <2>7, <4>1
    <3>3. CASE h.name # "SessionStart"
      <4>1. h.name # "Stop"
        BY <2>7 DEF WriteFits
      <4>2. h.script = "fast" /\ h.name \in {"PreToolUse", "PermissionRequest"}
        BY <2>7, <2>8, <3>3, <4>1 DEF OfEvent
      <4>3. h.tool \notin Stopping
        BY <2>7, <4>2 DEF WriteFits
      <4>4. Taker(h)
        BY <4>2, <4>3 DEF Taker, Stopping
      <4>5. h.n < stateBy => Behind(h, e.report_seq)
        BY <4>4 DEF HooksInv, TakersBehind
      <4>6. ~(h.n < stateBy)
        BY <2>7, <4>5 DEF Behind
      <4> QED
        BY <2>7, <3>1, <4>6
    <3> QED
      BY <3>2, <3>3
  <2> QED
    BY <2>8, <2>9
<1> QED
  BY HooksInvariant, <1>1, PTL DEF Spec, StopStateStands
=============================================================================
