------------------------------ MODULE WebFeed ------------------------------
(***************************************************************************)
(* What the web server pushes to its pages (internal/web): the watcher of  *)
(* the agents directory with its debounce timer, the reads of the agent    *)
(* state that coalesce in one flight, the hub with its bounded channels,   *)
(* the SSE handlers, and the watch for a folder-trust prompt in a pane     *)
(* that was just created.                                                  *)
(*                                                                         *)
(* One pane is followed; of the others only the number of writes shows.    *)
(* Whoever asks for the agent state is a caller: a fired timer, the trust  *)
(* watch, an SSE handler that begins, another REST handler.                *)
(***************************************************************************)
EXTENDS Integers, Sequences

CONSTANTS
    None,
    Clients,    \* pages that listen
    MaxFires,   \* bound on the callbacks of the debounce timer under way
    Watch,      \* the goroutine that watches for the prompt
    Rest,       \* a REST handler that reads the agent state
    Capacity,   \* of a client's channel (16 in the code)
    MaxWrites,  \* bound on the writes of other agents
    MaxConnects \* bound on the connections of the pages, and on REST reads

ASSUME FeedAssumption ==
    /\ Capacity \in Nat \ {0} /\ MaxWrites \in Nat /\ MaxConnects \in Nat /\ MaxFires \in Nat
    /\ Watch # Rest /\ {Watch, Rest} \cap Clients = {}

(* Callbacks take their slots from the first. *)
Fires == 1..MaxFires

Broadcasters == Fires \cup {Watch}

Callers == Broadcasters \cup Clients \cup {Rest}

VARIABLES
    disk,       \* the agents directory: writes of others, and the record of the pane
    event,      \* fsnotify holds an event the watcher has not taken
    timer,      \* the debounce timer is armed
    pane,       \* the created pane; "prompt" while the harness asks for trust
    watch,      \* the trust watch: off, polling, seen, marked
    marked,     \* the pane is in trustPanes
    closing,    \* handleClose has killed the pane and not yet removed the record
    flight,     \* the singleflight call under way
    call,       \* caller -> no, calling, waiting, got
    got,        \* caller -> the state it got
    clients,    \* client -> its channel, None when it is not registered
    shown,      \* client -> the last message of its connection, None before the first
    connects,   \* connections and REST reads so far
    raced,      \* history: a broadcaster asked while an older answer was on its way
    lost        \* client -> history: a broadcast found its channel full

worldVars == <<disk, event, pane>>
trustVars == <<watch, marked, closing>>
pageVars == <<clients, shown, connects, lost>>
vars == <<disk, event, timer, pane, watch, marked, closing, flight, call, got, clients, shown, connects, raced, lost>>

Init ==
    /\ disk = [writes |-> 0, agent |-> FALSE] /\ event = FALSE /\ timer = FALSE
    /\ pane = "none" /\ watch = "off" /\ marked = FALSE /\ closing = FALSE
    /\ flight = None /\ call = [x \in Callers |-> "no"] /\ got = [x \in Callers |-> None]
    /\ clients = [c \in Clients |-> None] /\ shown = [c \in Clients |-> None]
    /\ connects = 0 /\ raced = FALSE /\ lost = [c \in Clients |-> FALSE]

-----------------------------------------------------------------------------
(* The agents, the panes, and a dashboard in a terminal beside the server.  *)

Write ==
    /\ disk.writes < MaxWrites
    /\ disk' = [disk EXCEPT !.writes = @ + 1] /\ event' = TRUE
    /\ UNCHANGED <<timer, pane, trustVars, flight, call, got, pageVars, raced>>

(* A harness in an untrusted folder asks before it fires its first hook. *)
Ask ==
    /\ pane = "starting" /\ pane' = "prompt"
    /\ UNCHANGED <<disk, event, timer, trustVars, flight, call, got, pageVars, raced>>

(* The session starts, with the user's consent where it was asked for. *)
Start ==
    /\ pane \in {"starting", "prompt"} /\ pane' = "open"
    /\ disk' = [disk EXCEPT !.agent = TRUE] /\ event' = TRUE
    /\ UNCHANGED <<timer, trustVars, flight, call, got, pageVars, raced>>

(* The harness ends, on a refused prompt too, and its pane with it. *)
Quit ==
    /\ pane \in {"starting", "prompt", "open"} /\ pane' = "gone"
    /\ UNCHANGED <<disk, event, timer, trustVars, flight, call, got, pageVars, raced>>

(* The terminal dashboard closes the agent. *)
CloseElsewhere ==
    /\ disk.agent
    /\ pane' = "gone" /\ disk' = [disk EXCEPT !.agent = FALSE] /\ event' = TRUE
    /\ UNCHANGED <<timer, trustVars, flight, call, got, pageVars, raced>>

-----------------------------------------------------------------------------
(* readAgentState.                                                          *)

(* A caller joins the call under way, however old what that has read is. *)
Do(x) ==
    /\ call' = [call EXCEPT ![x] = "waiting"]
    /\ flight' = IF flight = None THEN [stage |-> "begun", disk |-> None, trust |-> FALSE, joined |-> {x}]
                 ELSE [flight EXCEPT !.joined = @ \cup {x}]
    /\ raced' = \/ raced
                 \/ /\ x \in Broadcasters
                    /\ \/ flight # None /\ flight.stage # "begun"
                       \/ \E y \in Broadcasters : call[y] = "got"

(* ReadState comes first. *)
Read ==
    /\ flight # None /\ flight.stage = "begun"
    /\ flight' = [flight EXCEPT !.stage = "read", !.disk = disk]
    /\ UNCHANGED <<worldVars, timer, trustVars, call, got, pageVars, raced>>

(* The trust set is looked at last, when tmux and git have answered. *)
applyTrustFlags ==
    /\ flight # None /\ flight.stage = "read"
    /\ flight' = [flight EXCEPT !.stage = "flagged", !.trust = marked]
    /\ UNCHANGED <<worldVars, timer, trustVars, call, got, pageVars, raced>>

Return ==
    /\ flight # None /\ flight.stage = "flagged" /\ flight' = None
    /\ call' = [x \in Callers |-> IF x \notin flight.joined THEN call[x] ELSE IF x = Rest THEN "no" ELSE "got"]
    /\ got' = [x \in Callers |-> IF x \in flight.joined \ {Rest} THEN [disk |-> flight.disk, trust |-> flight.trust] ELSE got[x]]
    /\ UNCHANGED <<worldVars, timer, trustVars, pageVars, raced>>

handleAgents ==
    /\ call[Rest] = "no" /\ Do(Rest)
    /\ connects < MaxConnects /\ connects' = connects + 1
    /\ UNCHANGED <<worldVars, timer, trustVars, got, clients, shown, lost>>

-----------------------------------------------------------------------------
(* The watcher and the hub.                                                 *)

(* Mistake: while a callback runs its events are taken for its own. *)
StartWatcherOnce ==
    /\ event /\ event' = FALSE /\ timer' = (timer \/ \A f \in Fires : call[f] = "no")
    /\ UNCHANGED <<disk, pane, trustVars, flight, call, got, pageVars, raced>>

(* An event stops the timer and arms a new one; a timer that has fired is  *)
(* not stopped by that.                                                    *)
StartWatcher ==
    /\ event /\ event' = FALSE /\ timer' = TRUE
    /\ UNCHANGED <<disk, pane, trustVars, flight, call, got, pageVars, raced>>

AfterFunc(f) ==
    /\ timer /\ timer' = FALSE
    /\ call[f] = "no" /\ \A g \in 1..(f - 1) : call[g] # "no"
    /\ Do(f)
    /\ UNCHANGED <<worldVars, trustVars, got, pageVars>>

(* A client whose channel is full is skipped. *)
Offer(channel, state) == IF Len(channel) < Capacity THEN Append(channel, state) ELSE channel

Registered == {c \in Clients : clients[c] # None}

broadcast(x) ==
    /\ call[x] = "got"
    /\ call' = [call EXCEPT ![x] = "no"] /\ got' = [got EXCEPT ![x] = None]
    /\ clients' = [c \in Clients |-> IF c \in Registered THEN Offer(clients[c], got[x]) ELSE None]
    /\ lost' = [c \in Clients |-> lost[c] \/ (c \in Registered /\ Len(clients[c]) = Capacity)]
    /\ UNCHANGED <<worldVars, timer, trustVars, flight, shown, connects, raced>>

-----------------------------------------------------------------------------
(* handleSSE.                                                               *)

(* It registers before it asks for the first state. *)
register(c) ==
    /\ clients[c] = None /\ call[c] = "no"
    /\ connects < MaxConnects /\ connects' = connects + 1
    /\ clients' = [clients EXCEPT ![c] = <<>>]
    /\ call' = [call EXCEPT ![c] = "calling"]
    /\ UNCHANGED <<worldVars, timer, trustVars, flight, got, shown, lost, raced>>

AskInitial(c) ==
    /\ call[c] = "calling" /\ Do(c)
    /\ UNCHANGED <<worldVars, timer, trustVars, got, pageVars>>

SendInitial(c) ==
    /\ call[c] = "got"
    /\ shown' = [shown EXCEPT ![c] = got[c]]
    /\ call' = [call EXCEPT ![c] = "no"] /\ got' = [got EXCEPT ![c] = None]
    /\ UNCHANGED <<worldVars, timer, trustVars, flight, clients, connects, lost, raced>>

Streaming(c) == clients[c] # None /\ call[c] = "no"

Send(c) ==
    /\ Streaming(c) /\ clients[c] # <<>>
    /\ shown' = [shown EXCEPT ![c] = Head(clients[c])]
    /\ clients' = [clients EXCEPT ![c] = Tail(@)]
    /\ UNCHANGED <<worldVars, timer, trustVars, flight, call, got, connects, lost, raced>>

(* The page goes, or its connection does; an EventSource comes back. *)
unregister(c) ==
    /\ Streaming(c)
    /\ clients' = [clients EXCEPT ![c] = None] /\ shown' = [shown EXCEPT ![c] = None]
    /\ lost' = [lost EXCEPT ![c] = FALSE]
    /\ UNCHANGED <<worldVars, timer, trustVars, flight, call, got, connects, raced>>

-----------------------------------------------------------------------------
(* The trust prompt, and closing the agent.                                 *)

handleCreate ==
    /\ pane = "none" /\ pane' = "starting" /\ watch' = "polling"
    /\ UNCHANGED <<disk, event, timer, marked, closing, flight, call, got, pageVars, raced>>

(* A capture: an error ends the watch, a prompt is acted on. *)
watchTrustPrompt ==
    /\ watch = "polling"
    /\ \/ pane = "gone" /\ watch' = "off"
       \/ pane = "prompt" /\ watch' = "seen"
    /\ UNCHANGED <<worldVars, timer, marked, closing, flight, call, got, pageVars, raced>>

(* The budget of the watch is over. *)
WatchExpires ==
    /\ watch = "polling" /\ watch' = "off"
    /\ UNCHANGED <<worldVars, timer, marked, closing, flight, call, got, pageVars, raced>>


(* The pane is marked, whatever became of it, ... *)
markTrustPane ==
    /\ watch = "seen" /\ watch' = "marked" /\ marked' = TRUE
    /\ UNCHANGED <<worldVars, timer, closing, flight, call, got, pageVars, raced>>

(* ... and then the state is read, to be pushed. *)
PushTrust ==
    /\ watch = "marked" /\ watch' = "off"
    /\ Do(Watch)
    /\ UNCHANGED <<worldVars, timer, marked, closing, got, pageVars>>

(* Only an agent with a record is found, so a placeholder cannot be closed. *)
handleClose ==
    /\ closing = FALSE /\ disk.agent
    /\ pane' = "gone" /\ marked' = FALSE /\ closing' = TRUE
    /\ UNCHANGED <<disk, event, timer, watch, flight, call, got, pageVars, raced>>

(* Nothing is written, and no event comes, when the record is gone. *)
RemoveAgent ==
    /\ closing /\ closing' = FALSE
    /\ disk' = [disk EXCEPT !.agent = FALSE] /\ event' = (event \/ disk.agent)
    /\ UNCHANGED <<timer, pane, watch, marked, flight, call, got, pageVars, raced>>

-----------------------------------------------------------------------------
Environment == Write \/ Ask \/ Start \/ Quit \/ CloseElsewhere

Flight == Read \/ applyTrustFlags \/ Return

Trust == watchTrustPrompt \/ markTrustPane \/ PushTrust

Begin ==
    \/ Environment \/ handleAgents \/ handleCreate \/ handleClose
    \/ \E c \in Clients : register(c) \/ unregister(c)

(* Bounded: a run is followed until a broadcaster races, for good: from     *)
(* then on no property judges it.                                          *)
Followed == ~raced

Next ==
    /\ Followed
    /\ \/ Begin \/ Flight \/ Trust \/ RemoveAgent \/ WatchExpires
       \/ StartWatcher \/ \E f \in Fires : AfterFunc(f)
       \/ \E x \in Broadcasters : broadcast(x)
       \/ \E c \in Clients : AskInitial(c) \/ SendInitial(c) \/ Send(c)

(* Goroutines, handlers and timers go on; the user, the agents and the      *)
(* connections need not.                                                    *)
Fairness ==
    /\ WF_vars(Followed /\ Flight) /\ WF_vars(Followed /\ Trust)
    /\ WF_vars(Followed /\ RemoveAgent) /\ WF_vars(Followed /\ StartWatcher)
    /\ WF_vars(Followed /\ \E f \in Fires : AfterFunc(f))
    /\ \A x \in Broadcasters : WF_vars(Followed /\ broadcast(x))
    /\ \A c \in Clients : /\ WF_vars(Followed /\ AskInitial(c))
                          /\ WF_vars(Followed /\ SendInitial(c))
                          /\ WF_vars(Followed /\ Send(c))

Spec == Init /\ [][Next]_vars /\ Fairness

-----------------------------------------------------------------------------
Undisturbed(c) == Streaming(c) /\ ~raced /\ ~lost[c]

(* Once a page stays connected it comes to show the agents directory as it *)
(* is, and no message takes that back, unless a broadcaster joined a read   *)
(* older than its own cause or overtook one, or the page was skipped for   *)
(* its full channel (handleSSE, StartWatcher, sseHub.broadcast).           *)
FeedCatchesUp ==
    \A c \in Clients : <>[]Undisturbed(c) => <>[](shown[c] # None /\ shown[c].disk = disk)

=============================================================================
