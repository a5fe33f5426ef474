--------------------------- MODULE CodexSessions ---------------------------
(***************************************************************************)
(* Codex writes a session to rollout files: a first line that names the    *)
(* session and its parent, lines of the conversation, a last one when the  *)
(* task is complete; a resumed session goes on in a new file, and a        *)
(* subagent is a session with a parent.  The dashboard finds files, parents*)
(* and completion through caches (internal/codex/conversation): some are   *)
(* valid for a while, some as long as the file's mtime.  Three jobs share  *)
(* them: the list of agents (TopLevelAgents), the subagents of an agent    *)
(* (loadAllSubagents) and the view of the selected row (loadConversation,  *)
(* loadSubagentActivity).                                                  *)
(*                                                                         *)
(* A rollout is known by the rank of its path, which is that of its age.   *)
(* One job of a kind runs at a time, and half-written lines are left to    *)
(* Transcripts.                                                            *)
(***************************************************************************)
EXTENDS Integers, SequencesExt

CONSTANTS
    None,
    Sessions,
    ParentOf,   \* session -> its parent, or None
    Layouts,    \* which session each rollout belongs to: sequences of sessions
    MaxLines,   \* bound on the lines of a rollout
    Limit       \* entries of the conversation that are kept (50 in the code)

VARIABLES
    owner,      \* the layout: rollout -> session
    rollout,    \* its lines, its mtime, and whether the last line left that as it was; or None
    index,      \* the cached subagents, and whether they are fresh
    sessions,   \* session -> cached file and parent
    metas,      \* rollout -> cached first line, by mtime
    details,    \* rollout -> cached completion, by mtime
    job,        \* the job of each kind
    listed,     \* the sessions in the list
    subagents,  \* the subagents as they are shown, one for each rollout
    selected,   \* the session of the row that is selected, or None
    conv        \* the conversation as it is shown, its offset and its key

files == <<owner, rollout>>
caches == <<index, sessions, metas, details>>
shown == <<listed, subagents, selected, conv>>
vars == <<files, caches, job, shown>>

Rollouts == DOMAIN owner

Jobs == {"list", "index", "view"}

Idle == [at |-> "idle", s |-> None, path |-> None, mtime |-> 0, parent |-> None,
         todo |-> {}, kept |-> {}, key |-> None, prev |-> <<>>, from |-> 0]

Init ==
    /\ owner \in Layouts
    /\ rollout = [p \in Rollouts |-> None]
    /\ index = None /\ sessions = [s \in Sessions |-> None]
    /\ metas = [p \in Rollouts |-> None] /\ details = [p \in Rollouts |-> None]
    /\ job = [k \in Jobs |-> Idle]
    /\ listed = {} /\ subagents = {}
    /\ selected \in Sessions \cup {None}
    /\ conv = [entries |-> <<>>, offset |-> 0, key |-> None]

-----------------------------------------------------------------------------
(* Codex writes.                                                           *)

Exists(p) == rollout[p] # None

RolloutsOf(s) == {p \in Rollouts : owner[p] = s /\ Exists(p)}

Max0(S) == IF S = {} THEN None ELSE CHOOSE p \in S : \A q \in S : q <= p

Newest(s) == Max0(RolloutsOf(s))

CreateRollout(p) ==
    /\ ~Exists(p) /\ \A q \in 1..(p - 1) : owner[q] = owner[p] => Exists(q)
    /\ rollout' = [rollout EXCEPT ![p] = [lines |-> <<>>, mtime |-> 0, still |-> FALSE]]
    /\ UNCHANGED <<owner, caches, job, shown>>

(* Two lines may come so close that the clock of the file system gives     *)
(* them one mtime; varied for subagents only, as what is known by mtime    *)
(* tells nothing of others.  Nor is the conversation of a subagent followed,*)
(* or the completion of other sessions.                                    *)
AppendLine(p) ==
    /\ p = Newest(owner[p])
    /\ Len(rollout[p].lines) < MaxLines
    /\ \E kind \in {"meta", "text", "done"}, moved \in BOOLEAN :
          /\ moved \/ ParentOf[owner[p]] # None
          /\ (kind = "meta") = (rollout[p].lines = <<>>)
          /\ kind = "text" => ParentOf[owner[p]] = None
          /\ kind = "done" => ParentOf[owner[p]] # None
          /\ rollout' = [rollout EXCEPT ![p] =
                [lines |-> Append(@.lines, kind), mtime |-> IF moved THEN @.mtime + 1 ELSE @.mtime,
                 still |-> ~moved]]
    /\ UNCHANGED <<owner, caches, job, shown>>

Has(p, kind) == kind \in ToSet(rollout[p].lines)

-----------------------------------------------------------------------------
(* The caches.                                                             *)

(* Mistake: an entry has no end. *)
getSessionForever(s) == sessions[s] # None

getSession(s) == sessions[s] # None /\ sessions[s].fresh

getIndex == index # None /\ index.fresh

getMetaForPath(p) == metas[p] # None /\ metas[p].mtime = rollout[p].mtime

(* Mistake: an entry is good whatever the file has become. *)
getDetailsByPath(p) == details[p] # None

getDetailsForPath(p) == details[p] # None /\ details[p].mtime = rollout[p].mtime

(* Fifteen seconds have passed. *)
ExpireIndex ==
    /\ getIndex
    /\ index' = [index EXCEPT !.fresh = FALSE]
    /\ UNCHANGED <<files, sessions, metas, details, job, shown>>

ExpireSession(s) ==
    /\ getSession(s)
    /\ sessions' = [sessions EXCEPT ![s].fresh = FALSE]
    /\ UNCHANGED <<files, index, metas, details, job, shown>>

-----------------------------------------------------------------------------
(* resolveSessionEntry, for the list with the first line and for the view  *)
(* without.  Originator asks again for what ParentThreadID has just found, *)
(* and is not followed.                                                    *)

Set(k, r) == job' = [job EXCEPT ![k] = r @@ @]

WantsMeta(k) == k = "list"

(* What each job does with the file and the parent it has found.           *)
(*                                                                         *)
(* TopLevelAgents: a session with a parent is left to that.                *)
TopLevel(j, parent) ==
    LET next == [Idle EXCEPT !.kept = IF parent = None THEN j.kept \cup {j.s} ELSE j.kept]
    IN  IF j.todo = {} THEN [next EXCEPT !.at = "answer"]
        ELSE LET s == CHOOSE t \in j.todo : TRUE
             IN  [next EXCEPT !.at = "lookup", !.s = s, !.todo = j.todo \ {s}]

(* The conversation is read on only if it is of the file that was found;   *)
(* the command then finds the file again.  The activity of a subagent is   *)
(* read anew each time, and is not followed.                               *)
ReadOn(j, path) ==
    IF ParentOf[j.s] # None THEN Idle
    ELSE [Idle EXCEPT !.at = "again", !.s = j.s, !.key = path,
                      !.prev = IF conv.key = path THEN conv.entries ELSE <<>>,
                      !.from = IF conv.key = path THEN conv.offset ELSE 0]

Found(k, path, parent) ==
    LET j == job[k]
    IN  job' = [job EXCEPT ![k] =
            IF k = "list" THEN TopLevel(j, parent)
            ELSE IF j.at \in {"lookup", "put"} THEN ReadOn(j, path)
            ELSE [j EXCEPT !.at = "open", !.path = path]]

(* A file that is known is read for its first line; else the directories   *)
(* are walked.                                                             *)
Lookup(k) ==
    /\ job[k].at \in {"lookup", "again"}
    /\ LET s == job[k].s
           e == sessions[s]
       IN  IF getSession(s) /\ (WantsMeta(k) => e.metaRead) THEN Found(k, e.path, e.parent)
           ELSE LET path == IF getSession(s) /\ e.path # None THEN e.path ELSE Newest(s)
                IN  Set(k, [at |-> IF WantsMeta(k) /\ path # None THEN "stat"
                                   ELSE IF job[k].at = "again" THEN "put again" ELSE "put",
                            path |-> path])
    /\ UNCHANGED <<files, caches, shown>>

PutSession(k) ==
    /\ job[k].at \in {"put", "put again"}
    /\ LET j == job[k]
       IN  /\ sessions' = [sessions EXCEPT ![j.s] =
                  [fresh |-> TRUE, path |-> j.path, parent |-> j.parent,
                   metaRead |-> WantsMeta(k) /\ j.path # None]]
           /\ Found(k, j.path, j.parent)
    /\ UNCHANGED <<files, index, metas, details, shown>>

Parent(p, named) == IF named THEN ParentOf[owner[p]] ELSE None

(* readSubagentSessionMeta: the mtime is taken before the file is read.    *)
(* Read or not, the line of a session without a parent names none, and it  *)
(* is not followed.                                                        *)
StatMeta(k) ==
    /\ job[k].at = "stat"
    /\ LET p == job[k].path
           after == IF k = "list" THEN "put" ELSE "visit"
       IN  IF ParentOf[owner[p]] = None THEN Set(k, [at |-> after, parent |-> None])
           ELSE IF getMetaForPath(p) THEN Set(k, [at |-> after, parent |-> Parent(p, metas[p].named)])
           ELSE Set(k, [at |-> "scan", mtime |-> rollout[p].mtime, parent |-> None])
    /\ UNCHANGED <<files, caches, shown>>

ScanMeta(k) ==
    /\ job[k].at = "scan"
    /\ LET p == job[k].path
       IN  /\ metas' = [metas EXCEPT ![p] = [mtime |-> job[k].mtime, named |-> Has(p, "meta")]]
           /\ Set(k, [at |-> IF k = "list" THEN "put" ELSE "visit", mtime |-> 0,
                      parent |-> Parent(p, Has(p, "meta"))])
    /\ UNCHANGED <<files, index, sessions, details, shown>>

-----------------------------------------------------------------------------
(* The list.                                                               *)

(* An agent is listed from its hooks' record, which may precede its file. *)
Present == ToSet(owner)

loadState ==
    /\ job["list"].at = "idle" /\ Present # {}
    /\ LET s == CHOOSE t \in Present : TRUE
       IN  job' = [job EXCEPT !["list"] = [Idle EXCEPT !.at = "lookup", !.s = s, !.todo = Present \ {s}]]
    /\ UNCHANGED <<files, caches, shown>>

(* The conversation is read in full after a new list.                      *)
StateUpdated ==
    /\ job["list"].at = "answer" /\ job["view"].at = "idle"
    /\ listed' = job["list"].kept
    /\ conv' = [conv EXCEPT !.offset = 0]
    /\ job' = [job EXCEPT !["list"] = Idle,
                          !["view"] = IF selected = None THEN Idle ELSE [Idle EXCEPT !.at = "lookup", !.s = selected]]
    /\ UNCHANGED <<files, caches, subagents, selected>>

-----------------------------------------------------------------------------
(* The subagents: an index of all rollouts, rebuilt by one walk.           *)

NextRollout(p) == p + 1

(* Not followed where no rollout is a subagent's.  FindSubagents gives the  *)
(* entries of one parent that is listed; here the index is shown whole.     *)
loadAllSubagents ==
    /\ job["index"].at = "idle"
    /\ \E p \in Rollouts : ParentOf[owner[p]] # None
    /\ IF getIndex
       THEN subagents' = index.subs /\ UNCHANGED job
       ELSE Set("index", [at |-> "walk", path |-> 1, kept |-> {}]) /\ UNCHANGED subagents
    /\ UNCHANGED <<files, caches, listed, selected, conv>>

Walk ==
    /\ job["index"].at = "walk"
    /\ job["index"].path \in Rollouts
    /\ LET p == job["index"].path
       IN  Set("index", IF Exists(p) THEN [at |-> "stat"] ELSE [path |-> NextRollout(p)])
    /\ UNCHANGED <<files, caches, shown>>

(* readSubagentRolloutDetails, for the rollouts of subagents. *)
Visit ==
    /\ job["index"].at = "visit"
    /\ LET j == job["index"]
           p == j.path
       IN  IF j.parent = None THEN Set("index", [at |-> "walk", parent |-> None, mtime |-> 0, path |-> NextRollout(p)])
           ELSE IF getDetailsForPath(p)
           THEN Set("index", [at |-> "walk", parent |-> None, mtime |-> 0, path |-> NextRollout(p),
                              kept |-> j.kept \cup {[path |-> p, completed |-> details[p].completed]}])
           ELSE Set("index", [at |-> "details", mtime |-> rollout[p].mtime])
    /\ UNCHANGED <<files, caches, shown>>

ScanDetails ==
    /\ job["index"].at = "details"
    /\ LET j == job["index"]
           p == j.path
       IN  /\ details' = [details EXCEPT ![p] = [mtime |-> j.mtime, completed |-> Has(p, "done")]]
           /\ Set("index", [at |-> "walk", parent |-> None, mtime |-> 0, path |-> NextRollout(p),
                            kept |-> j.kept \cup {[path |-> p, completed |-> Has(p, "done")]}])
    /\ UNCHANGED <<files, index, sessions, metas, shown>>

PutIndex ==
    /\ job["index"].at = "walk" /\ job["index"].path \notin Rollouts
    /\ index' = [fresh |-> TRUE, subs |-> job["index"].kept]
    /\ subagents' = job["index"].kept
    /\ job' = [job EXCEPT !["index"] = Idle]
    /\ UNCHANGED <<files, sessions, metas, details, listed, selected, conv>>

-----------------------------------------------------------------------------
(* The view.                                                               *)

loadConversation ==
    /\ job["view"].at = "idle" /\ selected # None
    /\ job' = [job EXCEPT !["view"] = [Idle EXCEPT !.at = "lookup", !.s = selected]]
    /\ UNCHANGED <<files, caches, shown>>

Entries(p, from) ==
    SelectSeq([i \in 1..(Len(rollout[p].lines) - from) |-> <<p, i + from>>],
              LAMBDA e : rollout[p].lines[e[2]] = "text")

Capped(all) == IF Len(all) > Limit THEN SubSeq(all, Len(all) - Limit + 1, Len(all)) ELSE all

(* ReadIncremental: the size is noted, then the file is read to the end.   *)
Open ==
    /\ job["view"].at = "open" /\ job["view"].path # None
    /\ LET size == Len(rollout[job["view"].path].lines)
       IN  Set("view", [at |-> "read", mtime |-> size] @@
                       IF job["view"].from > size THEN [from |-> 0, prev |-> <<>>] ELSE [at |-> "read"])
    /\ UNCHANGED <<files, caches, shown>>

Show(entries, offset) ==
    /\ conv' = [entries |-> entries, offset |-> offset, key |-> job["view"].key]
    /\ job' = [job EXCEPT !["view"] = Idle]

ReadIncremental ==
    /\ \/ job["view"].at = "open" /\ job["view"].path = None /\ Show(<<>>, 0)
       \/ /\ job["view"].at = "read"
          /\ LET j == job["view"]
             IN  Show(IF j.from > 0 /\ j.from = j.mtime THEN j.prev
                      ELSE Capped((IF j.from > 0 THEN j.prev ELSE <<>>) \o Entries(j.path, j.from)), j.mtime)
    /\ UNCHANGED <<files, caches, listed, subagents, selected>>

-----------------------------------------------------------------------------
ListStep == loadState \/ Lookup("list") \/ StatMeta("list") \/ ScanMeta("list") \/ PutSession("list")

IndexStep == loadAllSubagents \/ Walk \/ StatMeta("index") \/ ScanMeta("index") \/ Visit \/ ScanDetails \/ PutIndex

ViewStep == loadConversation \/ Lookup("view") \/ PutSession("view") \/ Open \/ ReadIncremental

Next ==
    \/ \E p \in Rollouts : CreateRollout(p) \/ AppendLine(p)
    \/ ExpireIndex \/ \E s \in Sessions : ExpireSession(s)
    \/ ListStep \/ StateUpdated \/ IndexStep \/ ViewStep

(* Commands end and are asked for again and again by the clock; a list     *)
(* does not always arrive while a conversation is being read; time passes. *)
Fairness ==
    /\ WF_vars(ListStep) /\ WF_vars(IndexStep) /\ WF_vars(ViewStep)
    /\ SF_vars(StateUpdated)
    /\ WF_vars(ExpireIndex) /\ \A s \in Sessions : WF_vars(ExpireSession(s))

Spec == Init /\ [][Next]_vars /\ Fairness

-----------------------------------------------------------------------------
Named(p) == Exists(p) /\ Has(p, "meta")

(* A subagent leaves the list of agents and is found in the index, as      *)
(* completed once it is, and everything else stays in the list, although   *)
(* each of that may have been looked up and cached before the line was     *)
(* written that tells; unless that line left the mtime of its file as it   *)
(* was.                                                                    *)
SubagentsAreShown ==
    <>[](/\ \A p \in Rollouts :
              ParentOf[owner[p]] # None /\ Named(p) /\ ~rollout[p].still =>
                  /\ owner[p] \notin listed
                  /\ [path |-> p, completed |-> Has(p, "done")] \in subagents
         /\ \A s \in Present : ParentOf[s] = None => s \in listed)

(* The conversation of a session that is resumed comes to be that of its   *)
(* newest rollout, all of it and nothing twice, although the file is found *)
(* twice by each read and the cache may expire or be filled in between.    *)
ConversationFollowsResume ==
    <>[](selected # None /\ ParentOf[selected] = None /\ Newest(selected) # None =>
             conv.entries = Capped(Entries(Newest(selected), 0)))
=============================================================================
