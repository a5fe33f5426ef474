---------------------------- MODULE Transcripts ----------------------------
(***************************************************************************)
(* The transcript of a session, which the agent appends to while the       *)
(* dashboard reads it: the conversation of the terminal UI                 *)
(* (internal/conversation, ReadConversationIncremental) and the usage      *)
(* (internal/usage, ReadUsage and its cache), whose total is booked to the *)
(* day in the database (persistUsage, internal/db).  Both readers resume   *)
(* at an offset they took from the size of the file before they read it.   *)
(*                                                                         *)
(* A position in the file is twice the number of lines before it, and one  *)
(* more inside a line.                                                     *)
(***************************************************************************)
EXTENDS Integers, SequencesExt

CONSTANTS
    None,
    Kinds,      \* of lines: "text", "plan" (ExitPlanMode), "slug" (a plan exists)
    MaxLines,   \* bound on the lines of the transcript
    MaxLoads,   \* bound on the commands in flight
    MaxDay,     \* bound on midnights
    Limit       \* entries of the conversation that are kept (50 in the code)

ASSUME BoundAssumption ==
    /\ MaxLines \in Nat /\ MaxLoads \in Nat /\ MaxDay \in Nat /\ Limit \in Nat \ {0}
    /\ Kinds \subseteq {"text", "plan", "slug"}

VARIABLES
    reader,     \* which of the two is followed, or None; they share nothing but the file
    file,       \* the complete lines: kind, and number of the message they belong to
    half,       \* a further line is half written
    rewrites,   \* how often the file was replaced by a shorter one: its mtime
    torn,       \* history: a reader took its offset inside a line
    view,       \* the conversation as it is shown
    offset,     \* where the next read of it resumes
    loads,      \* its reads that are under way, by slot
    cache,      \* the usage cache's entry of the session
    scans,      \* reads of the usage under way, by slot
    today,
    rows,       \* day -> what is booked
    persists    \* bookings under way, by slot

fileVars == <<file, half, rewrites>>
viewVars == <<view, offset, loads>>
usageVars == <<cache, scans, today, rows, persists>>
vars == <<reader, file, half, rewrites, torn, view, offset, loads, cache, scans, today, rows, persists>>

Slots == 1..MaxLoads

Days == 0..MaxDay

Idle == [stage |-> "idle"]

(* Slots are taken from the first. *)
Free(slots, s) == slots[s] = Idle /\ \A r \in 1..(s - 1) : slots[r] # Idle

Init ==
    /\ reader \in {"view", "usage", None}
    /\ file = <<>> /\ half = FALSE /\ rewrites = 0 /\ torn = FALSE
    /\ view = <<>> /\ offset = 0 /\ loads = [s \in Slots |-> Idle]
    /\ cache = None /\ scans = [s \in Slots |-> Idle]
    /\ today = 0 /\ rows = [d \in Days |-> 0] /\ persists = [s \in Slots |-> Idle]

-----------------------------------------------------------------------------
(* The agent writes.                                                       *)

Size == 2 * Len(file) + (IF half THEN 1 ELSE 0)

LastMessage == IF file = <<>> THEN 0 ELSE Last(file).msg

(* A message is written as one line for each of its blocks.  What a reader *)
(* does not look at is not varied for it.                                   *)
Append1(kind, msg) ==
    /\ Len(file) < MaxLines
    /\ file' = Append(file, [kind |-> kind, msg |-> msg])
    /\ half' = FALSE
    /\ UNCHANGED <<reader, rewrites, torn, viewVars, usageVars>>

(* Bounded: once one has misled a reader there is no other. *)
AppendHalf ==
    /\ Len(file) < MaxLines /\ ~half /\ ~torn
    /\ half' = TRUE
    /\ UNCHANGED <<reader, file, rewrites, torn, viewVars, usageVars>>

(* Bounded to a file of one line, misleading nobody, that no command reads. *)
Rewrite ==
    /\ rewrites = 0 /\ Len(file) = 1 /\ ~torn /\ today = 0
    /\ \A s \in Slots : loads[s] = Idle /\ scans[s] = Idle /\ persists[s] = Idle
    /\ file' = <<>> /\ half' = FALSE /\ rewrites' = 1
    /\ UNCHANGED <<reader, torn, viewVars, usageVars>>

-----------------------------------------------------------------------------
(* The conversation.                                                       *)

Card(i) == <<"plan-saved", i>>

Entry(i) == <<file[i].kind, i>>

IsCard(e) == e[1] = "plan-saved"

(* What parses of the file from an offset on: a line that is cut at either *)
(* end does not.                                                           *)
LinesFrom(from) == ((from + 1) \div 2 + 1)..Len(file)

Entries(i) == IF file[i].kind = "plan" THEN <<Entry(i), Card(i)>> ELSE <<Entry(i)>>

(* Mistake: cards are cut off with the rest. *)
CutAll(all) == IF Len(all) > Limit THEN SubSeq(all, Len(all) - Limit + 1, Len(all)) ELSE all

(* What was appended line by line: seqs[1] to seqs[n], one after the other. *)
Joined(seqs, n) ==
    LET joined[k \in 0..n] == IF k = 0 THEN <<>> ELSE joined[k - 1] \o seqs[k]
    IN  joined[n]

Cards(all) == Joined([k \in 1..Len(all) |-> IF IsCard(all[k]) THEN <<all[k]>> ELSE <<>>], Len(all))

(* The last entries are kept, and the cards before them. *)
Capped(all) ==
    IF Len(all) > Limit
    THEN Cards(SubSeq(all, 1, Len(all) - Limit)) \o SubSeq(all, Len(all) - Limit + 1, Len(all))
    ELSE all

(* Each ExitPlanMode has a card.  Without one in what is read, and without *)
(* a card before, the first line that names a plan gets one.               *)
ReadConversationIncremental(prev, from) ==
    LET new   == LinesFrom(from)
        known == IF from > 0 THEN prev ELSE <<>>
        named == {i \in new : file[i].kind # "text"}
        slug  == IF named # {} /\ (\A i \in new : file[i].kind # "plan") /\ ~(\E e \in ToSet(known) : IsCard(e))
                 THEN CHOOSE i \in named : \A j \in named : i <= j ELSE 0
        n     == Cardinality(new)
        read  == Joined([k \in 1..n |->
                            LET i == Len(file) - n + k
                            IN  IF i = slug THEN <<Entry(i), Card(i)>> ELSE Entries(i)], n)
    IN  Capped(known \o read)

FullRead == ReadConversationIncremental(<<>>, 0)

(* A command notes the size, then reads to the end and answers; one whose  *)
(* offset is behind the end starts over, and one at the end does not read. *)
Load(from) ==
    [stage |-> "sized", prev |-> view, from |-> IF from > Size THEN 0 ELSE from, size |-> Size]

(* The clock, or a key, asks for the conversation of the selected agent. *)
loadConversation(s) ==
    /\ reader = "view"
    /\ Free(loads, s)
    /\ loads' = [loads EXCEPT ![s] = Load(offset)]
    /\ torn' = (torn \/ half)
    /\ UNCHANGED <<reader, fileVars, view, offset, usageVars>>

(* Mistake: the offset is kept when the list changes. *)
StateUpdatedKeepsOffset(s) == loadConversation(s)

(* A new list, at the latest after thirty seconds: everything is read again. *)
StateUpdated(s) ==
    /\ reader = "view"
    /\ Free(loads, s)
    /\ offset' = 0
    /\ loads' = [loads EXCEPT ![s] = Load(0)]
    /\ torn' = (torn \/ half)
    /\ UNCHANGED <<reader, fileVars, view, usageVars>>

ConversationLoaded(s) ==
    /\ loads[s].stage = "sized"
    /\ LET l == loads[s]
       IN  /\ view' = IF l.from > 0 /\ l.from = l.size THEN l.prev
                      ELSE ReadConversationIncremental(l.prev, l.from)
           /\ offset' = l.size
    /\ loads' = [loads EXCEPT ![s] = Idle]
    /\ UNCHANGED <<reader, fileVars, torn, usageVars>>

-----------------------------------------------------------------------------
(* The usage.                                                              *)

Miss == [size |-> 0, mtime |-> 0, seen |-> {}, count |-> 0]

(* The cache is hit when nothing changed, resumed when the file grew. *)
CacheGet ==
    IF cache = None THEN Miss
    ELSE IF Size < cache.size \/ (Size = cache.size /\ rewrites # cache.mtime) THEN Miss
    ELSE cache

(* A command notes the size and asks the cache, then reads and answers. *)
loadUsage(s) ==
    /\ reader = "usage"
    /\ Free(scans, s)
    /\ scans' = [scans EXCEPT ![s] = [stage |-> "sized", size |-> Size, mtime |-> rewrites, from |-> CacheGet]]
    /\ torn' = (torn \/ half)
    /\ UNCHANGED <<reader, fileVars, viewVars, cache, today, rows, persists>>

(* Mistake: every line of a message is counted. *)
CountLines(from) ==
    [seen |-> from.seen \cup {file[i].msg : i \in LinesFrom(from.size)},
     count |-> from.count + Cardinality(LinesFrom(from.size))]

(* The lines of a message repeat its usage, which counts once. *)
CountMessages(from) ==
    LET seen == from.seen \cup {file[i].msg : i \in LinesFrom(from.size)}
    IN  [seen |-> seen, count |-> from.count + Cardinality(seen \ from.seen)]

(* ReadUsage and usageMsg: the booking is for the day of the answer, and   *)
(* there is none for a session that used nothing.                          *)
ReadUsage(s) ==
    /\ scans[s].stage = "sized"
    /\ LET q == scans[s]
           full == q.from # Miss /\ q.from.size = q.size
           u == IF full THEN q.from ELSE CountMessages(q.from)
       IN  /\ cache' = IF full THEN cache
                       ELSE [size |-> q.size, mtime |-> q.mtime, seen |-> u.seen, count |-> u.count]
           /\ IF u.count = 0 THEN UNCHANGED persists
              ELSE \E p \in Slots :
                      /\ Free(persists, p)
                      /\ persists' = [persists EXCEPT ![p] =
                             [stage |-> "asked", day |-> today, count |-> u.count, prev |-> 0]]
    /\ scans' = [scans EXCEPT ![s] = Idle]
    /\ UNCHANGED <<reader, fileVars, torn, viewVars, today, rows>>

Booked(days) == FoldFunctionOnSet(+, 0, rows, days)

(* Mistake: what is booked for the day itself counts as booked before. *)
SessionCost(day) == Booked(Days)

SessionCostExcludingDate(day) == Booked(Days \ {day})

PersistRead(p) ==
    /\ persists[p].stage = "asked"
    /\ persists' = [persists EXCEPT ![p].stage = "known", ![p].prev = SessionCostExcludingDate(persists[p].day)]
    /\ UNCHANGED <<reader, fileVars, torn, viewVars, cache, scans, today, rows>>

(* The day gets what the other days do not have. *)
UpsertUsage(p) ==
    /\ persists[p].stage = "known"
    /\ LET q == persists[p]
       IN  rows' = [rows EXCEPT ![q.day] = IF q.count > q.prev THEN q.count - q.prev ELSE 0]
    /\ persists' = [persists EXCEPT ![p] = Idle]
    /\ UNCHANGED <<reader, fileVars, torn, viewVars, cache, scans, today>>

(* Bounded to days on which the file was not replaced or misread. *)
Midnight ==
    /\ reader = "usage" /\ rewrites = 0 /\ ~torn
    /\ today < MaxDay
    /\ today' = today + 1
    /\ UNCHANGED <<reader, fileVars, torn, viewVars, cache, scans, rows, persists>>

-----------------------------------------------------------------------------
Writes ==
    \/ reader = "view" /\ \E kind \in Kinds : Append1(kind, LastMessage + 1)
    \/ reader = "usage" /\ \E msg \in {LastMessage, LastMessage + 1} \ {0} : Append1("text", msg)
    \/ AppendHalf
    \/ Rewrite

PersistStep(p) == PersistRead(p) \/ UpsertUsage(p)

Asks(s) == loadConversation(s) \/ StateUpdated(s) \/ loadUsage(s)

Next ==
    \/ Writes
    \/ Midnight
    \/ \E s \in Slots : Asks(s) \/ ConversationLoaded(s) \/ ReadUsage(s) \/ PersistStep(s)

(* Commands end; lists and usage are asked for again and again. *)
Fairness ==
    /\ \A s \in Slots : WF_vars(ConversationLoaded(s)) /\ WF_vars(ReadUsage(s)) /\ WF_vars(PersistStep(s))
    /\ SF_vars(\E s \in Slots : StateUpdated(s))
    /\ WF_vars(\E s \in Slots : loadUsage(s))

Spec == Init /\ [][Next]_vars /\ Fairness

-----------------------------------------------------------------------------
(* A read that met a half-written line skips it, and one that saw more     *)
(* than the size it noted repeats lines at the next.  The conversation is  *)
(* not left wrong: again and again it is what a full read shows, because   *)
(* every new list makes the next read a full one.                          *)
ViewRecovers == []<>(reader = "view" => view = FullRead)

(* The card of a plan stays when later entries push everything around it   *)
(* out of the conversation, over any sequence of full and partial reads.   *)
PlanCardKept ==
    ~torn /\ rewrites = 0 =>
        \A i \in 1..Len(file) :
            file[i].kind # "text" /\ (\E e \in ToSet(view) : e[2] >= i) => \E e \in ToSet(view) : IsCard(e)

(* Lines that are read twice, by two commands or by one that read past the *)
(* size it noted, are counted once, and nothing before the offset of the   *)
(* cache is left out, unless a read noted a size inside a line.            *)
UsageCountsOnce ==
    rewrites = 0 /\ cache # None =>
        /\ cache.count = Cardinality(cache.seen)
        /\ cache.seen \subseteq {file[i].msg : i \in 1..Len(file)}
        /\ torn \/ {file[i].msg : i \in 1..(cache.size \div 2)} \subseteq cache.seen

(* Bookings read and write without a transaction and may be for different  *)
(* days; still the days of a session come to add up to the messages of its *)
(* transcript, unless a read noted a size inside a line.                   *)
LedgerSettles ==
    <>[](reader = "usage" /\ rewrites = 0 /\ ~torn => Booked(Days) = LastMessage)
=============================================================================
