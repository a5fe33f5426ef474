------------------------- MODULE TranscriptsProofs -------------------------
(***************************************************************************)
(* Proofs about the readers of transcripts, for transcripts of any length  *)
(* and any number of commands in flight: the lines of a message are        *)
(* counted once, the scans for a plan or question that waits agree, and    *)
(* the card of a plan stays in the conversation.                           *)
(***************************************************************************)
EXTENDS MCTranscripts, FiniteSetTheorems, WellFoundedInduction, TLAPS

Line == [kind : Kinds \cup {"text"}, msg : Nat]

(* The messages of the first lines. *)
Messages(n) == {file[i].msg : i \in 1..n}

(* What a read or the cache may know of the usage: no message is counted   *)
(* twice, and none before its offset is left out.                          *)
Sound(known) ==
    /\ known.size \in Nat
    /\ IsFiniteSet(known.seen) /\ known.count = Cardinality(known.seen)
    /\ known.seen \subseteq Messages(Len(file))
    /\ torn \/ \E n \in 0..Len(file) : known.size = 2 * n /\ Messages(n) \subseteq known.seen

(* An offset that was taken between two lines. *)
Offset(size) ==
    /\ size \in Nat
    /\ torn \/ \E n \in 0..Len(file) : size = 2 * n

UsageInv ==
    /\ file \in Seq(Line)
    /\ half \in BOOLEAN /\ torn \in BOOLEAN
    /\ scans = [s \in Slots |-> scans[s]]
    /\ rewrites = 0 =>
          /\ cache # None => Sound(cache)
          /\ \A s \in Slots : scans[s].stage = "sized" => Offset(scans[s].size) /\ Sound(scans[s].from)

(* The transcript keeps its lines and may get more of them. *)
Grows ==
    /\ \/ file' = file
       \/ \E line \in Line : file' = Append(file, line)
    /\ torn => torn'

-----------------------------------------------------------------------------
LEMMA NothingWritten == <<>> \in Seq(Line)
OBVIOUS

(* A set of messages is finite. *)
LEMMA MessagesFinite ==
    ASSUME NEW a \in Int, NEW b \in Int PROVE IsFiniteSet({file[i].msg : i \in a..b})
<1> DEFINE S == {file[i].msg : i \in a..b}
           f == [i \in a..b |-> file[i].msg]
<1>1. f \in Surjection(a..b, S)
  BY DEF Surjection
<1>2. IsFiniteSet(a..b)
  BY FS_Interval
<1> QED
  BY <1>1, <1>2, FS_Surjection

(* Messages that come to those that are known are counted by difference. *)
LEMMA CountsDifference ==
    ASSUME NEW S, NEW T, IsFiniteSet(S), IsFiniteSet(T), S \subseteq T
    PROVE  Cardinality(T) = Cardinality(S) + Cardinality(T \ S)
<1>1. T \cap S = S
  OBVIOUS
<1>2. Cardinality(T \ S) = Cardinality(T) - Cardinality(T \cap S)
  BY FS_Difference
<1>3. Cardinality(T) \in Nat /\ Cardinality(S) \in Nat
  BY FS_CardinalityType
<1>4. Cardinality(T \ S) = Cardinality(T) - Cardinality(S)
  BY <1>1, <1>2, Zenon
<1> QED
  BY ONLY <1>3, <1>4

LEMMA GrowsFact ==
    ASSUME UsageInv, Grows
    PROVE  /\ file' \in Seq(Line)
           /\ Len(file) \in Nat /\ Len(file') \in Nat /\ Len(file) <= Len(file')
           /\ \A n \in 0..Len(file) : Messages(n)' = Messages(n)
           /\ Messages(Len(file)) \subseteq Messages(Len(file))'
<1>1. file' \in Seq(Line)
  <2>1. file \in Seq(Line)
    BY DEF UsageInv
  <2>2. file' = file \/ \E line \in Line : file' = Append(file, line)
    BY DEF Grows
  <2> QED
    BY <2>1, <2>2
<1>2. Len(file) \in Nat /\ Len(file') \in Nat /\ Len(file) <= Len(file')
  BY DEF UsageInv, Grows
<1>3. \A i \in 1..Len(file) : file'[i] = file[i]
  BY DEF UsageInv, Grows
<1>4. \A n \in 0..Len(file) : Messages(n)' = Messages(n)
  <2> TAKE n \in 0..Len(file)
  <2>1. \A i \in 1..n : i \in 1..Len(file)
    BY <1>2
  <2> QED
    BY <1>3, <2>1 DEF Messages
<1>5. Messages(Len(file)) \subseteq Messages(Len(file))'
  <2>1. \A i \in 1..Len(file) : i \in 1..Len(file') /\ file'[i].msg = file[i].msg
    BY <1>2, <1>3
  <2> QED
    BY <2>1 DEF Messages
<1> QED
  BY <1>1, <1>2, <1>4, <1>5

LEMMA SoundStays ==
    ASSUME UsageInv, Grows, NEW known, Sound(known) PROVE Sound(known)'
<1>1. known.seen \subseteq Messages(Len(file))'
  BY GrowsFact DEF Sound
<1>2. ASSUME ~torn' PROVE \E n \in 0..Len(file') : known.size = 2 * n /\ Messages(n)' \subseteq known.seen
  <2>1. PICK n \in 0..Len(file) : known.size = 2 * n /\ Messages(n) \subseteq known.seen
    BY <1>2 DEF Sound, Grows
  <2>2. n \in 0..Len(file')
    BY GrowsFact
  <2>3. Messages(n)' \subseteq known.seen
    BY <2>1, GrowsFact
  <2> QED
    BY <2>1, <2>2, <2>3
<1> QED
  BY <1>1, <1>2 DEF Sound

LEMMA OffsetStays ==
    ASSUME UsageInv, Grows, NEW size, Offset(size) PROVE Offset(size)'
<1>1. 0..Len(file) \subseteq 0..Len(file')
  BY GrowsFact
<1> QED
  BY <1>1 DEF Offset, Grows

(* Whoever neither reads the usage nor shortens the file does no harm. *)
LEMMA UsageStays ==
    ASSUME UsageInv, Grows, half' \in BOOLEAN, torn' \in BOOLEAN, UNCHANGED <<cache, scans, rewrites>>
    PROVE  UsageInv'
<1>1. ASSUME rewrites' = 0, cache' # None PROVE Sound(cache)'
  <2> PICK c : c = cache
    OBVIOUS
  <2>1. Sound(c)
    BY <1>1 DEF UsageInv
  <2>2. Sound(c)'
    BY <2>1, SoundStays
  <2> QED
    BY <2>2 DEF Sound
<1>2. ASSUME rewrites' = 0, NEW s \in Slots, scans'[s].stage = "sized"
      PROVE  Offset(scans[s].size)' /\ Sound(scans[s].from)'
  <2> PICK q : q = scans[s]
    OBVIOUS
  <2>1. Offset(q.size) /\ Sound(q.from)
    BY <1>2 DEF UsageInv
  <2>2. Offset(q.size)' /\ Sound(q.from)'
    BY <2>1, SoundStays, OffsetStays
  <2> QED
    BY <2>2 DEF Sound, Offset
<1> QED
  BY <1>1, <1>2, GrowsFact DEF UsageInv

-----------------------------------------------------------------------------
(* The steps.                                                              *)

(* A line that is written ends a half-written one. *)
LEMMA AppendKeeps ==
    ASSUME UsageInv, NEW kind \in Kinds \cup {"text"}, NEW msg \in Nat, Append1(kind, msg)
    PROVE  UsageInv'
<1>1. [kind |-> kind, msg |-> msg] \in Line
  BY DEF Line
<1>2. Grows /\ half' \in BOOLEAN /\ torn' \in BOOLEAN
  BY <1>1 DEF Append1, Grows, UsageInv
<1> QED
  BY <1>2, UsageStays DEF Append1, usageVars

LEMMA LastMessageFact == ASSUME UsageInv PROVE LastMessage \in Nat
<1>1. CASE file = <<>>
  BY <1>1 DEF LastMessage
<1>2. CASE file # <<>>
  <2>1. Last(file) = file[Len(file)]
    BY ONLY DEF Last
  <2>2. file[Len(file)] \in Line
    BY <1>2 DEF UsageInv
  <2>3. Last(file).msg \in Nat
    BY <2>1, <2>2 DEF Line
  <2> QED
    BY <1>2, <2>3 DEF LastMessage
<1> QED
  BY <1>1, <1>2

LEMMA WritesKeep == ASSUME UsageInv, Writes PROVE UsageInv'
<1>1. LastMessage \in Nat
  BY LastMessageFact
<1>2. CASE \E kind \in Kinds : Append1(kind, LastMessage + 1)
  BY <1>1, <1>2, AppendKeeps
<1>3. CASE \E msg \in {LastMessage, LastMessage + 1} \ {0} : Append1("text", msg)
  BY <1>1, <1>3, AppendKeeps
<1>4. CASE AppendHalf
  BY <1>4, UsageStays DEF AppendHalf, Grows, UsageInv, usageVars
<1>5. CASE Rewrite
  <2>1. file' = <<>> /\ half' = FALSE /\ rewrites' = 1 /\ torn' = torn /\ scans' = scans
    BY <1>5 DEF Rewrite, usageVars
  <2>2. file' \in Seq(Line) /\ half' \in BOOLEAN /\ rewrites' # 0
    <3>1. file' \in Seq(Line)
      BY <2>1, NothingWritten, Zenon
    <3>2. half' \in BOOLEAN
      BY <2>1
    <3>3. rewrites' # 0
      BY <2>1
    <3> QED
      BY <3>1, <3>2, <3>3
  <2>3. torn' \in BOOLEAN /\ scans' = [s \in Slots |-> scans'[s]]
    BY <2>1 DEF UsageInv
  <2> QED
    BY <2>2, <2>3 DEF UsageInv
<1> QED
  BY <1>2, <1>3, <1>4, <1>5 DEF Writes

(* What the cache gives is sound, be it nothing. *)
LEMMA GivenSound == ASSUME UsageInv, rewrites = 0 PROVE Sound(CacheGet)
<1>1. Sound(Miss)
  <2>1. Miss.size = 0 /\ Miss.seen = {} /\ Miss.count = 0
    BY DEF Miss
  <2>2. 0 \in 0..Len(file) /\ Messages(0) = {}
    BY DEF Messages, UsageInv
  <2> QED
    BY <2>1, <2>2, FS_EmptySet DEF Sound
<1> QED
  BY <1>1 DEF CacheGet, UsageInv

LEMMA SizeIsOffset == ASSUME UsageInv PROVE Size \in Nat /\ (half \/ Offset(Size))
<1>1. Len(file) \in Nat /\ half \in BOOLEAN
  BY DEF UsageInv
<1>2. CASE half
  BY <1>1, <1>2 DEF Size
<1>3. CASE ~half
  BY <1>1, <1>3 DEF Size, Offset
<1> QED
  BY <1>2, <1>3

LEMMA LoadKeeps == ASSUME UsageInv, NEW s \in Slots, loadUsage(s) PROVE UsageInv'
<1> PICK q : q = [stage |-> "sized", size |-> Size, mtime |-> rewrites, from |-> CacheGet]
  OBVIOUS
<1>1. scans' = [scans EXCEPT ![s] = q]
  BY DEF loadUsage
<1>2. /\ file' = file /\ half' = half /\ rewrites' = rewrites /\ cache' = cache
      /\ torn' = (torn \/ half)
  BY DEF loadUsage, fileVars
<1>3. Grows
  BY <1>2 DEF Grows
<1>4. /\ scans' = [r \in Slots |-> scans'[r]] /\ scans'[s] = q
      /\ \A r \in Slots \ {s} : scans'[r] = scans[r]
  BY <1>1 DEF UsageInv
<1>5. q.size = Size /\ q.from = CacheGet
  OBVIOUS
<1>6. ASSUME rewrites = 0 PROVE Sound(q.from)'
  BY <1>3, <1>5, <1>6, GivenSound, SoundStays
<1>7. Offset(q.size)'
  <2>1. CASE half
    BY <1>2, <1>5, <2>1, SizeIsOffset DEF Offset
  <2>2. CASE ~half
    BY <1>3, <1>5, <2>2, SizeIsOffset, OffsetStays
  <2> QED
    BY <2>1, <2>2
<1>8. ASSUME rewrites = 0, cache # None PROVE Sound(cache)'
  <2> PICK c : c = cache
    OBVIOUS
  <2>1. Sound(c)'
    BY <1>3, <1>8, SoundStays DEF UsageInv
  <2> QED
    BY <1>2, <2>1 DEF Sound
<1>9. ASSUME rewrites = 0, NEW r \in Slots, scans'[r].stage = "sized"
      PROVE  Offset(scans[r].size)' /\ Sound(scans[r].from)'
  <2> PICK o : o = scans'[r]
    OBVIOUS
  <2>1. Offset(o.size)' /\ Sound(o.from)'
    BY <1>3, <1>4, <1>6, <1>7, <1>9, SoundStays, OffsetStays DEF UsageInv
  <2> QED
    BY <2>1 DEF Offset, Sound
<1> QED
  BY <1>2, <1>4, <1>8, <1>9 DEF UsageInv

(* Reading on from what is known gives what is sound for the noted size. *)
LEMMA CountsSound ==
    ASSUME UsageInv, NEW known, Sound(known), NEW size, Offset(size), NEW mtime
    PROVE  LET u == CountMessages(known)
           IN  Sound([size |-> size, mtime |-> mtime, seen |-> u.seen, count |-> u.count])
<1> DEFINE new == {file[i].msg : i \in LinesFrom(known.size)}
           seen == known.seen \cup new
<1> PICK r : r = [size |-> size, mtime |-> mtime, seen |-> CountMessages(known).seen,
                  count |-> CountMessages(known).count]
  OBVIOUS
<1>1. r.size = size /\ r.seen = seen /\ r.count = known.count + Cardinality(seen \ known.seen)
  BY DEF CountMessages
<1>2. Len(file) \in Nat /\ known.size \in Nat /\ size \in Nat
  BY DEF UsageInv, Sound, Offset
<1>3. (known.size + 1) \div 2 + 1 \in Nat /\ (known.size + 1) \div 2 + 1 >= 1
  BY <1>2
<1>4. IsFiniteSet(new)
  <2> PICK a \in Int : a = (known.size + 1) \div 2 + 1
    BY <1>3
  <2>1. LinesFrom(known.size) = a..Len(file)
    BY DEF LinesFrom
  <2>2. \A b \in Int : IsFiniteSet({file[i].msg : i \in a..b})
    BY MessagesFinite, Zenon
  <2>3. Len(file) \in Int
    BY <1>2
  <2> QED
    BY <2>1, <2>2, <2>3, Zenon
<1>5. IsFiniteSet(known.seen) /\ known.count = Cardinality(known.seen) /\ known.seen \subseteq Messages(Len(file))
  BY DEF Sound
<1>6. IsFiniteSet(seen)
  BY <1>4, <1>5, FS_Union
<1>7. r.count = Cardinality(r.seen)
  BY <1>1, <1>5, <1>6, CountsDifference
<1>8. new \subseteq Messages(Len(file))
  BY <1>2, <1>3 DEF LinesFrom, Messages
<1>9. ASSUME ~torn PROVE \E n \in 0..Len(file) : size = 2 * n /\ Messages(n) \subseteq seen
  <2>1. PICK k \in 0..Len(file) : known.size = 2 * k /\ Messages(k) \subseteq known.seen
    BY <1>9 DEF Sound
  <2>2. PICK n \in 0..Len(file) : size = 2 * n
    BY <1>9 DEF Offset
  <2>3. (known.size + 1) \div 2 + 1 = k + 1
    BY <2>1, <1>2
  <2>4. ASSUME NEW i \in 1..n PROVE file[i].msg \in seen
    <3>1. i \in 1..k \/ i \in (k + 1)..Len(file)
      BY <1>2
    <3>2. CASE i \in 1..k
      BY <2>1, <3>2 DEF Messages
    <3>3. CASE i \in (k + 1)..Len(file)
      BY <2>3, <3>3 DEF LinesFrom
    <3> QED
      BY <3>1, <3>2, <3>3
  <2> QED
    BY <2>2, <2>4 DEF Messages
<1>10. Sound(r)
  BY <1>1, <1>2, <1>5, <1>6, <1>7, <1>8, <1>9 DEF Sound
<1> QED
  BY <1>10

LEMMA ReadKeeps == ASSUME UsageInv, NEW s \in Slots, ReadUsage(s) PROVE UsageInv'
<1> PICK q : q = scans[s]
  OBVIOUS
<1>1. q.stage = "sized" /\ scans' = [scans EXCEPT ![s] = Idle]
  BY DEF ReadUsage
<1>2. /\ file' = file /\ half' = half /\ rewrites' = rewrites /\ torn' = torn
  BY DEF ReadUsage, fileVars
<1>3. Grows
  BY <1>2 DEF Grows
<1>4. /\ scans' = [r \in Slots |-> scans'[r]] /\ scans'[s].stage # "sized"
      /\ \A r \in Slots \ {s} : scans'[r] = scans[r]
  BY <1>1 DEF UsageInv, Idle
<1>5. ASSUME rewrites = 0, cache' # None PROVE Sound(cache')
  <2>1. CASE cache' = cache
    BY <1>5, <2>1 DEF UsageInv
  <2>2. CASE cache' # cache
    <3>1. cache' = [size |-> q.size, mtime |-> q.mtime, seen |-> CountMessages(q.from).seen,
                    count |-> CountMessages(q.from).count]
      BY <2>2 DEF ReadUsage
    <3>2. Offset(q.size) /\ Sound(q.from)
      BY <1>1, <1>5 DEF UsageInv
    <3> QED
      BY <3>1, <3>2, CountsSound
  <2> QED
    BY <2>1, <2>2
<1>6. ASSUME rewrites = 0, cache' # None PROVE Sound(cache)'
  <2> PICK c : c = cache'
    OBVIOUS
  <2>1. Sound(c)'
    BY <1>3, <1>5, <1>6, SoundStays
  <2> QED
    BY <2>1 DEF Sound
<1>7. ASSUME rewrites = 0, NEW r \in Slots, scans'[r].stage = "sized"
      PROVE  Offset(scans[r].size)' /\ Sound(scans[r].from)'
  <2> PICK o : o = scans'[r]
    OBVIOUS
  <2>1. Offset(o.size)' /\ Sound(o.from)'
    BY <1>3, <1>4, <1>7, SoundStays, OffsetStays DEF UsageInv
  <2> QED
    BY <2>1 DEF Offset, Sound
<1> QED
  BY <1>2, <1>4, <1>6, <1>7 DEF UsageInv

LEMMA OthersKeep ==
    ASSUME UsageInv, NEW s \in Slots,
           \/ loadConversation(s) \/ StateUpdated(s) \/ ConversationLoaded(s)
           \/ PersistStep(s)
    PROVE  UsageInv'
<1>1. UNCHANGED <<file, half, rewrites, cache, scans>> /\ torn' \in {torn, torn \/ half}
  BY DEF loadConversation, StateUpdated, ConversationLoaded, PersistStep, PersistRead, UpsertUsage,
     fileVars, usageVars
<1>2. Grows /\ half' \in BOOLEAN /\ torn' \in BOOLEAN
  BY <1>1 DEF Grows, UsageInv
<1> QED
  BY <1>1, <1>2, UsageStays

LEMMA InitUsage == Init => UsageInv
<1> SUFFICES ASSUME Init PROVE UsageInv
  OBVIOUS
<1>1. /\ file = <<>> /\ half = FALSE /\ torn = FALSE /\ cache = None
      /\ scans = [s \in Slots |-> Idle]
  BY DEF Init
<1>2. half \in BOOLEAN /\ torn \in BOOLEAN
  BY <1>1
<1>3. file \in Seq(Line)
  BY <1>1, NothingWritten, Zenon
<1> QED
  BY <1>1, <1>2, <1>3 DEF UsageInv, Idle

LEMMA UsageStep == UsageInv /\ [Next]_vars => UsageInv'
<1> SUFFICES ASSUME UsageInv, [Next]_vars PROVE UsageInv'
  OBVIOUS
<1>1. ASSUME NEW s \in Slots, Asks(s) \/ ConversationLoaded(s) \/ ReadUsage(s) \/ PersistStep(s) PROVE UsageInv'
  BY <1>1, LoadKeeps, ReadKeeps, OthersKeep DEF Asks
<1>2. CASE Midnight \/ UNCHANGED vars
  <2>1. UNCHANGED <<file, half, rewrites, torn, cache, scans>>
    BY <1>2 DEF Midnight, vars, fileVars
  <2> QED
    BY <2>1, UsageStays DEF Grows, UsageInv
<1> QED
  BY <1>1, <1>2, WritesKeep DEF Next

(* Lines that are read twice, by two commands or by one that read past the *)
(* size it noted (internal/usage ReadUsage), are counted once, in          *)
(* transcripts of any length and with any number of reads in flight.       *)
THEOREM CountedOnce == Spec => []UsageCountsOnce
<1>1. UsageInv => UsageCountsOnce
  <2> SUFFICES ASSUME UsageInv, rewrites = 0, cache # None
               PROVE  /\ cache.count = Cardinality(cache.seen)
                      /\ cache.seen \subseteq Messages(Len(file))
                      /\ torn \/ Messages(cache.size \div 2) \subseteq cache.seen
    BY DEF UsageCountsOnce, Messages
  <2>1. Sound(cache)
    BY DEF UsageInv
  <2>2. ASSUME ~torn PROVE Messages(cache.size \div 2) \subseteq cache.seen
    <3>1. PICK n \in 0..Len(file) : cache.size = 2 * n /\ Messages(n) \subseteq cache.seen
      BY <2>1, <2>2 DEF Sound
    <3>2. cache.size \div 2 = n
      BY <3>1
    <3> QED
      BY <3>1, <3>2
  <2> QED
    BY <2>1, <2>2 DEF Sound
<1> QED
  BY InitUsage, UsageStep, <1>1, PTL DEF Spec

-----------------------------------------------------------------------------
(* The conversation and the card of a plan.                                *)

HasCard(v) == \E e \in ToSet(v) : IsCard(e)

(* Entries of a conversation, as long as the file is not replaced. *)
Shown == {"text", "plan", "slug", "plan-saved"} \X (1..Len(file))

(* Whoever resumes at this offset knows of the plans before it. *)
Told(v, from) ==
    /\ v \in Seq(Shown)
    /\ \E n \in 0..Len(file) : from = 2 * n /\ \A i \in 1..n : file[i].kind # "text" => HasCard(v)

Carded(v) ==
    \A i \in 1..Len(file) : file[i].kind # "text" /\ (\E e \in ToSet(v) : e[2] >= i) => HasCard(v)

CardInv ==
    /\ loads = [s \in Slots |-> loads[s]]
    /\ ~torn /\ rewrites = 0 =>
          /\ Told(view, offset) /\ Carded(view)
          /\ \A s \in Slots : loads[s].stage = "sized" =>
                Told(loads[s].prev, loads[s].from) /\ Carded(loads[s].prev) /\ Offset(loads[s].size)

(* Numbers: the smallest, and induction over a set of them. *)
LEMMA SmallestFact ==
    ASSUME NEW S \in SUBSET Nat, S # {}
    PROVE  \E k \in S : \A n \in S : k <= n
<1> DEFINE R == OpToRel(<, Nat)
<1>1. IsWellFoundedOn(R, Nat)
  BY NatLessThanWellFounded
<1>2. \A k, n \in Nat : n < k => <<n, k>> \in R
  BY DEF OpToRel
<1> HIDE DEF R
<1>3. PICK k \in S : \A n \in S : ~(<<n, k>> \in R)
  BY <1>1, WFMin
<1>4. \A n \in S : ~(n < k)
  BY <1>2, <1>3
<1> QED
  BY <1>4

LEMMA Induct ==
    ASSUME NEW S, 0 \in S, \A n \in Nat : n \in S => n + 1 \in S
    PROVE  Nat \subseteq S
<1> SUFFICES ASSUME Nat \ S # {} PROVE FALSE
  OBVIOUS
<1>1. PICK k \in Nat \ S : \A n \in Nat \ S : k <= n
  BY SmallestFact
<1>2. k # 0 /\ k - 1 \in Nat /\ ~(k <= k - 1)
  BY <1>1
<1>3. k - 1 \in S
  BY <1>1, <1>2
<1>4. (k - 1) + 1 = k
  BY <1>1
<1>5. k \in S
  BY <1>2, <1>3, <1>4
<1> QED
  BY <1>1, <1>5

(* The function that Joined computes with. *)
Joins(f, seqs, n) == f = [k \in 0..n |-> IF k = 0 THEN <<>> ELSE f[k - 1] \o seqs[k]]

LEMMA ConcatFact ==
    ASSUME NEW S, NEW s \in Seq(S), NEW t \in Seq(S)
    PROVE  /\ s \o t \in Seq(S)
           /\ ToSet(s) \subseteq ToSet(s \o t) /\ ToSet(t) \subseteq ToSet(s \o t)
<1>1. s \o t \in Seq(S)
  OBVIOUS
<1>2. ASSUME NEW i \in 1..Len(s) PROVE i \in 1..Len(s \o t) /\ (s \o t)[i] = s[i]
  OBVIOUS
<1>3. ASSUME NEW j \in 1..Len(t) PROVE Len(s) + j \in 1..Len(s \o t) /\ (s \o t)[Len(s) + j] = t[j]
  OBVIOUS
<1>4. DOMAIN s = 1..Len(s) /\ DOMAIN t = 1..Len(t) /\ DOMAIN (s \o t) = 1..Len(s \o t)
  BY <1>1
<1> PICK st : st = s \o t
  OBVIOUS
<1>5. ASSUME NEW e \in ToSet(s) PROVE e \in ToSet(st)
  <2>1. PICK i \in 1..Len(s) : e = s[i]
    BY <1>4 DEF ToSet
  <2>2. i \in DOMAIN st /\ st[i] = e
    BY <1>2, <1>4, <2>1
  <2> QED
    BY <2>2 DEF ToSet
<1>6. ASSUME NEW e \in ToSet(t) PROVE e \in ToSet(st)
  <2>1. PICK j \in 1..Len(t) : e = t[j]
    BY <1>4 DEF ToSet
  <2>2. Len(s) + j \in DOMAIN st /\ st[Len(s) + j] = e
    BY <1>3, <1>4, <2>1
  <2> QED
    BY <2>2 DEF ToSet
<1> QED
  BY <1>1, <1>5, <1>6

LEMMA JoinExists ==
    ASSUME NEW S, NEW n \in Nat, NEW seqs \in [1..n -> Seq(S)]
    PROVE  \E f \in [0..n -> Seq(S)] : Joins(f, seqs, n)
<1> DEFINE Has(k) == \E f \in [0..k -> Seq(S)] : Joins(f, seqs, k)
           Ready == {k \in Nat : k <= n => Has(k)}
<1>1. Has(0)
  <2> DEFINE g == [k \in 0..0 |-> <<>>]
  <2>1. <<>> \in Seq(S)
    OBVIOUS
  <2>2. g \in [0..0 -> Seq(S)]
    BY <2>1
  <2>3. Joins(g, seqs, 0)
    BY DEF Joins
  <2> QED
    BY <2>2, <2>3
<1>2. ASSUME NEW k \in Nat, Has(k), k + 1 <= n PROVE Has(k + 1)
  <2>1. PICK f \in [0..k -> Seq(S)] : Joins(f, seqs, k)
    BY <1>2
  <2> DEFINE next == f[k] \o seqs[k + 1]
             g == [i \in 0..(k + 1) |-> IF i = k + 1 THEN next ELSE f[i]]
  <2>2. next \in Seq(S)
    BY <1>2
  <2> HIDE DEF next
  <2>3. g \in [0..(k + 1) -> Seq(S)]
    BY <2>2
  <2>4. ASSUME NEW i \in 0..(k + 1)
        PROVE  g[i] = IF i = 0 THEN <<>> ELSE g[i - 1] \o seqs[i]
    <3>1. CASE i = k + 1
      <4>1. i # 0 /\ i - 1 = k /\ k # k + 1 /\ k \in 0..(k + 1)
        BY <3>1
      <4>2. g[i] = next /\ g[k] = f[k]
        BY <3>1, <4>1
      <4>3. next = f[k] \o seqs[i]
        BY <3>1 DEF next
      <4> HIDE DEF g
      <4>4. g[i] = g[i - 1] \o seqs[i]
        BY ONLY <4>1, <4>2, <4>3
      <4> QED
        BY ONLY <4>1, <4>4
    <3>2. CASE i # k + 1
      <4>1. i \in 0..k /\ (i # 0 => i - 1 \in 0..k)
        BY <3>2
      <4>2. g[i] = f[i] /\ (i # 0 => g[i - 1] = f[i - 1])
        BY <4>1, <3>2
      <4>3. f[i] = IF i = 0 THEN <<>> ELSE f[i - 1] \o seqs[i]
        BY <2>1, <4>1 DEF Joins
      <4> QED
        BY <4>2, <4>3
    <3> QED
      BY <3>1, <3>2
  <2>5. Joins(g, seqs, k + 1)
    BY <2>4 DEF Joins
  <2> QED
    BY <2>3, <2>5
<1> HIDE DEF Has
<1>3. 0 \in Ready /\ \A k \in Nat : k \in Ready => k + 1 \in Ready
  BY <1>1, <1>2
<1> HIDE DEF Ready
<1>4. Nat \subseteq Ready
  BY <1>3, Induct
<1>5. Has(n)
  BY <1>4 DEF Ready
<1> QED
  BY <1>5 DEF Has

LEMMA JoinedFact ==
    ASSUME NEW S, NEW n \in Nat, NEW seqs \in [1..n -> Seq(S)]
    PROVE  /\ Joined(seqs, n) \in Seq(S)
           /\ \A k \in 1..n : ToSet(seqs[k]) \subseteq ToSet(Joined(seqs, n))
<1> DEFINE f == CHOOSE f : Joins(f, seqs, n)
<1>1. Joins(f, seqs, n)
  BY JoinExists
<1>2. Joined(seqs, n) = f[n]
  BY DEF Joined, Joins
<1> HIDE DEF f
<1> DEFINE Fine(k) == f[k] \in Seq(S) /\ \A j \in 1..k : ToSet(seqs[j]) \subseteq ToSet(f[k])
           Good == {k \in Nat : k <= n => Fine(k)}
<1>3. Fine(0)
  <2>1. f[0] = <<>> /\ <<>> \in Seq(S)
    BY <1>1 DEF Joins
  <2> QED
    BY <2>1
<1>4. ASSUME NEW k \in Nat, Fine(k), k + 1 <= n PROVE Fine(k + 1)
  <2>1. k + 1 \in 1..n /\ k + 1 # 0 /\ (k + 1) - 1 = k
    BY <1>4
  <2>2. f[k + 1] = f[k] \o seqs[k + 1]
    <3> PICK m : m = k + 1
      OBVIOUS
    <3>1. m \in 0..n /\ m # 0 /\ m - 1 = k
      BY <2>1
    <3>2. f[m] = IF m = 0 THEN <<>> ELSE f[m - 1] \o seqs[m]
      BY <1>1, <3>1 DEF Joins
    <3>3. f[m] = f[k] \o seqs[m]
      BY ONLY <3>1, <3>2
    <3> QED
      BY <3>3
  <2> PICK s, t : s = f[k] /\ t = seqs[k + 1]
    OBVIOUS
  <2>3. s \in Seq(S) /\ t \in Seq(S)
    BY <1>4, <2>1
  <2>4. s \o t \in Seq(S) /\ ToSet(s) \subseteq ToSet(s \o t) /\ ToSet(t) \subseteq ToSet(s \o t)
    BY ONLY <2>3, ConcatFact
  <2>5. ASSUME NEW j \in 1..(k + 1) PROVE ToSet(seqs[j]) \subseteq ToSet(s \o t)
    <3>1. CASE j = k + 1
      BY <2>4, <3>1
    <3>2. CASE j # k + 1
      <4>1. j \in 1..k
        BY <3>2
      <4>2. ToSet(seqs[j]) \subseteq ToSet(s)
        BY <1>4, <4>1
      <4> QED
        BY <2>4, <4>2
    <3> QED
      BY <3>1, <3>2
  <2> QED
    BY <2>2, <2>4, <2>5
<1> HIDE DEF Fine
<1>5. 0 \in Good
  BY <1>3
<1>6. ASSUME NEW k \in Nat, k \in Good PROVE k + 1 \in Good
  <2>1. k + 1 <= n => k <= n
    OBVIOUS
  <2> QED
    BY <1>4, <1>6, <2>1
<1> HIDE DEF Good
<1>7. Nat \subseteq Good
  BY <1>5, <1>6, Induct
<1>8. Fine(n)
  BY <1>7 DEF Good
<1> QED
  BY <1>2, <1>8 DEF Fine

(* The cards of a conversation. *)
LEMMA CardsFact ==
    ASSUME NEW S, NEW all \in Seq(S)
    PROVE  /\ Cards(all) \in Seq(S)
           /\ \A e \in ToSet(all) : IsCard(e) => e \in ToSet(Cards(all))
<1> DEFINE seqs == [k \in 1..Len(all) |-> IF IsCard(all[k]) THEN <<all[k]>> ELSE <<>>]
<1>1. \A k \in 1..Len(all) : all[k] \in S
  OBVIOUS
<1>2. seqs \in [1..Len(all) -> Seq(S)]
  <2>1. \A e \in S : <<e>> \in Seq(S)
    OBVIOUS
  <2>2. <<>> \in Seq(S)
    OBVIOUS
  <2> QED
    BY <1>1, <2>1, <2>2
<1>3. Cards(all) = Joined(seqs, Len(all))
  BY DEF Cards
<1>4. \A k \in 1..Len(all) : IsCard(all[k]) => seqs[k] = <<all[k]>>
  OBVIOUS
<1> HIDE DEF seqs
<1>5. Len(all) \in Nat
  OBVIOUS
<1>6. /\ Joined(seqs, Len(all)) \in Seq(S)
      /\ \A k \in 1..Len(all) : ToSet(seqs[k]) \subseteq ToSet(Joined(seqs, Len(all)))
  BY ONLY <1>2, <1>5, JoinedFact
<1>7. ASSUME NEW e \in ToSet(all), IsCard(e) PROVE e \in ToSet(Joined(seqs, Len(all)))
  <2>1. PICK k \in 1..Len(all) : e = all[k]
    BY <1>7 DEF ToSet
  <2>2. seqs[k] = <<e>>
    BY <1>4, <1>7, <2>1
  <2>3. e \in ToSet(seqs[k])
    BY <2>2 DEF ToSet
  <2> QED
    BY <1>6, <2>3
<1> QED
  BY <1>3, <1>6, <1>7

LEMMA InToSet ==
    ASSUME NEW S, NEW s \in Seq(S), NEW j \in 1..Len(s) PROVE s[j] \in ToSet(s)
<1>1. j \in DOMAIN s
  OBVIOUS
<1> QED
  BY <1>1 DEF ToSet

(* The cap leaves no card out. *)
LEMMA CappedFact ==
    ASSUME NEW S, NEW all \in Seq(S)
    PROVE  /\ Capped(all) \in Seq(S)
           /\ HasCard(all) => HasCard(Capped(all))
<1>1. Limit \in Nat \ {0} /\ Len(all) \in Nat
  BY BoundAssumption
<1>2. CASE ~(Len(all) > Limit)
  BY <1>2 DEF Capped
<1>3. CASE Len(all) > Limit
  <2> PICK d \in Nat : d = Len(all) - Limit /\ d >= 1 /\ d + 1 <= Len(all)
    BY <1>1, <1>3
  <2> PICK s, t : s = SubSeq(all, 1, d) /\ t = SubSeq(all, d + 1, Len(all))
    OBVIOUS
  <2>1. s \in Seq(S) /\ Len(s) = d /\ \A j \in 1..d : s[j] = all[j]
    <3>1. 1 \in 1..Len(all) /\ d \in 1..Len(all) /\ \A j \in 1..d : j \in 1..Len(all)
      BY <1>1
    <3> QED
      BY <3>1
  <2>2. t \in Seq(S) /\ Len(t) = Len(all) - d /\ \A j \in (d + 1)..Len(all) : t[j - d] = all[j]
    <3>1. d + 1 \in 1..Len(all) /\ Len(all) \in 1..Len(all)
      BY <1>1
    <3> QED
      BY <3>1
  <2>3. Capped(all) = Cards(s) \o t
    BY <1>3 DEF Capped
  <2>4. Cards(s) \in Seq(S) /\ \A e \in ToSet(s) : IsCard(e) => e \in ToSet(Cards(s))
    BY <2>1, CardsFact
  <2> PICK c, st : c = Cards(s) /\ st = c \o t
    OBVIOUS
  <2>5. st \in Seq(S) /\ ToSet(c) \subseteq ToSet(st) /\ ToSet(t) \subseteq ToSet(st)
    BY ONLY <2>2, <2>4, ConcatFact, c = Cards(s), st = c \o t
  <2>6. ASSUME NEW e \in ToSet(all), IsCard(e) PROVE e \in ToSet(st)
    <3>1. PICK j \in 1..Len(all) : e = all[j]
      BY <2>6 DEF ToSet
    <3>2. CASE j <= d
      <4>1. j \in 1..Len(s) /\ e = s[j]
        BY <2>1, <3>1, <3>2
      <4>2. e \in ToSet(s)
        BY ONLY <2>1, <4>1, InToSet
      <4> QED
        BY <2>4, <2>5, <2>6, <4>2
    <3>3. CASE ~(j <= d)
      <4>1. j \in (d + 1)..Len(all) /\ j - d \in 1..Len(t)
        BY <2>2, <3>1, <3>3
      <4>2. e = t[j - d]
        BY <2>2, <3>1, <4>1
      <4>3. e \in ToSet(t)
        BY ONLY <2>2, <4>1, <4>2, InToSet
      <4> QED
        BY <2>5, <4>3
    <3> QED
      BY <3>2, <3>3
  <2> QED
    BY <2>3, <2>5, <2>6 DEF HasCard
<1> QED
  BY <1>2, <1>3

(* A line that is read shows its entry, and the card that it has. *)
LEMMA EntriesFact ==
    ASSUME file \in Seq(Line), NEW i \in 1..Len(file)
    PROVE  /\ Entries(i) \in Seq(Shown) /\ <<Entry(i), Card(i)>> \in Seq(Shown)
           /\ file[i].kind = "plan" => Entries(i) = <<Entry(i), Card(i)>>
           /\ HasCard(<<Entry(i), Card(i)>>)
<1>1. file[i] \in Line
  OBVIOUS
<1>2. file[i].kind \in {"text", "plan", "slug"}
  BY <1>1, BoundAssumption DEF Line
<1> PICK e, c : e = Entry(i) /\ c = Card(i)
  OBVIOUS
<1>3. e \in Shown /\ c \in Shown
  BY <1>2 DEF Entry, Card, Shown
<1>4. <<e>> \in Seq(Shown) /\ <<e, c>> \in Seq(Shown)
  BY <1>3
<1>5. IsCard(c)
  BY DEF Card, IsCard
<1>6. c \in ToSet(<<e, c>>)
  <2>1. 2 \in DOMAIN <<e, c>> /\ <<e, c>>[2] = c
    OBVIOUS
  <2> QED
    BY <2>1 DEF ToSet
<1>7. HasCard(<<e, c>>)
  BY <1>5, <1>6 DEF HasCard
<1> QED
  BY <1>4, <1>7 DEF Entries

(* After a read the conversation has the card of every plan of the file,   *)
(* if it had those of the lines that were read before.                     *)
LEMMA ReadFact ==
    ASSUME file \in Seq(Line), NEW prev \in Seq(Shown), NEW n \in 0..Len(file),
           \A i \in 1..n : file[i].kind # "text" => HasCard(prev)
    PROVE  LET v == ReadConversationIncremental(prev, 2 * n)
           IN  /\ v \in Seq(Shown)
               /\ \A i \in 1..Len(file) : file[i].kind # "text" => HasCard(v)
<1> DEFINE new == LinesFrom(2 * n)
           known == IF 2 * n > 0 THEN prev ELSE <<>>
           named == {i \in new : file[i].kind # "text"}
           slug == IF named # {} /\ (\A i \in new : file[i].kind # "plan") /\ ~(\E e \in ToSet(known) : IsCard(e))
                   THEN CHOOSE i \in named : \A j \in named : i <= j ELSE 0
           row(i) == IF i = slug THEN <<Entry(i), Card(i)>> ELSE Entries(i)
           seqs == [k \in 1..Cardinality(new) |-> row(Len(file) - Cardinality(new) + k)]
           all == known \o Joined(seqs, Cardinality(new))
<1>1. Len(file) \in Nat /\ n \in Nat /\ n <= Len(file)
  OBVIOUS
<1>2. new = (n + 1)..Len(file)
  <2>1. (2 * n + 1) \div 2 = n
    BY <1>1
  <2> QED
    BY <2>1 DEF LinesFrom
<1>3. Cardinality(new) = Len(file) - n
  <2> PICK a, b, size : a = n + 1 /\ b = Len(file) /\ size = Cardinality(a..b)
    OBVIOUS
  <2>1. a \in Int /\ b \in Int
    BY <1>1
  <2>2. size = IF a > b THEN 0 ELSE b - a + 1
    BY ONLY <2>1, FS_Interval, size = Cardinality(a..b)
  <2>3. Cardinality(new) = size
    BY <1>2
  <2>4. size = Len(file) - n
    BY ONLY <1>1, <2>2, a = n + 1, b = Len(file)
  <2> QED
    BY <2>3, <2>4
<1>4. ReadConversationIncremental(prev, 2 * n) = Capped(all)
  BY DEF ReadConversationIncremental
<1>5. known \in Seq(Shown) /\ \A i \in 1..n : file[i].kind # "text" => HasCard(known)
  <2>1. CASE n = 0
    <3>1. known = <<>>
      BY <2>1
    <3>2. <<>> \in Seq(Shown)
      OBVIOUS
    <3> QED
      BY <2>1, <3>1, <3>2
  <2>2. CASE n # 0
    <3>1. known = prev
      BY <1>1, <2>2
    <3> QED
      BY <3>1
  <2> QED
    BY <2>1, <2>2
<1>6. named # {} /\ (\A i \in new : file[i].kind # "plan") /\ ~HasCard(known) => slug \in named
  <2>1. named \in SUBSET Nat
    BY <1>1, <1>2
  <2>2. named # {} => (CHOOSE i \in named : \A j \in named : i <= j) \in named
    <3> HIDE DEF named
    <3> QED
      BY <2>1, SmallestFact
  <2> HIDE DEF named, new, known
  <2> QED
    BY <2>2 DEF HasCard
<1> HIDE DEF slug, known
<1>7. ASSUME NEW i \in new
      PROVE  /\ row(i) \in Seq(Shown)
             /\ file[i].kind = "plan" \/ i = slug => HasCard(row(i))
  <2>1. i \in 1..Len(file)
    BY <1>1, <1>2
  <2> QED
    BY <2>1, EntriesFact
<1> HIDE DEF row
<1>8. seqs \in [1..(Len(file) - n) -> Seq(Shown)] /\ \A i \in new : seqs[i - n] = row(i) /\ i - n \in 1..(Len(file) - n)
  <2>1. \A k \in 1..(Len(file) - n) : n + k \in new /\ Len(file) - (Len(file) - n) + k = n + k
    BY <1>1, <1>2
  <2>2. seqs = [k \in 1..(Len(file) - n) |-> row(Len(file) - (Len(file) - n) + k)]
    BY <1>3
  <2>3. \A k \in 1..(Len(file) - n) : seqs[k] = row(n + k) /\ row(n + k) \in Seq(Shown)
    BY <1>7, <2>1, <2>2
  <2>4. \A i \in new : i - n \in 1..(Len(file) - n) /\ n + (i - n) = i
    BY <1>1, <1>2
  <2>5. seqs \in [1..(Len(file) - n) -> Seq(Shown)]
    BY <2>2, <2>3
  <2> QED
    BY <2>3, <2>4, <2>5
<1> HIDE DEF seqs, new
<1>9. /\ Joined(seqs, Len(file) - n) \in Seq(Shown)
      /\ \A k \in 1..(Len(file) - n) : ToSet(seqs[k]) \subseteq ToSet(Joined(seqs, Len(file) - n))
  <2>1. Len(file) - n \in Nat
    BY <1>1
  <2> QED
    BY ONLY <1>8, <2>1, JoinedFact
<1>10. /\ all \in Seq(Shown)
       /\ ToSet(known) \subseteq ToSet(all) /\ ToSet(Joined(seqs, Len(file) - n)) \subseteq ToSet(all)
  <2>1. all = known \o Joined(seqs, Len(file) - n)
    BY <1>3
  <2> HIDE DEF all
  <2> QED
    BY ONLY <1>5, <1>9, <2>1, ConcatFact
<1> HIDE DEF all
<1>11. ASSUME NEW i \in new, HasCard(row(i)) PROVE HasCard(all)
  BY <1>8, <1>9, <1>10, <1>11 DEF HasCard
<1>12. ASSUME NEW i \in 1..Len(file), file[i].kind # "text" PROVE HasCard(all)
  <2>1. CASE HasCard(known)
    BY <1>10, <2>1 DEF HasCard
  <2>2. CASE ~HasCard(known)
    <3>1. ~(i \in 1..n)
      BY <1>5, <1>12, <2>2
    <3>2. i \in new
      BY <1>1, <1>2, <3>1
    <3>3. i \in named
      BY <1>12, <3>2
    <3>4. CASE \E j \in new : file[j].kind = "plan"
      BY <1>7, <1>11, <3>4
    <3>5. CASE \A j \in new : file[j].kind # "plan"
      <4>1. slug \in named
        BY <1>6, <2>2, <3>3, <3>5
      <4>2. slug \in new
        BY <4>1
      <4> QED
        BY <1>7, <1>11, <4>2
    <3> QED
      BY <3>4, <3>5
  <2> QED
    BY <2>1, <2>2
<1>13. Capped(all) \in Seq(Shown) /\ (HasCard(all) => HasCard(Capped(all)))
  BY <1>10, CappedFact
<1> QED
  BY <1>4, <1>12, <1>13

(* The transcript may grow under what a conversation knows of it. *)
LEMMA ToldStays ==
    ASSUME UsageInv, Grows, NEW v, NEW from, Told(v, from), Carded(v)
    PROVE  Told(v, from)' /\ Carded(v)'
<1>1. /\ Len(file) \in Nat /\ Len(file') \in Nat /\ Len(file) <= Len(file')
      /\ \A i \in 1..Len(file) : file'[i] = file[i]
  BY DEF UsageInv, Grows
<1>2. v \in Seq(Shown) /\ v \in Seq(Shown')
  <2>1. Shown \subseteq Shown'
    BY <1>1 DEF Shown
  <2> QED
    BY <2>1 DEF Told
<1>3. Told(v, from)'
  <2>1. PICK n \in 0..Len(file) : from = 2 * n /\ \A i \in 1..n : file[i].kind # "text" => HasCard(v)
    BY DEF Told
  <2>2. n \in 0..Len(file') /\ \A i \in 1..n : i \in 1..Len(file)
    BY <1>1
  <2>3. \A i \in 1..n : file'[i].kind # "text" => HasCard(v)
    BY <1>1, <2>1, <2>2
  <2> QED
    BY <1>2, <2>1, <2>2, <2>3 DEF Told, HasCard
<1>4. ASSUME NEW i \in 1..Len(file'), file'[i].kind # "text", NEW e \in ToSet(v), e[2] >= i
      PROVE  HasCard(v)
  <2>1. e \in Shown
    BY <1>2 DEF ToSet
  <2>2. e[2] \in 1..Len(file)
    BY <2>1 DEF Shown
  <2>3. i \in 1..Len(file)
    BY <1>1, <1>4, <2>2
  <2> QED
    BY <1>1, <1>4, <2>3 DEF Carded
<1> QED
  BY <1>3, <1>4 DEF Carded, HasCard

LEMMA CardsStay ==
    ASSUME UsageInv, CardInv, Grows, UNCHANGED <<rewrites, viewVars>>
    PROVE  CardInv'
<1>1. view' = view /\ offset' = offset /\ loads' = loads
  BY DEF viewVars
<1>2. loads' = [s \in Slots |-> loads'[s]]
  BY <1>1 DEF CardInv
<1>3. ASSUME ~torn', rewrites' = 0
      PROVE  /\ (Told(view, offset) /\ Carded(view))'
             /\ \A s \in Slots : loads'[s].stage = "sized" =>
                  (Told(loads[s].prev, loads[s].from) /\ Carded(loads[s].prev) /\ Offset(loads[s].size))'
  <2>1. ~torn /\ rewrites = 0
    BY <1>3 DEF Grows
  <2>2. (Told(view, offset) /\ Carded(view))'
    <3> PICK v, o : v = view /\ o = offset
      OBVIOUS
    <3>1. Told(v, o) /\ Carded(v)
      BY <2>1 DEF CardInv
    <3>2. Told(v, o)' /\ Carded(v)'
      BY <3>1, ToldStays
    <3> QED
      BY <1>1, <3>2 DEF Told, Carded
  <2>3. ASSUME NEW s \in Slots, loads'[s].stage = "sized"
        PROVE  (Told(loads[s].prev, loads[s].from) /\ Carded(loads[s].prev) /\ Offset(loads[s].size))'
    <3> PICK l : l = loads[s]
      OBVIOUS
    <3>1. Told(l.prev, l.from) /\ Carded(l.prev) /\ Offset(l.size)
      BY <1>1, <2>1, <2>3 DEF CardInv
    <3>2. Told(l.prev, l.from)' /\ Carded(l.prev)' /\ Offset(l.size)'
      BY <3>1, ToldStays, OffsetStays
    <3> QED
      BY <1>1, <3>2 DEF Told, Carded, Offset
  <2> QED
    BY <2>2, <2>3
<1> QED
  BY <1>2, <1>3 DEF CardInv

LEMMA WritesKeepCards == ASSUME UsageInv, CardInv, Writes PROVE CardInv'
<1>1. CASE Rewrite
  <2>1. rewrites' = 1 /\ loads' = loads
    BY <1>1 DEF Rewrite, viewVars
  <2> QED
    BY <2>1 DEF CardInv
<1>2. CASE AppendHalf
  <2>1. Grows /\ UNCHANGED <<rewrites, viewVars>>
    BY <1>2 DEF AppendHalf, Grows
  <2> QED
    BY <2>1, CardsStay
<1>3. ASSUME NEW kind \in Kinds \cup {"text"}, NEW msg \in Nat, Append1(kind, msg) PROVE CardInv'
  <2>1. [kind |-> kind, msg |-> msg] \in Line
    BY DEF Line
  <2>2. Grows /\ UNCHANGED <<rewrites, viewVars>>
    BY <1>3, <2>1 DEF Append1, Grows
  <2> QED
    BY <2>2, CardsStay
<1>4. LastMessage \in Nat
  BY LastMessageFact
<1> QED
  BY <1>1, <1>2, <1>3, <1>4 DEF Writes

LEMMA AsksKeepCards ==
    ASSUME UsageInv, CardInv, NEW s \in Slots, loadConversation(s) \/ StateUpdated(s)
    PROVE  CardInv'
<1> PICK o : o = IF loadConversation(s) THEN offset ELSE 0
  OBVIOUS
<1>1. /\ UNCHANGED <<file, half, rewrites, view>> /\ torn' = (torn \/ half)
      /\ \/ o = offset /\ offset' = offset /\ loads' = [loads EXCEPT ![s] = Load(offset)]
         \/ o = 0 /\ offset' = 0 /\ loads' = [loads EXCEPT ![s] = Load(0)]
  BY DEF loadConversation, StateUpdated, fileVars
<1>2. loads' = [loads EXCEPT ![s] = Load(o)] /\ offset' = o
  BY <1>1
<1>3. loads' = [r \in Slots |-> loads'[r]]
  BY <1>2 DEF CardInv
<1>4. ASSUME ~torn', rewrites' = 0
      PROVE  /\ (Told(view, offset) /\ Carded(view))'
             /\ \A r \in Slots : loads'[r].stage = "sized" =>
                  (Told(loads[r].prev, loads[r].from) /\ Carded(loads[r].prev) /\ Offset(loads[r].size))'
  <2>1. ~torn /\ ~half /\ rewrites = 0
    BY <1>1, <1>4
  <2>2. Told(view, offset) /\ Carded(view)
    BY <2>1 DEF CardInv
  <2>3. Told(view, 0)
    <3>1. 0 \in 0..Len(file) /\ 0 = 2 * 0
      BY DEF UsageInv
    <3> QED
      BY <2>2, <3>1 DEF Told
  <2>4. Told(view, o)
    BY <1>1, <2>2, <2>3
  <2>5. ASSUME NEW v, NEW from, Told(v, from), Carded(v) PROVE Told(v, from)' /\ Carded(v)'
    <3>1. Grows
      BY <1>1 DEF Grows
    <3> QED
      BY <2>5, <3>1, ToldStays
  <2>6. ASSUME NEW size, Offset(size) PROVE Offset(size)'
    <3>1. Grows
      BY <1>1 DEF Grows
    <3> QED
      BY <2>6, <3>1, OffsetStays
  <2>7. (Told(view, offset) /\ Carded(view))'
    <3> PICK v : v = view
      OBVIOUS
    <3>1. Told(v, o)' /\ Carded(v)'
      BY <2>2, <2>4, <2>5
    <3> QED
      BY <1>1, <1>2, <3>1 DEF Told, Carded
  <2>8. ASSUME NEW r \in Slots, loads'[r].stage = "sized"
        PROVE  (Told(loads[r].prev, loads[r].from) /\ Carded(loads[r].prev) /\ Offset(loads[r].size))'
    <3> PICK l : l = loads'[r]
      OBVIOUS
    <3>1. CASE r = s
      <4>1. l = Load(o)
        BY <1>2, <3>1 DEF CardInv
      <4>2. l.prev = view /\ l.from \in {o, 0} /\ l.size = Size
        BY <4>1 DEF Load
      <4>3. Told(l.prev, l.from) /\ Carded(l.prev)
        BY <2>2, <2>3, <2>4, <4>2
      <4>4. Offset(l.size)
        BY <2>1, <4>2, SizeIsOffset
      <4> QED
        BY <2>5, <2>6, <4>3, <4>4 DEF Told, Carded, Offset
    <3>2. CASE r # s
      <4>1. l = loads[r]
        BY <1>2, <3>2 DEF CardInv
      <4>2. Told(l.prev, l.from) /\ Carded(l.prev) /\ Offset(l.size)
        BY <2>1, <2>8, <4>1 DEF CardInv
      <4> QED
        BY <2>5, <2>6, <4>2 DEF Told, Carded, Offset
    <3> QED
      BY <3>1, <3>2
  <2> QED
    BY <2>7, <2>8
<1> QED
  BY <1>3, <1>4 DEF CardInv

LEMMA AnswerKeepsCards ==
    ASSUME UsageInv, CardInv, NEW s \in Slots, ConversationLoaded(s)
    PROVE  CardInv'
<1> PICK l, v : /\ l = loads[s]
                /\ v = IF l.from > 0 /\ l.from = l.size THEN l.prev ELSE ReadConversationIncremental(l.prev, l.from)
  OBVIOUS
<1>1. /\ UNCHANGED <<file, half, rewrites, torn>> /\ l.stage = "sized"
      /\ view' = v /\ offset' = l.size /\ loads' = [loads EXCEPT ![s] = Idle]
  BY DEF ConversationLoaded, fileVars
<1>2. loads' = [r \in Slots |-> loads'[r]]
  BY <1>1 DEF CardInv
<1>3. ASSUME ~torn, rewrites = 0 PROVE Told(v, l.size) /\ Carded(v)
  <2>1. Told(l.prev, l.from) /\ Carded(l.prev) /\ Offset(l.size)
    BY <1>1, <1>3 DEF CardInv
  <2>2. CASE l.from > 0 /\ l.from = l.size
    BY <2>1, <2>2
  <2>3. CASE ~(l.from > 0 /\ l.from = l.size)
    <3>1. PICK n \in 0..Len(file) :
             l.from = 2 * n /\ \A i \in 1..n : file[i].kind # "text" => HasCard(l.prev)
      BY <2>1 DEF Told
    <3>2. l.prev \in Seq(Shown) /\ file \in Seq(Line)
      BY <2>1 DEF Told, UsageInv
    <3>3. v = ReadConversationIncremental(l.prev, 2 * n)
      BY <2>3, <3>1
    <3>4. v \in Seq(Shown) /\ \A i \in 1..Len(file) : file[i].kind # "text" => HasCard(v)
      BY <3>1, <3>2, <3>3, ReadFact
    <3>5. PICK k \in 0..Len(file) : l.size = 2 * k
      BY <1>3, <2>1 DEF Offset
    <3>6. \A i \in 1..k : i \in 1..Len(file)
      BY <3>2, <3>5
    <3> QED
      BY <3>4, <3>5, <3>6 DEF Told, Carded
  <2> QED
    BY <2>2, <2>3
<1>4. ASSUME NEW r \in Slots, loads'[r].stage = "sized" PROVE loads'[r] = loads[r]
  BY <1>1, <1>4 DEF CardInv, Idle
<1>5. ASSUME ~torn, rewrites = 0
      PROVE  (Told(view, offset) /\ Carded(view))'
  BY <1>1, <1>3, <1>5 DEF Told, Carded, Shown
<1>6. ASSUME ~torn, rewrites = 0, NEW r \in Slots, loads'[r].stage = "sized"
      PROVE  (Told(loads[r].prev, loads[r].from) /\ Carded(loads[r].prev) /\ Offset(loads[r].size))'
  <2> PICK q : q = loads[r]
    OBVIOUS
  <2>1. Told(q.prev, q.from) /\ Carded(q.prev) /\ Offset(q.size)
    BY <1>4, <1>6 DEF CardInv
  <2>2. loads'[r] = q
    BY <1>4, <1>6
  <2> QED
    BY <1>1, <2>1, <2>2 DEF Told, Carded, Offset, Shown
<1> QED
  BY <1>1, <1>2, <1>5, <1>6 DEF CardInv

LEMMA InitCards == Init => CardInv
<1> SUFFICES ASSUME Init PROVE CardInv
  OBVIOUS
<1>1. file = <<>> /\ view = <<>> /\ offset = 0 /\ loads = [s \in Slots |-> Idle]
  BY DEF Init
<1>2. Told(view, offset)
  <2>1. <<>> \in Seq(Shown)
    OBVIOUS
  <2>2. 0 \in 0..Len(file) /\ 0 = 2 * 0
    BY <1>1
  <2> QED
    BY <1>1, <2>1, <2>2 DEF Told
<1>3. Carded(view)
  BY <1>1 DEF Carded
<1>4. \A s \in Slots : loads[s].stage # "sized"
  BY <1>1 DEF Idle
<1> QED
  BY <1>1, <1>2, <1>3, <1>4 DEF CardInv

LEMMA CardStep == UsageInv /\ CardInv /\ [Next]_vars => CardInv'
<1> SUFFICES ASSUME UsageInv, CardInv, [Next]_vars PROVE CardInv'
  OBVIOUS
<1>1. ASSUME NEW s \in Slots, loadUsage(s) \/ ReadUsage(s) \/ PersistStep(s) PROVE CardInv'
  <2>1. UNCHANGED <<file, rewrites, viewVars>> /\ torn' \in {torn, torn \/ half}
    BY <1>1 DEF loadUsage, ReadUsage, PersistStep, PersistRead, UpsertUsage, fileVars
  <2>2. torn => torn'
    BY <2>1, Zenon
  <2> QED
    BY <2>1, <2>2, CardsStay DEF Grows
<1>2. CASE Midnight \/ UNCHANGED vars
  <2>1. UNCHANGED <<file, rewrites, torn, viewVars>>
    BY <1>2 DEF Midnight, vars, fileVars, viewVars
  <2> QED
    BY <2>1, CardsStay DEF Grows
<1>3. ASSUME NEW s \in Slots, Asks(s) \/ ConversationLoaded(s) \/ ReadUsage(s) \/ PersistStep(s) PROVE CardInv'
  BY <1>1, <1>3, AsksKeepCards, AnswerKeepsCards DEF Asks
<1> QED
  BY <1>2, <1>3, WritesKeepCards DEF Next

(* The card of a plan stays in the conversation however often it is capped *)
(* and whether it is read again or further (ReadConversationIncremental),  *)
(* for transcripts of any length, any limit and any reads in flight.       *)
THEOREM CardsKept == Spec => []PlanCardKept
<1>1. CardInv => PlanCardKept
  BY DEF CardInv, PlanCardKept, Carded, HasCard
<1> QED
  BY InitUsage, UsageStep, InitCards, CardStep, <1>1, PTL DEF Spec

-----------------------------------------------------------------------------
(* The scans of PendingTools.  What its history says of the transcript.    *)

AskLine(i) == Pending!IsCall(i, {"ask"})

(* The last question, and nobody replied. *)
Waiting(i) ==
    /\ AskLine(i)
    /\ \A j \in Pending!Lines : j > i => ~AskLine(j) /\ ~Pending!Replied(i, j)

(* The last question, and no human wrote since. *)
Unheard(i) ==
    /\ AskLine(i)
    /\ \A j \in Pending!Lines : j > i => ~AskLine(j) /\ ~Pending!isHumanUserEntry(j)

ClaudeLine(line) ==
    \/ line.by = "assistant" /\ line.tools \in Pending!Messages
    \/ line.by = "user"

CodexLine(line) ==
    /\ line = Pending!Codex(line.by, line.id)
    /\ line.by \in {"plan", "ask", "output", "user"}

PendingInv ==
    /\ harness \in {"claude", "codex"} /\ answered \in BOOLEAN /\ misled \in BOOLEAN
    /\ \E S : log \in Seq(S)
    /\ harness = "claude" =>
          /\ \A i \in Pending!Lines : ClaudeLine(log[i])
          /\ ~misled => /\ asked = {i \in Pending!Lines : Waiting(i)}
                        /\ \A i \in Pending!Lines : Unheard(i) => i \in asked \/ answered
    /\ harness = "codex" =>
          /\ \A i \in Pending!Lines :
                /\ CodexLine(log[i])
                /\ log[i].by = "output" => log[i].id \in 0..Len(log)
          /\ asked = {i \in Pending!Kind({"ask"}) : ~Pending!Output(i)}

(* The last line of a set of lines. *)
LEMMA LastFact ==
    ASSUME NEW n \in Nat, NEW S \in SUBSET (1..n), S # {}
    PROVE  /\ Pending!LastOf(S) \in S /\ \A i \in S : i <= Pending!LastOf(S)
           /\ Pending!LastOf(S) # None
<1> DEFINE R == OpToRel(<, Nat)
           T == {k \in 0..n : n - k \in S}
<1>1. IsWellFoundedOn(R, Nat)
  BY NatLessThanWellFounded
<1>2. \A k, m \in Nat : m < k => <<m, k>> \in R
  BY DEF OpToRel
<1> HIDE DEF R
<1>3. T \subseteq Nat /\ T # {}
  <2>1. PICK i : i \in S
    OBVIOUS
  <2>2. i \in 1..n
    BY <2>1
  <2>3. n - i \in 0..n /\ n - (n - i) = i
    BY <2>2
  <2>4. n - i \in T
    BY <2>1, <2>3
  <2>5. T \subseteq Nat
    OBVIOUS
  <2> QED
    BY <2>4, <2>5
<1>4. PICK k \in T : \A m \in T : ~(<<m, k>> \in R)
  BY <1>1, <1>3, WFMin
<1>5. \A m \in T : ~(m < k)
  BY <1>2, <1>3, <1>4
<1>6. \A i \in S : i <= n - k
  <2> TAKE i \in S
  <2>1. i \in 1..n /\ n - i \in 0..n /\ n - (n - i) = i
    OBVIOUS
  <2>2. n - i \in T
    BY <2>1
  <2> QED
    BY <1>5, <2>1, <2>2
<1>7. \E i \in S : \A j \in S : i >= j
  BY <1>6
<1>8. Pending!LastOf(S) = CHOOSE i \in S : \A j \in S : i >= j
  BY DEF Pending!LastOf, Pending!Max
<1>9. Pending!LastOf(S) \in S /\ \A j \in S : Pending!LastOf(S) >= j
  BY <1>7, <1>8
<1> QED
  <2>1. Pending!LastOf(S) \in 1..n
    BY <1>9
  <2>2. Pending!LastOf(S) \in Nat /\ \A i \in S : i \in Nat
    BY <2>1
  <2>3. Pending!LastOf(S) # None
    BY <2>2, PendingAssumption DEF Pending!LinesCount
  <2> QED
    BY <1>9, <2>2, <2>3

(* Nobody replied to a call. *)
Unanswered(i) == \A j \in Pending!Lines : j > i => ~Pending!Replied(i, j)

Asks1 == {i \in Pending!Lines : AskLine(i)}

LEMMA AskedFact ==
    ASSUME PendingInv, harness = "claude", ~misled
    PROVE  /\ Asks1 = {} => asked = {}
           /\ Asks1 # {} => LET i == Pending!LastOf(Asks1)
                            IN  asked = IF Unanswered(i) THEN {i} ELSE {}
<1>1. Len(log) \in Nat /\ Pending!Lines = 1..Len(log)
  BY DEF PendingInv, Pending!Lines
<1>2. asked = {i \in Pending!Lines : Waiting(i)}
  BY DEF PendingInv
<1>3. ASSUME Asks1 = {} PROVE asked = {}
  BY <1>2, <1>3 DEF Asks1, Waiting
<1>4. ASSUME Asks1 # {}
      PROVE  LET i == Pending!LastOf(Asks1) IN asked = IF Unanswered(i) THEN {i} ELSE {}
  <2> PICK i : i = Pending!LastOf(Asks1)
    OBVIOUS
  <2>1. Asks1 \in SUBSET (1..Len(log))
    BY <1>1 DEF Asks1
  <2>2. i \in Asks1 /\ \A j \in Asks1 : j <= i
    BY <1>1, <1>4, <2>1, LastFact
  <2>3. i \in Pending!Lines /\ AskLine(i)
    BY <2>2 DEF Asks1
  <2>4. \A j \in Pending!Lines : j > i => ~AskLine(j)
    BY <1>1, <2>2, <2>3 DEF Asks1
  <2>5. Waiting(i) <=> Unanswered(i)
    BY <2>3, <2>4 DEF Waiting, Unanswered
  <2>6. \A j \in Pending!Lines : Waiting(j) => j = i
    BY <1>1, <2>2, <2>3 DEF Waiting, Asks1
  <2> QED
    BY <1>2, <2>3, <2>5, <2>6
<1> QED
  BY <1>3, <1>4

(* The card is that of the question that waits, and a scan of the last     *)
(* lines finds it if it is among them.                                     *)
LEMMA CardFact ==
    ASSUME PendingInv, harness = "claude", ~misled
    PROVE  /\ Pending!Card = Pending!LastOf(asked)
           /\ Pending!hasPendingToolCall("ask") <=> Pending!Card # None /\ Pending!Card \in Pending!Tail32
<1>1. Len(log) \in Nat /\ Pending!Lines = 1..Len(log) /\ Window \in Nat
  BY PendingAssumption DEF PendingInv, Pending!Lines, Pending!LinesCount
<1>2. /\ Pending!Tail32 \subseteq Pending!Lines
      /\ \A i \in Pending!Tail32, j \in Pending!Lines : j > i => j \in Pending!Tail32
  BY <1>1 DEF Pending!Tail32
<1> DEFINE Tails == {j \in Pending!Tail32 : AskLine(j)}
<1>3. Pending!LastOf({}) = None
  BY DEF Pending!LastOf
<1>4. Pending!Card = Pending!Open(Pending!Lines, "ask")
  BY DEF Pending!Card, Pending!readPendingQuestionClaude
<1>5. Pending!Card = LET i == Pending!LastOf(Asks1)
                     IN  IF i # None /\ ~Unanswered(i) THEN None ELSE i
  BY <1>4 DEF Pending!Open, Asks1, AskLine, Unanswered
<1>6. Pending!Open(Pending!Tail32, "ask") =
         LET i == Pending!LastOf(Tails)
         IN  IF i # None /\ \E j \in Pending!Tail32 : j > i /\ Pending!Replied(i, j) THEN None ELSE i
  BY DEF Pending!Open, AskLine
<1>7. Pending!hasPendingToolCall("ask") <=> Pending!Open(Pending!Tail32, "ask") # None
  BY DEF Pending!hasPendingToolCall
<1>8. CASE Asks1 = {}
  <2>1. asked = {} /\ Tails = {}
    BY <1>2, <1>8, AskedFact DEF Asks1
  <2> QED
    BY <1>3, <1>5, <1>6, <1>7, <1>8, <2>1
<1>9. CASE Asks1 # {}
  <2> PICK i : i = Pending!LastOf(Asks1)
    OBVIOUS
  <2>1. Asks1 \in SUBSET (1..Len(log))
    BY <1>1 DEF Asks1
  <2>2. i \in Asks1 /\ (\A j \in Asks1 : j <= i) /\ i # None
    BY <1>1, <1>9, <2>1, LastFact
  <2>3. asked = IF Unanswered(i) THEN {i} ELSE {}
    BY <1>9, AskedFact
  <2>4. Pending!LastOf({i}) = i
    <3>1. {i} \in SUBSET (1..Len(log)) /\ {i} # {}
      BY <2>1, <2>2
    <3> QED
      BY <1>1, <3>1, LastFact
  <2>5. Pending!Card = Pending!LastOf(asked)
    BY <1>3, <1>5, <2>2, <2>3, <2>4
  <2>6. Pending!Card = IF Unanswered(i) THEN i ELSE None
    BY <1>5, <2>2
  <2>7. CASE i \in Pending!Tail32
    <3>1. Tails \in SUBSET (1..Len(log)) /\ Tails # {}
      BY <1>1, <1>2, <2>2, <2>7 DEF Asks1
    <3> PICK k : k = Pending!LastOf(Tails)
      OBVIOUS
    <3>2. k \in Tails /\ (\A j \in Tails : j <= k) /\ k # None
      BY <1>1, <3>1, LastFact
    <3>3. k \in Asks1 /\ i \in Tails /\ k \in Int /\ i \in Int
      BY <1>1, <1>2, <2>2, <2>7, <3>2 DEF Asks1
    <3>4. k = i
      <4>1. k <= i /\ i <= k
        BY <2>2, <3>2, <3>3
      <4> QED
        BY <3>3, <4>1
    <3>5. Pending!Open(Pending!Tail32, "ask") = IF Unanswered(i) THEN i ELSE None
      BY <1>2, <1>6, <2>2, <2>7, <3>4 DEF Unanswered
    <3> QED
      BY <1>7, <2>2, <2>5, <2>6, <2>7, <3>5
  <2>8. CASE i \notin Pending!Tail32
    <3>1. Tails = {}
      <4> SUFFICES ASSUME NEW j \in Tails PROVE FALSE
        OBVIOUS
      <4>1. j \in Asks1 /\ j \in Pending!Tail32
        BY <1>2 DEF Asks1
      <4>2. j <= i /\ i \in Pending!Lines /\ j # i /\ i \in Int /\ j \in Int
        BY <1>1, <1>2, <2>2, <2>8, <4>1 DEF Asks1
      <4>3. i > j
        BY <4>2
      <4> QED
        BY <1>2, <2>8, <4>1, <4>2, <4>3
    <3> QED
      BY <1>3, <1>6, <1>7, <2>2, <2>5, <2>6, <2>8, <3>1
  <2> QED
    BY <2>7, <2>8
<1> QED
  BY <1>8, <1>9

(* A message whose last blocking tool is not a plan asks. *)
LEMMA ToolsFact ==
    ASSUME NEW tools \in Pending!Messages, \E t \in Pending!ToSet(tools) : t \in {"plan", "ask"},
           Pending!LastBlocking(tools) # "plan"
    PROVE  \E t \in Pending!ToSet(tools) : t \in {"ask"}
<1>1. tools # <<>> /\ tools # <<"other">>
  BY DEF Pending!ToSet
<1>2. tools # <<"plan">>
  <2> SUFFICES ASSUME tools = <<"plan">> PROVE FALSE
    OBVIOUS
  <2>1. {n \in DOMAIN tools : tools[n] # "other"} = {1} /\ tools[1] = "plan"
    OBVIOUS
  <2>2. Pending!Max({1}) = 1
    BY DEF Pending!Max
  <2>3. Pending!LastBlocking(tools) = tools[Pending!Max({1})]
    BY <2>1 DEF Pending!LastBlocking
  <2> QED
    BY <2>1, <2>2, <2>3
<1>3. tools = <<"ask">> \/ tools = <<"plan", "ask">>
  BY <1>1, <1>2 DEF Pending!Messages
<1>4. CASE tools = <<"ask">>
  <2>1. 1 \in DOMAIN tools /\ tools[1] = "ask"
    BY <1>4
  <2> QED
    BY <2>1 DEF Pending!ToSet
<1>5. CASE tools = <<"plan", "ask">>
  <2>1. 2 \in DOMAIN tools /\ tools[2] = "ask"
    BY <1>5
  <2> QED
    BY <2>1 DEF Pending!ToSet
<1> QED
  BY <1>3, <1>4, <1>5

LEMMA BlockingFact ==
    ASSUME PendingInv, harness = "claude", ~misled
    PROVE  /\ Pending!Blocking = "question" => Pending!Card # None \/ answered
           /\ Pending!Card # None => Pending!Blocking # ""
<1> DEFINE B == {j \in Pending!Lines : Pending!IsCall(j, {"plan", "ask"})}
<1> PICK i : i = Pending!LastOf(B)
  OBVIOUS
<1>1. Len(log) \in Nat /\ Pending!Lines = 1..Len(log)
  BY DEF PendingInv, Pending!Lines
<1>2. Pending!Blocking = IF i = None \/ \E j \in Pending!Lines : j > i /\ Pending!isHumanUserEntry(j) THEN ""
                         ELSE IF Pending!LastBlocking(log[i].tools) = "plan" THEN "plan" ELSE "question"
  BY DEF Pending!Blocking, Pending!LastPendingBlockingTool
<1>3. B # {} => i \in B /\ (\A j \in B : j <= i) /\ i # None
  <2>1. B \in SUBSET (1..Len(log))
    BY <1>1
  <2> QED
    BY <1>1, <2>1, LastFact
<1>4. B = {} => i = None
  BY DEF Pending!LastOf
<1>5. Asks1 \subseteq B /\ Asks1 \in SUBSET (1..Len(log))
  BY <1>1 DEF Asks1, AskLine, Pending!IsCall
<1>6. ASSUME Pending!Blocking = "question" PROVE Pending!Card # None \/ answered
  <2>1. /\ i # None /\ Pending!LastBlocking(log[i].tools) # "plan"
        /\ \A j \in Pending!Lines : j > i => ~Pending!isHumanUserEntry(j)
    BY <1>2, <1>6
  <2>2. i \in B
    BY <1>3, <1>4, <2>1
  <2>3. log[i].by = "assistant" /\ \E t \in Pending!ToSet(log[i].tools) : t \in {"plan", "ask"}
    BY <2>2 DEF Pending!IsCall
  <2>4. log[i].tools \in Pending!Messages
    BY <2>2, <2>3 DEF PendingInv, ClaudeLine
  <2>5. AskLine(i)
    BY <2>1, <2>3, <2>4, ToolsFact DEF AskLine, Pending!IsCall
  <2>6. \A j \in Pending!Lines : j > i => ~AskLine(j)
    BY <1>1, <1>3, <1>5, <2>2 DEF Asks1
  <2>7. i \in asked \/ answered
    BY <2>1, <2>2, <2>5, <2>6 DEF PendingInv, Unheard
  <2>8. ASSUME i \in asked PROVE Pending!LastOf(asked) # None
    <3>1. asked \in SUBSET (1..Len(log)) /\ asked # {}
      BY <1>1, <2>8 DEF PendingInv
    <3> QED
      BY <1>1, <3>1, LastFact
  <2> QED
    BY <2>7, <2>8, CardFact
<1>7. ASSUME Pending!Card # None PROVE Pending!Blocking # ""
  <2>1. Pending!LastOf(asked) # None
    BY <1>7, CardFact
  <2>2. asked # {}
    BY <2>1 DEF Pending!LastOf
  <2> PICK k : k = Pending!LastOf(Asks1)
    OBVIOUS
  <2>3. Asks1 # {} /\ Unanswered(k)
    BY <2>2, AskedFact
  <2>4. k \in Asks1
    BY <1>1, <1>5, <2>3, LastFact
  <2>5. i \in B /\ k <= i /\ i # None /\ i \in 1..Len(log) /\ k \in 1..Len(log)
    BY <1>1, <1>3, <1>5, <2>4
  <2>6. \A j \in Pending!Lines : j > i => j > k
    BY <1>1, <2>5
  <2>7. ~\E j \in Pending!Lines : j > i /\ Pending!isHumanUserEntry(j)
    BY <2>3, <2>6 DEF Unanswered, Pending!Replied
  <2> QED
    BY <1>2, <2>5, <2>7
<1> QED
  BY <1>6, <1>7

LEMMA CodexAgrees ==
    ASSUME PendingInv, harness = "codex"
    PROVE  /\ Pending!Card = Pending!LastOf(asked)
           /\ Pending!Blocking = "question" => Pending!Card # None
<1>1. Len(log) \in Nat /\ Pending!Lines = 1..Len(log)
  BY DEF PendingInv, Pending!Lines
<1>2. Pending!Card = Pending!LastOf(asked)
  BY DEF Pending!Card, Pending!ReadPendingQuestionCodex, PendingInv
<1>3. ASSUME Pending!Blocking = "question" PROVE Pending!Card # None
  <2> PICK i : i = Pending!LastOf(Pending!Kind({"plan", "ask"}))
    OBVIOUS
  <2>1. i # None /\ ~Pending!Output(i) /\ log[i].by # "plan"
    BY <1>3 DEF Pending!Blocking, Pending!LastPendingBlockingToolCodex
  <2>2. Pending!Kind({"plan", "ask"}) # {}
    BY <2>1 DEF Pending!LastOf
  <2>3. Pending!Kind({"plan", "ask"}) \in SUBSET (1..Len(log))
    BY <1>1 DEF Pending!Kind
  <2>4. i \in Pending!Kind({"plan", "ask"})
    BY <1>1, <2>2, <2>3, LastFact
  <2>5. i \in asked
    BY <2>1, <2>4 DEF PendingInv, Pending!Kind
  <2>6. asked \in SUBSET (1..Len(log)) /\ asked # {}
    BY <1>1, <2>5 DEF PendingInv, Pending!Kind
  <2> QED
    BY <1>1, <1>2, <2>6, LastFact
<1> QED
  BY <1>2, <1>3

LEMMA PendingAgrees == PendingInv => StateAndCardAgree
<1> SUFFICES ASSUME PendingInv, ~misled PROVE StateAndCardAgree
  BY DEF StateAndCardAgree, Pending!StateAndCardAgree
<1>1. CASE harness = "claude"
  BY <1>1, CardFact, BlockingFact DEF StateAndCardAgree, Pending!StateAndCardAgree
<1>2. CASE harness = "codex"
  BY <1>2, CodexAgrees DEF StateAndCardAgree, Pending!StateAndCardAgree
<1> QED
  BY <1>1, <1>2 DEF PendingInv

-----------------------------------------------------------------------------
(* A line more.                                                            *)
LEMMA WriteFact ==
    ASSUME PendingInv, NEW line, Pending!Write(line)
    PROVE  /\ Len(log) \in Nat /\ Pending!Next1 = Len(log) + 1
           /\ Pending!Lines = 1..Len(log) /\ Pending!Lines' = 1..(Len(log) + 1)
           /\ Len(log') = Len(log) + 1 /\ log'[Len(log) + 1] = line
           /\ \A i \in Pending!Lines : log'[i] = log[i]
           /\ (\E S : log' \in Seq(S)) /\ ~misled /\ harness' = harness
<1>1. PICK S : log \in Seq(S)
  BY DEF PendingInv
<1>2. log' = Append(log, line) /\ ~misled /\ harness' = harness
  BY DEF Pending!Write
<1>3. log \in Seq(S \cup {line}) /\ line \in S \cup {line}
  BY <1>1
<1>4. log' \in Seq(S \cup {line})
  BY <1>2, <1>3
<1>5. /\ Len(log) \in Nat /\ Len(log') = Len(log) + 1 /\ log'[Len(log) + 1] = line
      /\ \A i \in 1..Len(log) : log'[i] = log[i]
  BY <1>2, <1>3
<1> QED
  BY <1>2, <1>4, <1>5 DEF Pending!Lines, Pending!Next1

(* Which questions wait, after a line more. *)
LEMMA WaitsFact ==
    ASSUME PendingInv, NEW line, Pending!Write(line), NEW n, n = Len(log) + 1
    PROVE  /\ \A i \in Pending!Lines :
                 /\ AskLine(i)' <=> AskLine(i)
                 /\ Waiting(i)' <=> Waiting(i) /\ ~AskLine(n)' /\ ~Pending!Replied(i, n)'
                 /\ Unheard(i)' <=> Unheard(i) /\ ~AskLine(n)' /\ ~Pending!isHumanUserEntry(n)'
           /\ Waiting(n)' <=> AskLine(n)'
           /\ Unheard(n)' <=> AskLine(n)'
<1>1. /\ n \in Nat /\ Pending!Lines = 1..(n - 1) /\ Pending!Lines' = 1..n
      /\ \A i \in Pending!Lines : log'[i] = log[i]
  BY WriteFact
<1>2. /\ \A i \in Pending!Lines : i \in Pending!Lines' /\ n > i
      /\ \A i \in Pending!Lines' : i \in Pending!Lines \/ i = n
      /\ n \in Pending!Lines' /\ \A i \in Pending!Lines' : ~(i > n)
  BY <1>1
<1>3. \A i \in Pending!Lines : (AskLine(i)' <=> AskLine(i)) /\ Pending!toolUseID(i)' = Pending!toolUseID(i)
  BY <1>1 DEF AskLine, Pending!IsCall, Pending!toolUseID
<1>4. \A i, j \in Pending!Lines :
         /\ Pending!isHumanUserEntry(j)' <=> Pending!isHumanUserEntry(j)
         /\ Pending!Replied(i, j)' <=> Pending!Replied(i, j)
  BY <1>1, <1>3 DEF Pending!isHumanUserEntry, Pending!Replied, Pending!hasToolResultFor
<1>5. ASSUME NEW i \in Pending!Lines
      PROVE  /\ Waiting(i)' <=> Waiting(i) /\ ~AskLine(n)' /\ ~Pending!Replied(i, n)'
             /\ Unheard(i)' <=> Unheard(i) /\ ~AskLine(n)' /\ ~Pending!isHumanUserEntry(n)'
  BY <1>2, <1>3, <1>4 DEF Waiting, Unheard
<1>6. (Waiting(n)' <=> AskLine(n)') /\ (Unheard(n)' <=> AskLine(n)')
  BY <1>2 DEF Waiting, Unheard
<1> QED
  BY <1>3, <1>5, <1>6

LEMMA SayKeeps ==
    ASSUME PendingInv, NEW tools \in Pending!Messages, Pending!Say(tools) PROVE PendingInv'
<1> DEFINE line == Pending!Assistant(tools)
<1> PICK n : n = Len(log) + 1
  OBVIOUS
<1>1. /\ harness = "claude" /\ Pending!Write(line) /\ misled' = misled
      /\ IF "ask" \in Pending!ToSet(tools) THEN asked' = {n} /\ answered' = FALSE
         ELSE asked' = asked /\ answered' = answered
  BY WriteFact DEF Pending!Say
<1>2. line.by = "assistant" /\ line.tools = tools
  BY DEF Pending!Assistant
<1> HIDE DEF line
<1>3. /\ n \in Nat /\ Pending!Lines = 1..(n - 1) /\ Pending!Lines' = 1..n /\ log'[n] = line
      /\ (\A i \in Pending!Lines : log'[i] = log[i]) /\ (\E S : log' \in Seq(S)) /\ ~misled /\ harness' = harness
  BY <1>1, WriteFact
<1>4. \A i \in Pending!Lines' : i \in Pending!Lines \/ i = n
  BY <1>3
<1>5. AskLine(n)' <=> "ask" \in Pending!ToSet(tools)
  BY <1>2, <1>3 DEF AskLine, Pending!IsCall
<1>6. ~Pending!isHumanUserEntry(n)' /\ \A i : ~Pending!Replied(i, n)'
  BY <1>2, <1>3 DEF Pending!isHumanUserEntry, Pending!Replied, Pending!hasToolResultFor
<1>7. \A i \in Pending!Lines' : ClaudeLine(log'[i])
  BY <1>1, <1>2, <1>3, <1>4 DEF ClaudeLine, PendingInv
<1>8. asked = {i \in Pending!Lines : Waiting(i)} /\ \A i \in Pending!Lines : Unheard(i) => i \in asked \/ answered
  BY <1>1, <1>3 DEF PendingInv
<1>9. asked' = {i \in Pending!Lines' : Waiting(i)'}
  BY <1>1, <1>3, <1>4, <1>5, <1>6, <1>8, WaitsFact
<1>10. \A i \in Pending!Lines' : Unheard(i)' => i \in asked' \/ answered'
  BY <1>1, <1>3, <1>4, <1>5, <1>6, <1>8, WaitsFact
<1>11. answered' \in BOOLEAN /\ misled' \in BOOLEAN
  BY <1>1 DEF PendingInv
<1> QED
  BY <1>1, <1>3, <1>7, <1>9, <1>10, <1>11 DEF PendingInv

LEMMA ReplyKeeps ==
    ASSUME PendingInv, NEW human \in BOOLEAN, NEW results, Pending!Reply(human, results) PROVE PendingInv'
<1> DEFINE line == Pending!User(human, results)
<1> PICK n : n = Len(log) + 1
  OBVIOUS
<1>1. /\ harness = "claude" /\ Pending!Write(line) /\ misled' = misled
      /\ asked' = IF human THEN {} ELSE asked \ results
      /\ answered' = (~human /\ (answered \/ asked \cap results # {}))
  BY DEF Pending!Reply
<1>2. line.by = "user" /\ line.human = human /\ line.results = results
  BY DEF Pending!User
<1> HIDE DEF line
<1>3. /\ n \in Nat /\ Pending!Lines = 1..(n - 1) /\ Pending!Lines' = 1..n /\ log'[n] = line
      /\ (\A i \in Pending!Lines : log'[i] = log[i]) /\ (\E S : log' \in Seq(S)) /\ ~misled /\ harness' = harness
  BY <1>1, WriteFact
<1>4. \A i \in Pending!Lines' : i \in Pending!Lines \/ i = n
  BY <1>3
<1>5. ~AskLine(n)' /\ (Pending!isHumanUserEntry(n)' <=> human)
  BY <1>2, <1>3 DEF AskLine, Pending!IsCall, Pending!isHumanUserEntry
<1>6. \A i \in Pending!Lines : AskLine(i) => (Pending!Replied(i, n)' <=> human \/ i \in results)
  <2> TAKE i \in Pending!Lines
  <2>1. AskLine(i) => Pending!toolUseID(i)' = i
    BY <1>3 DEF AskLine, Pending!toolUseID, Pending!IsCall
  <2> QED
    BY <1>2, <1>3, <1>5, <2>1 DEF Pending!Replied, Pending!hasToolResultFor
<1>7. \A i \in Pending!Lines' : ClaudeLine(log'[i])
  BY <1>1, <1>2, <1>3, <1>4 DEF ClaudeLine, PendingInv
<1>8. asked = {i \in Pending!Lines : Waiting(i)} /\ \A i \in Pending!Lines : Unheard(i) => i \in asked \/ answered
  BY <1>1, <1>3 DEF PendingInv
<1>9. \A i \in Pending!Lines : Waiting(i)' <=> Waiting(i) /\ ~human /\ i \notin results
  BY <1>1, <1>5, <1>6, WaitsFact DEF Waiting
<1>10. ~Waiting(n)' /\ ~Unheard(n)'
  BY <1>1, <1>5, WaitsFact
<1>11. asked' = {i \in Pending!Lines' : Waiting(i)'}
  BY <1>1, <1>3, <1>4, <1>8, <1>9, <1>10
<1>12. \A i \in Pending!Lines' : Unheard(i)' => i \in asked' \/ answered'
  BY <1>1, <1>4, <1>5, <1>8, <1>10, WaitsFact
<1>13. answered' \in BOOLEAN /\ misled' \in BOOLEAN
  BY <1>1 DEF PendingInv
<1> QED
  BY <1>1, <1>3, <1>7, <1>11, <1>12, <1>13 DEF PendingInv

(* A prompt that misleads the scan ends what is claimed. *)
LEMMA PromptKeeps == ASSUME PendingInv, Pending!SubagentPrompt PROVE PendingInv'
<1> DEFINE line == Pending!User(TRUE, {})
<1>1. harness = "claude" /\ Pending!Write(line) /\ misled' = TRUE /\ answered' = answered
  BY DEF Pending!SubagentPrompt
<1>2. line.by = "user"
  BY DEF Pending!User
<1> HIDE DEF line
<1>3. \A i \in Pending!Lines' : ClaudeLine(log'[i])
  <2>1. \A i \in Pending!Lines' : i \in Pending!Lines \/ i = Len(log) + 1
    BY <1>1, WriteFact
  <2> QED
    BY <1>1, <1>2, <2>1, WriteFact DEF ClaudeLine, PendingInv
<1> QED
  BY <1>1, <1>3, WriteFact DEF PendingInv

(* A line of codex: a question waits from its own line to its output. *)
LEMMA CodexKeeps ==
    ASSUME PendingInv, harness = "codex",
           NEW kind \in {"plan", "ask", "output", "user"}, NEW id,
           Pending!Write(Pending!Codex(kind, id)),
           kind = "output" => id \in 0..Len(log),
           asked' = IF kind = "ask" THEN asked \cup {Len(log) + 1}
                    ELSE IF kind = "output" THEN asked \ {id} ELSE asked,
           UNCHANGED <<answered, misled>>
    PROVE  PendingInv'
<1> DEFINE line == Pending!Codex(kind, id)
<1> PICK n : n = Len(log) + 1
  OBVIOUS
<1>1. line.by = kind /\ line.id = id /\ CodexLine(line)
  BY DEF Pending!Codex, CodexLine
<1>2. \A i : Pending!Codex("output", i).by = "output" /\ Pending!Codex("output", i).id = i
  BY DEF Pending!Codex
<1>3. \A i : line = Pending!Codex("output", i) <=> kind = "output" /\ id = i
  BY <1>1, <1>2 DEF CodexLine
<1> HIDE DEF line
<1>4. /\ n \in Nat /\ Pending!Lines = 1..(n - 1) /\ Pending!Lines' = 1..n /\ log'[n] = line
      /\ (\A i \in Pending!Lines : log'[i] = log[i]) /\ (\E S : log' \in Seq(S)) /\ harness' = harness
      /\ Len(log) = n - 1 /\ Len(log') = n
  BY WriteFact DEF line
<1>5. /\ \A i \in Pending!Lines' : i \in Pending!Lines \/ i = n
      /\ \A i \in Pending!Lines : i \in Pending!Lines' /\ i # n
      /\ n \in Pending!Lines'
  BY <1>4
<1>6. \A i \in Pending!Lines :
         CodexLine(log[i]) /\ (log[i].by = "output" => log[i].id \in 0..(n - 1))
  BY <1>4 DEF PendingInv
<1>7. \A i \in Pending!Lines' : CodexLine(log'[i]) /\ (log'[i].by = "output" => log'[i].id \in 0..n)
  <2>1. 0..(n - 1) \subseteq 0..n
    BY <1>4
  <2> QED
    BY <1>1, <1>4, <1>5, <1>6, <2>1
<1>8. \A i : Pending!Output(i)' <=> Pending!Output(i) \/ (kind = "output" /\ id = i)
  <2> TAKE i
  <2> PICK o : o = Pending!Codex("output", i)
    OBVIOUS
  <2>1. line = o <=> kind = "output" /\ id = i
    BY <1>3
  <2>2. Pending!Output(i) <=> \E j \in Pending!Lines : log[j] = o
    BY DEF Pending!Output
  <2>3. Pending!Output(i)' <=> \E j \in Pending!Lines' : log'[j] = o
    BY DEF Pending!Output, Pending!Codex
  <2> QED
    BY <1>4, <1>5, <2>1, <2>2, <2>3
<1>9. ~Pending!Output(n)'
  <2>1. n \notin 0..(n - 1)
    BY <1>4
  <2>2. ~Pending!Output(n)
    BY <1>2, <1>6, <2>1 DEF Pending!Output
  <2>3. ~(kind = "output" /\ id = n)
    BY <1>4, <2>1
  <2> QED
    BY <1>8, <2>2, <2>3
<1>10. /\ \A i \in Pending!Lines : i \in Pending!Kind({"ask"})' <=> i \in Pending!Kind({"ask"})
       /\ n \in Pending!Kind({"ask"})' <=> kind = "ask"
       /\ Pending!Kind({"ask"}) \subseteq Pending!Lines /\ Pending!Kind({"ask"})' \subseteq Pending!Lines'
  BY <1>1, <1>4, <1>5 DEF Pending!Kind
<1>11. asked = {i \in Pending!Kind({"ask"}) : ~Pending!Output(i)}
  BY DEF PendingInv
<1>12. asked' = {i \in Pending!Kind({"ask"})' : ~Pending!Output(i)'}
  <2>1. CASE kind = "ask"
    <3>1. asked' = asked \cup {n}
      BY <2>1
    <3> QED
      BY <1>5, <1>8, <1>9, <1>10, <1>11, <2>1, <3>1
  <2>2. CASE kind = "output"
    <3>1. asked' = asked \ {id}
      BY <2>2
    <3> QED
      BY <1>5, <1>8, <1>9, <1>10, <1>11, <2>2, <3>1
  <2>3. CASE kind \in {"plan", "user"}
    <3>1. asked' = asked
      BY <2>3
    <3> QED
      BY <1>5, <1>8, <1>9, <1>10, <1>11, <2>3, <3>1
  <2> QED
    BY <2>1, <2>2, <2>3
<1>13. answered' \in BOOLEAN /\ misled' \in BOOLEAN
  BY DEF PendingInv
<1> QED
  BY <1>4, <1>7, <1>12, <1>13 DEF PendingInv

LEMMA PendingStep == ASSUME PendingInv, [Pending!Next]_pendingVars PROVE PendingInv'
<1>1. asked \subseteq Pending!Lines \/ harness = "claude"
  BY DEF PendingInv, Pending!Kind
<1>2. CASE Pending!CodexPlan
  BY <1>2, CodexKeeps DEF Pending!CodexPlan
<1>3. CASE Pending!CodexAsk
  BY <1>3, CodexKeeps DEF Pending!CodexAsk, Pending!Next1
<1>4. CASE Pending!CodexOutput
  <2>1. PICK id \in asked \cup {Pending!Foreign} :
           Pending!Write(Pending!Codex("output", id)) /\ asked' = asked \ {id}
    BY <1>4 DEF Pending!CodexOutput
  <2>2. harness = "codex" /\ UNCHANGED <<answered, misled>>
    BY <1>4 DEF Pending!CodexOutput
  <2>3. id \in 0..Len(log)
    BY <1>1, <2>1, <2>2, WriteFact DEF Pending!Foreign
  <2> QED
    BY <2>1, <2>2, <2>3, CodexKeeps
<1>5. CASE Pending!CodexUser
  BY <1>5, CodexKeeps DEF Pending!CodexUser
<1>6. CASE UNCHANGED pendingVars
  <2>1. harness' = harness /\ log' = log /\ asked' = asked /\ answered' = answered /\ misled' = misled
    BY <1>6 DEF pendingVars
  <2> QED
    BY <2>1 DEF PendingInv, Waiting, Unheard, AskLine, Pending!Lines, Pending!IsCall, Pending!Replied,
       Pending!isHumanUserEntry, Pending!hasToolResultFor, Pending!toolUseID, Pending!Kind, Pending!Output
<1> QED
  BY <1>2, <1>3, <1>4, <1>5, <1>6, SayKeeps, ReplyKeeps, PromptKeeps DEF Pending!Next

LEMMA InitPending == Pending!Init => PendingInv
<1> SUFFICES ASSUME Pending!Init PROVE PendingInv
  OBVIOUS
<1>1. /\ harness \in {"claude", "codex"} /\ log = <<>> /\ asked = {}
      /\ answered \in BOOLEAN /\ misled \in BOOLEAN
  BY DEF Pending!Init
<1>2. Pending!Lines = {}
  BY <1>1 DEF Pending!Lines
<1>3. \E S : log \in Seq(S)
  BY <1>1
<1> QED
  BY <1>1, <1>2, <1>3 DEF PendingInv, Pending!Kind

(* The state a transcript overrides and the card of its question agree, as *)
(* does the scan of its end (internal/conversation and                     *)
(* internal/codex/conversation), in transcripts of any length, whatever    *)
(* subagents write between, unless one was prompted while a question       *)
(* waited.                                                                 *)
THEOREM CardsAgree == MCSpec => []StateAndCardAgree
<1>1. MCInit => PendingInv
  BY InitPending DEF MCInit
<1>2. PendingInv /\ [MCNext]_<<part, vars, pendingVars, codexVars>> => PendingInv'
  <2> SUFFICES ASSUME PendingInv, [MCNext]_<<part, vars, pendingVars, codexVars>> PROVE PendingInv'
    OBVIOUS
  <2>1. [Pending!Next]_pendingVars
    BY DEF MCNext
  <2> QED
    BY <2>1, PendingStep
<1> QED
  BY <1>1, <1>2, PendingAgrees, PTL DEF MCSpec

=============================================================================
