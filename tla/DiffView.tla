------------------------------ MODULE DiffView ------------------------------
(***************************************************************************)
(* The diff viewer of the terminal UI (internal/tui/diff_view.go): the     *)
(* tree of changed files, what of it is visible, and the cursor.  Pure     *)
(* operators on a record d: open, entries (the tree), shut (folded         *)
(* directories), match (the files the filter passes), typing (in the       *)
(* filter), cursor (an index into what is visible) and file (the one whose *)
(* changes are shown).                                                     *)
(***************************************************************************)
EXTENDS Integers, SequencesExt

CONSTANTS
    Files,    \* the changed files, in the order of the diff
    DirOf,    \* file -> its directory, or Root
    Root,
    Length,   \* of the label of a file
    Width     \* of the list

NoFilter == ToSet(Files)

Closed ==
    [open |-> FALSE, entries |-> <<>>, shut |-> {}, match |-> NoFilter, typing |-> FALSE,
     cursor |-> 1, file |-> Files[1]]

DirEntry(dir) == [dir |-> dir, file |-> Root]

FileEntry(f) == [dir |-> DirOf[f], file |-> f]

IsDir(e) == e.file = Root

(* The files of the root first, then the directories as they first occur,  *)
(* each with its files below.                                              *)
buildDiffTreeEntries ==
    LET In(dir) == SelectSeq(Files, LAMBDA f : DirOf[f] = dir)
        group(dir) == <<DirEntry(dir)>> \o [i \in 1..Len(In(dir)) |-> FileEntry(In(dir)[i])]
        first(i) == DirOf[Files[i]] # Root /\ \A j \in 1..(i - 1) : DirOf[Files[j]] # DirOf[Files[i]]
    IN  [i \in 1..Len(In(Root)) |-> FileEntry(In(Root)[i])]
            \o FlattenSeq([i \in 1..Len(Files) |-> IF first(i) THEN group(DirOf[Files[i]]) ELSE <<>>])

(* A directory is hidden when the filter passes nothing of it, a file when *)
(* the filter does not pass it or its directory is folded.                 *)
applyTreeVisibility(d, e) ==
    IF IsDir(e) THEN \E f \in d.match : DirOf[f] = e.dir
    ELSE e.file \in d.match /\ e.dir \notin d.shut

visibleDiffEntries(d) == SelectSeq(d.entries, LAMBDA e : applyTreeVisibility(d, e))

Landed(d) ==
    LET e == visibleDiffEntries(d)[d.cursor]
    IN  IF IsDir(e) THEN d ELSE [d EXCEPT !.file = e.file]

(* Without anything visible there is nothing to move over. *)
MoveTo(d, i) ==
    LET n == Len(visibleDiffEntries(d))
    IN  IF n = 0 THEN d ELSE Landed([d EXCEPT !.cursor = IF i < 1 THEN 1 ELSE IF i > n THEN n ELSE i])

moveDiffCursor(d, delta) == MoveTo(d, d.cursor + delta)

(* What is folded is below the cursor, which is clamped all the same. *)
toggleDiffDir(d) ==
    LET vis == visibleDiffEntries(d)
        e   == vis[d.cursor]
        t   == [d EXCEPT !.shut = IF e.dir \in @ THEN @ \ {e.dir} ELSE @ \cup {e.dir}]
        n   == Len(visibleDiffEntries(t))
    IN  IF d.cursor > Len(vis) THEN d
        ELSE IF ~IsDir(e) THEN d
        ELSE [t EXCEPT !.cursor = IF n > 0 /\ @ > n THEN n ELSE @]

(* A diff that arrives replaces whatever is open. *)
Opened == [Closed EXCEPT !.open = TRUE, !.entries = buildDiffTreeEntries]

TypeFilter(d, match) == [d EXCEPT !.match = match, !.cursor = 1]

LeaveFilter(d) == [d EXCEPT !.typing = FALSE, !.match = NoFilter, !.cursor = 1]

(* Enter shows the first file the filter passes, wherever the cursor is. *)
EnterFilter(d) ==
    LET files == SelectSeq(visibleDiffEntries(d), LAMBDA e : ~IsDir(e))
    IN  [d EXCEPT !.typing = FALSE, !.cursor = 1,
                  !.file = IF files = <<>> THEN @ ELSE files[1].file]

-----------------------------------------------------------------------------
(* The list as it is drawn, and clicks on it.                              *)

Indent(e) == IF e.dir = Root THEN 0 ELSE 3

(* A long name goes on over more lines, a directory's is cut. *)
Lines(e) ==
    LET name == Width - (Indent(e) + 3)
    IN  IF IsDir(e) \/ name <= 0 \/ Length[e.file] <= name THEN 1
        ELSE (Length[e.file] + name - 1) \div name

(* The index of what is visible at each line. *)
diffFileTreeContent(d) ==
    LET vis == visibleDiffEntries(d)
    IN  FlattenSeq([i \in 1..Len(vis) |-> [j \in 1..Lines(vis[i]) |-> i]])

(* Border, title and blank line, and the filter while there is one; as it   *)
(* is drawn and as a click takes it to be.                                  *)
HeaderRows(d) == IF d.typing \/ d.match # NoFilter THEN 4 ELSE 3

(* The first entry whose lines, with those before it, go beyond the row. *)
Click(d, y, top) ==
    LET vis  == visibleDiffEntries(d)
        line == y - HeaderRows(d) + top
        upto(i) == MapThenFoldSet(LAMBDA a, b : a + b, 0, LAMBDA j : Lines(vis[j]),
                                  LAMBDA S : CHOOSE j \in S : TRUE, 1..i)
        hit  == {i \in 1..Len(vis) : line >= 0 /\ line < upto(i)}
        i    == CHOOSE j \in hit : \A k \in hit : j <= k
        at   == [d EXCEPT !.cursor = i]
    IN  IF hit = {} THEN d ELSE IF IsDir(vis[i]) THEN toggleDiffDir(at) ELSE Landed(at)

(* What one key makes of an open viewer. *)
DiffKeys(d) ==
    IF d.typing
    THEN {LeaveFilter(d), EnterFilter(d)} \cup {TypeFilter(d, m) : m \in SUBSET NoFilter}
    ELSE {[d EXCEPT !.typing = TRUE], toggleDiffDir(d), Closed}
         \cup {moveDiffCursor(d, delta) : delta \in {-2, -1, 1, 2}}
         \cup {MoveTo(d, 1), MoveTo(d, Len(visibleDiffEntries(d)))}
         \cup {Click(d, y, 0) : y \in 3..6}

-----------------------------------------------------------------------------
(* What any keys make of a viewer that has just opened. *)
Reached[n \in Nat] ==
    IF n = 0 THEN {Opened}
    ELSE Reached[n - 1] \cup UNION {DiffKeys(d) : d \in {r \in Reached[n - 1] : r.open}}

(* The cursor is on something visible, if anything is: folding, filtering  *)
(* and leaving the filter change what is visible under it.                 *)
CursorInRange(d) ==
    d.open => d.cursor = 1 \/ d.cursor <= Len(visibleDiffEntries(d))

(* A click, at whatever scroll, acts on what is drawn there: it shows that *)
(* file or folds that directory ("must match render path", keys.go:146).   *)
ClickHitsWhatIsDrawn(d) ==
    LET vis == visibleDiffEntries(d)
        drawn == diffFileTreeContent(d)
    IN  \A top \in 0..Len(drawn), y \in 0..(Len(drawn) + 5) :
            LET row == y - HeaderRows(d) + top + 1
                new == Click(d, y, top)
            IN  IF row \notin DOMAIN drawn THEN new = d
                ELSE LET e == vis[drawn[row]]
                     IN  IF IsDir(e) THEN new.shut = SymDiff(d.shut, {e.dir})
                         ELSE new.file = e.file /\ new.cursor = drawn[row]

(* The file whose changes are shown is one the filter passed when it was   *)
(* reached, so a file of the diff; a directory row never replaces it.      *)
ShowsAFile(d) == d.file \in NoFilter
=============================================================================
