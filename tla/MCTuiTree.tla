----------------------------- MODULE MCTuiTree -----------------------------
(* TuiTree, or TuiView: two parts that share no state, one chosen at the   *)
(* start.  And the diff viewer, for a directory of two files and a file at *)
(* the root, over any five keys.                                           *)
EXTENDS TuiTree

CONSTANTS Heights, QuoteRows, PetHeight, GameHeight, Trees, Looks, MaxLooks

VARIABLES part, m, looks

(* Three lists: none, and that of two agents in groups of their own, the   *)
(* first, with a subagent, in a folded one or not.                         *)
MCNode(kind, agent, hidden) == [kind |-> kind, agent |-> agent, hidden |-> hidden]

MCList(hidden) ==
    <<MCNode("group", None, FALSE), MCNode("agent", "a", hidden), MCNode("sub", "a", hidden),
      MCNode("group", None, FALSE), MCNode("agent", "b", FALSE)>>

MCTrees == {<<>>, MCList(FALSE), MCList(TRUE)}

(* rest is the branch, directory and cost in the header. *)
MCLook(state, rest, plan, diagrams) ==
    [state |-> state, branch |-> rest, dir |-> rest, cost |-> rest, subs |-> 0, plan |-> plan,
     diagrams |-> diagrams, said |-> 0, files |-> 2, folds |-> 0]

(* The last one has a header of more rows than the reducer's estimate. *)
MCLooks ==
    {MCLook("running", 1, 0, 6), [MCLook("running", 1, 0, 6) EXCEPT !.said = 40, !.cost = 0], MCLook("plan", 1, 50, 6),
     MCLook("done", 0, 0, 0), [MCLook("question", 1, 0, 0) EXCEPT !.subs = 1]}

View == INSTANCE TuiView WITH MaxEvents <- MaxLooks, events <- looks

ASSUME ViewAssumption == View!Drawable

viewVars == <<m, looks>>

AtRest == View!Fresh(CHOOSE h \in Heights : TRUE, <<>>, [a \in Agents |-> MCLook("done", 0, 0, 0)], 1)

MCInit ==
    /\ Init /\ View!Init
    /\ \/ part = "tree" /\ m = AtRest
       \/ part = "view" /\ Fresh /\ \A a, b \in Agents : m.look[a] = m.look[b]

MCNext ==
    /\ UNCHANGED part
    /\ \/ part = "tree" /\ Next /\ UNCHANGED viewVars
       \/ part = "view" /\ View!Next /\ UNCHANGED vars

MCSpec ==
    /\ MCInit /\ [][MCNext]_<<part, vars, viewVars>>
    /\ part = "tree" => Fairness

(* The line that is typed is drawn (TuiView). *)
ReplyIsDrawn == View!ReplyIsDrawn

(* The row that is selected is drawn (TuiView). *)
SelectionIsDrawn == View!SelectionIsDrawn

(* The mouse acts near where the user sees it (TuiView). *)
WheelIsNear == View!WheelIsNear

DiffViewer ==
    INSTANCE DiffView WITH Files <- <<"x/b", "a", "x/c">>, Root <- ".",
                           DirOf <- [f \in {"x/b", "a", "x/c"} |-> IF f = "a" THEN "." ELSE "x"],
                           Length <- [f \in {"x/b", "a", "x/c"} |-> IF f = "x/b" THEN 9 ELSE 7], Width <- 10

ASSUME DiffCursorAssumption ==
    \A d \in DiffViewer!Reached[5] : 
        /\ DiffViewer!CursorInRange(d) /\ DiffViewer!ShowsAFile(d)
        /\ d.open => DiffViewer!ClickHitsWhatIsDrawn(d)
=============================================================================
