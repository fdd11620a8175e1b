------------------------------ MODULE UserTree ------------------------------
(***************************************************************************)
(* The directory tree of one user in the table user_file, and the requests *)
(* on it (mkdir_request, changename_request, movefile_request,             *)
(* copyfile_request, delfile_request, getdir_request), from several        *)
(* sessions.  Every SQL statement is a step, a directory's rename has one  *)
(* for each row.                                                           *)
(*                                                                         *)
(* A path is the sequence of its names, the first being the user's.  All   *)
(* names are equally long, so that an offset into the text of a path is a  *)
(* number of names, and contain no character that REGEXP takes specially.  *)
(* The client asks for what its last listing shows to make sense: to put   *)
(* things into existing directories, and nothing into itself.              *)
(***************************************************************************)
EXTENDS Accounts, Functions

CONSTANTS
    Names,      \* names of files and directories
    User,       \* the user's name
    MaxRows,    \* bound on the number of rows, beside the root
    MaxDepth,   \* bound on the length of paths
    MaxOps      \* bound on the number of requests

ASSUME TreeAssumption ==
    /\ IsFiniteSet(Names) /\ User \in Names
    /\ MaxRows \in Nat /\ MaxDepth \in Nat \ {0} /\ MaxOps \in Nat

VARIABLES
    rows,      \* the bag of the user's rows <<f_path, whether f_type is 'dir'>>
    op,        \* of each session: the request it is within
    old,       \* its oldpath
    new,       \* its newpath (or path)
    sel,       \* what its SELECT returned and it has not worked off
    goal,      \* history: what a rename that nothing disturbs is to lead to
    mishaps,   \* history: what the tree may not be whole after
    ops        \* requests so far

requestVars == <<op, old, new, sel>>
vars == <<accountVars, troubles, requestVars, rows, goal, mishaps, ops>>

Root == <<User>>
Paths == {Root \o q : q \in UNION {[1 .. n -> Names] : n \in 1 .. MaxDepth - 1}}

Parent(p) == SubSeq(p, 1, Len(p) - 1)
Within(p, d) == Len(p) >= Len(d) /\ SubSeq(p, 1, Len(d)) = d
\* p, where o has become n: the text of p from the end of o on, behind n.
Moved(p, o, n) == n \o SubSeq(p, Len(o) + 1, Len(p))

\* A bag is a function from its elements to their numbers (those of the module Bags;
\* the provers' version of which lacks what is needed here).
Once(s) == [e \in s |-> 1]
Size(bag) == FoldFunction(+, 0, bag)
Count(e, bag) == IF e \in DOMAIN bag THEN bag[e] ELSE 0
With(bag, e) == [f \in DOMAIN bag \cup {e} |-> Count(f, bag) + Count(f, Once({e}))]
Without(bag, e) == IF bag[e] = 1 THEN Restrict(bag, DOMAIN bag \ {e})
                   ELSE [bag EXCEPT ![e] = @ - 1]

Tree == DOMAIN rows
At(p) == {e \in Tree : e[1] = p}
Dirs == {Root} \cup {e[1] : e \in {f \in Tree : f[2]}}

\* f_path REGEXP 'd/.*', which is not anchored: the places of d in p.
Places(d, p) == {i \in 0 .. Len(p) - Len(d) - 1 : SubSeq(p, i + 1, i + Len(d)) = d}

SelectedExactly(d) == At(d)
\* f_path REGEXP 'd/.*' OR f_path='d'
Selected(d) == {e \in Tree : e[1] = d \/ Places(d, e[1]) # {}}

ListedBelow(d) == {e \in Tree : Places(d, e[1]) # {}}
\* getdir_request: f_path REGEXP 'd/.*' AND f_path NOT REGEXP 'd/.*[/].*'
Listed(d) == {e \in Tree : /\ Places(d, e[1]) # {}
                           /\ \A i \in Places(d, e[1]) : i + Len(d) + 1 = Len(e[1])}

Whole(t) == /\ \A e, f \in t : e[1] = f[1] => e = f
            /\ \A e \in t : Parent(e[1]) = Root \/ <<Parent(e[1]), TRUE>> \in t

NoGoal == [state |-> "none", old |-> Root, new |-> Root, tree |-> {}, by |-> {}]

\* A tree as the requests below can build it; the account is new or exists.
TreeInit ==
    /\ AccountInit
    /\ \/ NoAccount /\ rows = Once({})
       \/ /\ \E p \in Passwords : Existing(p)
          /\ \E t \in {Range(f) : f \in [1 .. MaxRows -> (Paths \cup {Root}) \X BOOLEAN]} :
               LET entries == {e \in t : e[1] # Root} IN Whole(entries) /\ rows = Once(entries)
    /\ op = [w \in Sessions |-> "none"]
    /\ old = [w \in Sessions |-> Root] /\ new = [w \in Sessions |-> Root]
    /\ sel = [w \in Sessions |-> Once({})]
    /\ goal = NoGoal
    /\ mishaps = {}
    /\ ops = 0

-----------------------------------------------------------------------------
(* What the histories note.                                                 *)

\* The paths whose rows the step changes.
Touched == {e[1] : e \in {f \in Tree \cup Tree' : Count(f, rows) # Count(f, rows')}}

\* Whether p is a path that the request of session v relies on.
Concerns(v, p) ==
    /\ op[v] # "none"
    /\ \/ p = Parent(new[v]) \/ Within(p, new[v])
       \/ op[v] \in {"rename", "copy"} /\ Within(p, old[v])

Note(w, more) ==
    mishaps' = mishaps \cup more
                 \cup {"raced" : v \in {q \in Sessions \ {w} : \E p \in Touched : Concerns(q, p)}}

InGoal(p) == Within(p, goal.old) \/ Within(p, goal.new)
GoalTree == {e \in Tree : InGoal(e[1])}
Keep == goal' = IF goal.state # "none" /\ \E p \in Touched : InGoal(p) THEN NoGoal ELSE goal

-----------------------------------------------------------------------------
\* The client sends its requests one after the other.
MaySend(w) == session[w] = "in" /\ op[w] = "none" /\ ops < MaxOps

Begin(w, request, o, n, selected) ==
    /\ ops' = ops + 1
    /\ op' = [op EXCEPT ![w] = request]
    /\ old' = [old EXCEPT ![w] = o] /\ new' = [new EXCEPT ![w] = n]
    /\ sel' = [sel EXCEPT ![w] = selected]

End(w) == /\ op' = [op EXCEPT ![w] = "none"]
          /\ old' = [old EXCEPT ![w] = Root] /\ new' = [new EXCEPT ![w] = Root]
          /\ sel' = [sel EXCEPT ![w] = Once({})]

\* A request of one statement.
Single == ops' = ops + 1 /\ UNCHANGED requestVars

Store(p, dir) == Size(rows) < MaxRows /\ rows' = With(rows, <<p, dir>>)
\* UPDATE ... SET f_path=n WHERE f_path=o
Update(o, n) ==
    rows' = [e \in (Tree \ At(o)) \cup {<<n, f[2]>> : f \in At(o)} |->
                 Count(e, Restrict(rows, Tree \ At(o)))
                   + IF e[1] = n THEN Count(<<o, e[2]>>, rows) ELSE 0]

\* mkdir_request: the SELECT; "-2" if there is a row.
Mkdir(w, p) ==
    /\ Parent(p) \in Dirs
    /\ At(p) = {}
    /\ Begin(w, "mkdir", Root, p, Once({}))
    /\ UNCHANGED <<rows, accountVars, troubles, goal, mishaps>>

\* An upload to p begins (see Upload): nobody looks whether there is a row for p.
Put(w, p) ==
    /\ Parent(p) \in Dirs
    /\ Begin(w, "put", Root, p, Once({}))
    /\ UNCHANGED <<rows, accountVars, troubles, goal, mishaps>>

\* The INSERT, of mkdir_request or of the upload (userfile_mysql).
Insert(w) ==
    /\ op[w] \in {"mkdir", "put"} /\ End(w)
    /\ \/ /\ Works /\ (~ keyed \/ At(new[w]) = {})
          /\ Store(new[w], op[w] = "mkdir")
          /\ Note(w, {"taken" : e \in {f \in At(new[w]) : op[w] = "put"}}) /\ Keep
       \/ Works /\ keyed /\ At(new[w]) # {} /\ UNCHANGED <<rows, mishaps, goal>>
       \/ Fails /\ UNCHANGED <<rows, mishaps, goal>>
    /\ UNCHANGED <<accountVars, ops>>

\* The SELECT that is to find newpath (:618) compares f_type with it, and so finds
\* nothing.  The client puts n into a directory, and nothing into itself.
Target(o, n) == n # o /\ Parent(n) \in Dirs /\ ~ Within(n, o)
Odd(o, n, selected) == {"taken" : e \in At(n)}
                         \cup {"stray" : e \in {f \in selected : ~ Within(f[1], o)}}

\* The rename that the history follows is requested once more (and has not come to
\* select rows of another directory), or a new one whose target is free is followed.
Again(o, n) == goal.state = "open" /\ goal.old = o /\ goal.new = n
Clear(o, n) == Odd(o, n, Selected(o)) = {} /\ \A e \in Tree : ~ Within(e[1], n)
Goal(w, o, n) == [state |-> "open", old |-> o, new |-> n, by |-> {w},
                  tree |-> {<<Moved(e[1], o, n), e[2]>> : e \in {f \in Tree : Within(f[1], o)}}]

\* changename_request: the SELECT of the rows to rename.  (If there are none the
\* request does nothing.)
RenameSelect(w, o, n) ==
    /\ At(o) # {} \/ (Again(o, n) /\ Selected(o) # {})
    /\ Target(o, n) /\ Len(n) = Len(o)
    /\ Begin(w, "rename", o, n, Restrict(rows, Selected(o)))
    /\ mishaps' = mishaps \cup Odd(o, n, Selected(o))
    /\ goal' = CASE Again(o, n) /\ "stray" \notin Odd(o, n, Selected(o)) ->
                          [goal EXCEPT !.by = @ \cup {w}]
                 [] ~ Again(o, n) /\ goal.state = "open" -> goal
                 [] goal.state # "open" /\ Clear(o, n) -> Goal(w, o, n)
                 [] OTHER -> NoGoal
    /\ UNCHANGED <<rows, accountVars, troubles>>

Stopped(w) == /\ mishaps' = mishaps \cup {"failed"}
              /\ goal' = [goal EXCEPT !.by = @ \ {w}]
              /\ UNCHANGED rows

\* One row's UPDATE; the rows come in any order.
RenameUpdate(w) == \E e \in DOMAIN sel[w] :
    LET p == e[1]
        to == Moved(p, old[w], new[w])
        last == sel[w] = Once({e}) IN
    /\ op[w] = "rename"
    /\ \/ /\ Works /\ (~ keyed \/ At(p) = {} \/ to = p \/ At(to) = {})
          /\ Update(p, to)
          /\ Note(w, {})
          /\ IF last THEN End(w)
             ELSE sel' = [sel EXCEPT ![w] = Without(@, e)] /\ UNCHANGED <<op, old, new>>
          /\ IF w \in goal.by
             THEN goal' = IF last THEN [goal EXCEPT !.state = "done"] ELSE goal
             ELSE Keep
       \/ /\ Works /\ keyed /\ At(p) # {} /\ to # p /\ At(to) # {} /\ End(w)
          /\ Stopped(w)
       \/ /\ Fails /\ End(w)
          /\ Stopped(w)
    /\ UNCHANGED <<accountVars, ops>>

\* movefile_request: one UPDATE, of the row of o only.
MoveFile(w, o, n) ==
    /\ At(o) # {} /\ Target(o, n) /\ n[Len(n)] = o[Len(o)]
    /\ Single
    /\ \/ /\ Works /\ (~ keyed \/ At(n) = {})
          /\ Update(o, n)
          /\ Note(w, Odd(o, n, {}) \cup {"moved" : e \in {f \in Tree \ At(o) : Within(f[1], o)}})
          /\ Keep
       \/ Works /\ keyed /\ At(n) # {} /\ UNCHANGED <<rows, mishaps, goal>>
       \/ Fails /\ UNCHANGED <<rows, mishaps, goal>>
    /\ UNCHANGED accountVars

\* copyfile_request: the SELECT of the rows ...
CopySelect(w, o, n) ==
    /\ At(o) # {} /\ Target(o, n)
    /\ Size(rows) + Size(Restrict(rows, Selected(o))) <= MaxRows
    /\ Begin(w, "copy", o, n, Restrict(rows, Selected(o)))
    /\ mishaps' = mishaps \cup Odd(o, n, Selected(o))
                    \cup {"copied" : e \in Selected(o) \ At(o)}
    /\ UNCHANGED <<rows, accountVars, troubles, goal>>

\* ... and an INSERT for each: f_path is empty there, so all are stored at newpath.
CopyInsert(w) == \E e \in DOMAIN sel[w] :
    /\ op[w] = "copy"
    /\ \/ /\ Works /\ (~ keyed \/ At(new[w]) = {})
          /\ Store(new[w], e[2])
          /\ Note(w, {}) /\ Keep
          /\ IF sel[w] = Once({e}) THEN End(w)
             ELSE sel' = [sel EXCEPT ![w] = Without(@, e)] /\ UNCHANGED <<op, old, new>>
       \/ Works /\ keyed /\ At(new[w]) # {} /\ End(w) /\ UNCHANGED <<rows, mishaps, goal>>
       \/ Fails /\ End(w) /\ UNCHANGED <<rows, mishaps, goal>>
    /\ UNCHANGED <<accountVars, ops>>

\* delfile_request: the DELETE (its SELECT is for refer, in FileStore).
Delete(w, o) ==
    /\ At(o) # {}
    /\ Single
    /\ \/ /\ Works
          /\ rows' = Restrict(rows, Tree \ Selected(o))
          /\ Note(w, Odd(o, Root, Selected(o))) /\ Keep
       \/ Fails /\ UNCHANGED <<rows, mishaps, goal>>
    /\ UNCHANGED accountVars

TreeRestart ==
    /\ Restart
    /\ op' = [w \in Sessions |-> "none"]
    /\ old' = [w \in Sessions |-> Root] /\ new' = [w \in Sessions |-> Root]
    /\ sel' = [w \in Sessions |-> Once({})]
    /\ mishaps' = mishaps \cup {"failed" : w \in {v \in Sessions : op[v] = "rename"}}
    /\ goal' = [goal EXCEPT !.by = {}]
    /\ UNCHANGED <<rows, ops>>

Request(w) ==
    /\ MaySend(w)
    /\ \/ \E p \in Paths : Mkdir(w, p) \/ Put(w, p) \/ Delete(w, p)
       \/ \E o, n \in Paths : RenameSelect(w, o, n) \/ MoveFile(w, o, n) \/ CopySelect(w, o, n)

TreeNext ==
    \/ TreeRestart
    \/ \E w \in Sessions :
         \/ AccountStep(w) /\ UNCHANGED <<requestVars, rows, goal, mishaps, ops>>
         \/ Request(w)
         \/ Insert(w) \/ RenameUpdate(w) \/ CopyInsert(w)

TreeSpec == TreeInit /\ [][TreeNext]_vars

-----------------------------------------------------------------------------
\* Nothing went wrong so far, and no row is on its way to a new name.
Settled == mishaps = {} /\ \A w \in Sessions : op[w] # "rename"

\* Requests of several sessions that do not touch each other's paths leave the
\* tree whole: every path has one row, and its parent is a directory.  Each of the
\* mishaps is one of the code's ways to break it: a request lost a race (:835),
\* a rename stopped half-way (:955), a directory was moved without its contents
\* (:1063) or copied onto one path (:1031), the path to rename, move, copy (:618)
\* or, without keys, upload to (:1313) was taken, or REGEXP selected rows of another
\* directory (:940).
TreeWhole == Settled => rows = Once(Tree) /\ Whole(Tree)

\* Then the listings lead to every row, by one way, unless a directory has the
\* user's name, so that REGEXP finds "/user/" within a path.
ListedOnce ==
    (Settled /\ \A e \in Tree : \A i \in 2 .. Len(e[1]) : e[1][i] # User) =>
        \A e \in Tree : {d \in Dirs : e \in Listed(d)} = {Parent(e[1])}

\* A rename whose rows nobody else touches, and which selects no others, ends with all
\* of them under the new name, whatever the order of the rows and their number, and also
\* when it failed or the server restarted half-way and the same request was repeated, or
\* was sent twice.
RenameWhole == goal.state = "done" => GoalTree = goal.tree
=============================================================================
