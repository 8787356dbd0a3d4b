---------------------------- MODULE WebTasksProofs ----------------------------
(* Proofs about WebTasks.  The queue of updaters is the heart of them: a set   *)
(* of states K[j] for each point of the queue, such that updater j leads from  *)
(* K[j - 1] to K[j], holds the state after the queue in its last set           *)
(* (RenderedIn).  Each invariant gives the sets it needs, and then follows     *)
(* step by step.                                                               *)
EXTENDS WebTasks, SequenceTheorems, WellFoundedInduction, TLAPS

-----------------------------------------------------------------------------
(* Induction, for a set of numbers.                                           *)

LEMMA Induct ==
    ASSUME NEW T, 0 \in T, \A n \in Nat : n \in T => n + 1 \in T
    PROVE  Nat \subseteq T
<1> SUFFICES ASSUME Nat \ T # {} PROVE FALSE
    OBVIOUS
<1> DEFINE R == OpToRel(<, Nat)
<1>1. IsWellFoundedOn(R, Nat)
    BY NatLessThanWellFounded
<1> HIDE DEF R
<1>2. PICK x \in Nat \ T : \A y \in Nat \ T : ~(<<y, x>> \in R)
    BY <1>1, WFMin
<1>3. x # 0 /\ x - 1 \in Nat /\ x - 1 \notin T
    OBVIOUS
<1>4. <<x - 1, x>> \in R
    BY <1>3 DEF R, OpToRel
<1> QED BY <1>2, <1>3, <1>4

-----------------------------------------------------------------------------
(* One updater.                                                               *)

(* What updaters work on. *)
State ==
    [doc: Tasks, tasks: Tasks, lists: SUBSET Lists, owed: [Ids -> Texts \union {NoText}],
     overtaken: SUBSET Ids]

IsCommit(u, i) == u.kind = "commit" /\ u.id = i

Late(S) == {i \in Ids : S.owed[i] # NoText}

LEMMA NowIsState == ASSUME TypeOK PROVE Now \in State
BY DEF TypeOK, Now, State

LEMMA PublishFields ==
    ASSUME NEW S \in State, NEW i \in Ids, S.tasks[i] # NoTask
    PROVE  /\ Publish(S, i) \in State
           /\ Publish(S, i).tasks = S.tasks /\ Publish(S, i).lists = S.lists
           /\ Publish(S, i).overtaken = S.overtaken
           /\ Publish(S, i).doc = [S.doc EXCEPT ![i] = S.tasks[i]]
           /\ Publish(S, i).owed =
                 [S.owed EXCEPT ![i] = IF S.tasks[i].text = @ THEN NoText ELSE @]
<1> DEFINE d == [S.doc EXCEPT ![i] = S.tasks[i]]
           o == [S.owed EXCEPT ![i] = IF S.tasks[i].text = @ THEN NoText ELSE @]
<1>1. d \in Tasks /\ o \in [Ids -> Texts \union {NoText}]
    BY DEF State, Tasks
<1>2. Publish(S, i) = [S EXCEPT !.doc = d, !.owed = o]
    BY DEF Publish, State
<1> HIDE DEF d, o
<1>3. /\ [S EXCEPT !.doc = d, !.owed = o] \in State
      /\ [S EXCEPT !.doc = d, !.owed = o].doc = d
      /\ [S EXCEPT !.doc = d, !.owed = o].owed = o
      /\ [S EXCEPT !.doc = d, !.owed = o].tasks = S.tasks
      /\ [S EXCEPT !.doc = d, !.owed = o].lists = S.lists
      /\ [S EXCEPT !.doc = d, !.owed = o].overtaken = S.overtaken
    BY <1>1 DEF State
<1> QED BY <1>2, <1>3 DEF d, o

LEMMA MergeFields ==
    ASSUME NEW S \in State, NEW u \in Updater, u.kind = "merge"
    PROVE  /\ Merge(S, u) \in State
           /\ Merge(S, u).tasks = u.tasks /\ Merge(S, u).lists = u.lists
           /\ Merge(S, u).doc = S.doc /\ Merge(S, u).owed = S.owed
           /\ Merge(S, u).overtaken = S.overtaken \union Late(S)
<1> DEFINE t == u.tasks
           l == u.lists
           v == S.overtaken \union Late(S)
<1>1. t \in Tasks /\ l \in SUBSET Lists
    BY DEF Updater
<1>2. v \in SUBSET Ids
    BY DEF State, Late
<1>3. Merge(S, u) = [S EXCEPT !.tasks = t, !.lists = l, !.overtaken = v]
    BY DEF Merge, Late
<1> HIDE DEF t, l, v
<1>4. /\ [S EXCEPT !.tasks = t, !.lists = l, !.overtaken = v] \in State
      /\ [S EXCEPT !.tasks = t, !.lists = l, !.overtaken = v].tasks = t
      /\ [S EXCEPT !.tasks = t, !.lists = l, !.overtaken = v].lists = l
      /\ [S EXCEPT !.tasks = t, !.lists = l, !.overtaken = v].overtaken = v
      /\ [S EXCEPT !.tasks = t, !.lists = l, !.overtaken = v].doc = S.doc
      /\ [S EXCEPT !.tasks = t, !.lists = l, !.overtaken = v].owed = S.owed
    BY <1>1, <1>2 DEF State
<1> QED BY <1>3, <1>4 DEF t, l, v

LEMMA ApplyType ==
    ASSUME NEW S \in State, NEW u \in Updater PROVE Apply(S, u) \in State
<1>1. CASE u.kind = "commit"
  <2>1. u.id \in Ids
    BY <1>1 DEF Updater
  <2> QED BY <1>1, <2>1, PublishFields DEF Apply, Commit
<1>2. CASE u.kind # "commit"
  <2>1. u.kind = "merge"
    BY <1>2 DEF Updater
  <2> QED BY <2>1, MergeFields DEF Apply
<1> QED BY <1>1, <1>2

-----------------------------------------------------------------------------
(* The queue.  What holds of the state before it, and is kept or changed by   *)
(* each updater as K says, holds after it.                                    *)

LEMMA RenderedIn ==
    ASSUME TypeOK, NEW S \in State, NEW K \in [0..Len(pending) -> SUBSET State], S \in K[0],
           \A j \in 1..Len(pending) : \A T \in K[j - 1] : Apply(T, pending[j]) \in K[j]
    PROVE  Rendered(S) \in K[Len(pending)]
<1> DEFINE N == Len(pending)
           UpTo(g, n) ==
             /\ g \in [0..n -> State]
             /\ g[0] = S
             /\ \A i \in 1..n : g[i] = Apply(g[i - 1], pending[i])
             /\ \A i \in 0..n : g[i] \in K[i]
           T == {n \in Nat : n <= N => \E g : UpTo(g, n)}
<1>1. N \in Nat
    BY DEF TypeOK
<1>2. 0 \in T
  <2>1. UpTo([i \in 0..0 |-> S], 0)
    OBVIOUS
  <2> QED BY <2>1
<1>3. ASSUME NEW n \in Nat, n \in T, n + 1 <= N PROVE \E g : UpTo(g, n + 1)
  <2>0. n <= N
    BY <1>1, <1>3
  <2>1. PICK g : UpTo(g, n)
    <3> HIDE DEF UpTo
    <3> QED BY <1>3, <2>0
  <2> DEFINE last == Apply(g[n], pending[n + 1])
             h == [i \in 0..(n + 1) |-> IF i = n + 1 THEN last ELSE g[i]]
  <2>2. last \in K[n + 1] /\ last \in State
    <3>1. n + 1 \in 1..N /\ n \in 0..n /\ (n + 1) - 1 = n /\ n + 1 \in 0..N
        BY <1>1, <1>3
    <3>2. g[n] \in K[n]
        BY <2>1, <3>1
    <3>3. last \in K[n + 1]
        BY <3>1, <3>2
    <3> HIDE DEF last
    <3>4. K[n + 1] \subseteq State
        BY <3>1
    <3> QED BY <3>3, <3>4
  <2>3. h \in [0..(n + 1) -> State] /\ h[0] = S
    <3>1. \A i \in 0..n : g[i] \in State
        BY <2>1
    <3> HIDE DEF last
    <3> QED BY <2>1, <2>2, <3>1
  <2>4. ASSUME NEW i \in 1..(n + 1) PROVE h[i] = Apply(h[i - 1], pending[i])
    <3>1. i - 1 \in 0..(n + 1) /\ i - 1 # n + 1 /\ i \in 0..(n + 1)
        OBVIOUS
    <3>2. h[i - 1] = g[i - 1] /\ h[i] = IF i = n + 1 THEN last ELSE g[i]
        BY <3>1
    <3>3. CASE i = n + 1
      <4>1. i - 1 = n
        BY <3>3
      <4> HIDE DEF h
      <4> QED BY <3>2, <3>3, <4>1
    <3>4. CASE i # n + 1
      <4>1. i \in 1..n
        BY <3>4
      <4> HIDE DEF h
      <4> QED BY <2>1, <3>2, <3>4, <4>1
    <3> QED BY <3>3, <3>4
  <2>5. ASSUME NEW i \in 0..(n + 1) PROVE h[i] \in K[i]
    <3>1. h[i] = IF i = n + 1 THEN last ELSE g[i]
        OBVIOUS
    <3>2. i # n + 1 => i \in 0..n
        OBVIOUS
    <3> HIDE DEF h, last
    <3> QED BY <2>1, <2>2, <3>1, <3>2
  <2>6. UpTo(h, n + 1)
    <3> HIDE DEF h
    <3> QED BY <2>3, <2>4, <2>5
  <2> HIDE DEF h, UpTo
  <2> QED BY <2>6
<1>4. ASSUME NEW n \in Nat, n \in T PROVE n + 1 \in T
  <2> HIDE DEF UpTo
  <2> QED BY <1>3, <1>4
<1> HIDE DEF T
<1>5. N \in T
    BY <1>1, <1>2, <1>4, Induct
<1>6. PICK g : UpTo(g, N)
    BY <1>1, <1>5 DEF T
<1> HIDE DEF N
<1> DEFINE Eq(h) == h = [n \in 0..N |-> IF n = 0 THEN S ELSE Apply(h[n - 1], pending[n])]
<1>7. Eq(g)
  <2> DEFINE k == [n \in 0..N |-> IF n = 0 THEN S ELSE Apply(g[n - 1], pending[n])]
  <2>1. ASSUME NEW i \in 0..N PROVE g[i] = k[i]
    <3>1. k[i] = IF i = 0 THEN S ELSE Apply(g[i - 1], pending[i])
        OBVIOUS
    <3>2. i # 0 => i \in 1..N
        BY <1>1
    <3> HIDE DEF k
    <3> QED BY <1>6, <3>1, <3>2
  <2>2. g = [i \in 0..N |-> g[i]] /\ k = [i \in 0..N |-> k[i]]
    BY <1>6
  <2> HIDE DEF k
  <2>3. g = k
    BY <2>1, <2>2
  <2> QED BY <2>3 DEF k
<1>8. ASSUME NEW h, Eq(h) PROVE h = g
  <2> DEFINE V == {n \in Nat : n <= N => h[n] = g[n]}
  <2>0. /\ \A i \in 0..N : h[i] = IF i = 0 THEN S ELSE Apply(h[i - 1], pending[i])
        /\ h = [i \in 0..N |-> h[i]]
    BY <1>8
  <2>1. 0 \in V
    <3>1. 0 \in 0..N
        BY <1>1
    <3> QED BY <1>6, <2>0, <3>1
  <2>2. ASSUME NEW n \in Nat, n \in V PROVE n + 1 \in V
    <3> SUFFICES ASSUME n + 1 <= N PROVE h[n + 1] = g[n + 1]
        OBVIOUS
    <3>1. n + 1 \in 0..N /\ n + 1 # 0 /\ (n + 1) - 1 = n /\ n + 1 \in 1..N /\ n <= N
        BY <1>1
    <3>2. h[n + 1] = Apply(h[n], pending[n + 1])
        BY <2>0, <3>1
    <3>3. g[n + 1] = Apply(g[(n + 1) - 1], pending[n + 1])
        BY <1>6, <3>1
    <3>4. h[n] = g[n]
        BY <2>2, <3>1
    <3> QED BY <3>1, <3>2, <3>3, <3>4
  <2> HIDE DEF V
  <2>3. Nat \subseteq V
    BY <2>1, <2>2, Induct
  <2>4. \A n \in 0..N : h[n] = g[n]
    BY <1>1, <2>3 DEF V
  <2>5. g = [i \in 0..N |-> g[i]]
    BY <1>6
  <2> QED BY <2>0, <2>4, <2>5
<1> DEFINE f == CHOOSE h : Eq(h)
<1>9. f = g
  <2> HIDE DEF Eq
  <2> QED BY <1>7, <1>8
<1>10. Rendered(S) = f[N]
    BY DEF Rendered, N
<1>11. g[N] \in K[N]
    BY <1>1, <1>6
<1> HIDE DEF f
<1> QED BY <1>9, <1>10, <1>11 DEF N

LEMMA RenderedType ==
    ASSUME TypeOK, NEW S \in State PROVE Rendered(S) \in State
<1> DEFINE K == [j \in 0..Len(pending) |-> State]
<1>1. Len(pending) \in Nat /\ \A j \in 1..Len(pending) : pending[j] \in Updater
    BY DEF TypeOK
<1>2. K \in [0..Len(pending) -> SUBSET State] /\ S \in K[0]
    BY <1>1
<1>3. ASSUME NEW j \in 1..Len(pending), NEW T \in K[j - 1] PROVE Apply(T, pending[j]) \in K[j]
  <2>1. j - 1 \in 0..Len(pending) /\ j \in 0..Len(pending)
    BY <1>1
  <2> QED BY <1>1, <2>1, ApplyType
<1>4. K[Len(pending)] = State
    BY <1>1
<1> HIDE DEF K
<1> QED BY <1>2, <1>3, <1>4, RenderedIn

-----------------------------------------------------------------------------
(* What the operations do to the state after the queue.                       *)

(* A text that is entered. *)
LEMMA TextTask ==
    ASSUME NEW y \in Task, NEW text \in Texts
    PROVE  LET x == [y EXCEPT !.text = text] IN x \in Task /\ x.text = text
BY DEF Task

(* A task that changes on the screen and in the engine. *)
LEMMA PublishChanged ==
    ASSUME NEW S \in State, NEW i \in Ids, NEW x \in Task, NEW U \in State,
           U.tasks = [S.tasks EXCEPT ![i] = x], U.doc = S.doc,
           U.lists = S.lists, U.owed = S.owed, U.overtaken = S.overtaken
    PROVE  /\ Publish(U, i).tasks = [S.tasks EXCEPT ![i] = x]
           /\ Publish(U, i).doc = [S.doc EXCEPT ![i] = x]
           /\ Publish(U, i).owed = [S.owed EXCEPT ![i] = IF x.text = @ THEN NoText ELSE @]
           /\ Publish(U, i).lists = S.lists /\ Publish(U, i).overtaken = S.overtaken
<1> DEFINE T == Publish(U, i)
<1>1. U.tasks[i] = x /\ x # NoTask
    BY NoTaskAssumption DEF State, Tasks
<1>2. /\ T.tasks = U.tasks /\ T.lists = U.lists /\ T.overtaken = U.overtaken
      /\ T.doc = [U.doc EXCEPT ![i] = U.tasks[i]]
      /\ T.owed = [U.owed EXCEPT ![i] = IF U.tasks[i].text = @ THEN NoText ELSE @]
    BY ZenonT(30), <1>1, PublishFields
<1> HIDE DEF T
<1> QED BY <1>1, <1>2 DEF T

(* A task that is toggled. *)
LEMMA ToggledTask ==
    ASSUME NEW y \in Task PROVE Toggled(y) \in Task /\ Toggled(y).text = y.text
<1> DEFINE z == IF y.done = "yes" THEN "no" ELSE "yes"
<1>1. z \in {"yes", "no"}
    OBVIOUS
<1>2. Toggled(y) = [y EXCEPT !.done = z]
  <2>1. y = [list |-> y.list, text |-> y.text, done |-> y.done]
    BY DEF Task
  <2> QED BY <2>1, Zenon DEF Toggled
<1> HIDE DEF z
<1> QED BY <1>1, <1>2 DEF Task

(* The tasks of a list that is deleted. *)
Moved(t, l) ==
    [i \in Ids |-> IF t[i] # NoTask /\ t[i].list = l
                   THEN [t[i] EXCEPT !.list = "default"] ELSE t[i]]

LEMMA MovedTask ==
    ASSUME NEW x \in Task
    PROVE  LET y == [x EXCEPT !.list = "default"]
           IN y \in Task /\ y.text = x.text /\ y.list = "default" /\ y # NoTask
<1> DEFINE y == [x EXCEPT !.list = "default"]
<1>1. y \in Task /\ y.text = x.text /\ y.list = "default"
    BY DEF Task, ListIds
<1> HIDE DEF y
<1> QED BY <1>1, NoTaskAssumption DEF y

LEMMA MovedType == ASSUME NEW t \in Tasks, NEW l PROVE Moved(t, l) \in Tasks
<1>1. ASSUME NEW i \in Ids PROVE Moved(t, l)[i] \in Task \union {NoTask}
  <2>1. CASE t[i] # NoTask /\ t[i].list = l
    <3>1. t[i] \in Task
        BY <2>1 DEF Tasks
    <3>2. [t[i] EXCEPT !.list = "default"] \in Task
        BY <3>1, MovedTask
    <3> QED BY <2>1, <3>2 DEF Moved
  <2>2. CASE ~(t[i] # NoTask /\ t[i].list = l)
    BY <2>2 DEF Moved, Tasks
  <2> QED BY <2>1, <2>2
<1>2. Moved(t, l) = [i \in Ids |-> Moved(t, l)[i]]
    BY DEF Moved
<1> QED BY <1>1, <1>2 DEF Tasks

-----------------------------------------------------------------------------
(* Types.                                                                     *)

PutType ==
    /\ doc \in Tasks /\ tasks \in Tasks /\ lists \subseteq Lists
    /\ pending \in Seq(Updater) /\ Len(pending) <= MaxPending
    /\ owed \in [Ids -> Texts \union {NoText}] /\ overtaken \subseteq Ids

RestType ==
    /\ docLists \subseteq Lists /\ timer \subseteq Ids
    /\ active \in ListIds
    /\ editing \in Ids \union {NoId} /\ draft \in Texts \union {Blank}
    /\ adding \in {"yes", "no"} /\ renaming \in Lists \union {NoList}
    /\ fresh \subseteq Ids \union Lists
    /\ gone \subseteq Ids /\ raced \subseteq Ids /\ takenAway \subseteq Lists
    /\ remote \in 0..MaxRemote

LEMMA TypeParts == TypeOK <=> PutType /\ RestType
BY DEF TypeOK, PutType, RestType

LEMMA PutTypes == ASSUME NEW S \in State, Put(S) PROVE PutType'
<1>1. pending' \in Seq(Updater) /\ Len(pending') <= MaxPending
    BY WebTasksAssumption DEF Put
<1> QED BY <1>1 DEF Put, PutType, State

LEMMA PlainTypes == ASSUME TypeOK, Put(Rendered(Now)) PROVE PutType'
<1>1. PICK S : S = Rendered(Now)
    OBVIOUS
<1>2. S \in State
    BY <1>1, NowIsState, RenderedType
<1> QED BY <1>1, <1>2, PutTypes

LEMMA TypeStartAddTask == ASSUME TypeOK, StartAddTask PROVE TypeOK'
<1>1. PutType'
    BY PlainTypes DEF StartAddTask
<1>2. RestType'
    BY DEF StartAddTask, TypeOK, RestType, history
<1> QED BY <1>1, <1>2, TypeParts DEF TypeOK, PutType, RestType

LEMMA TypeDropNewTask == ASSUME TypeOK, DropNewTask PROVE TypeOK'
<1>1. PutType'
    BY PlainTypes DEF DropNewTask
<1>2. RestType'
    BY DEF DropNewTask, TypeOK, RestType, history
<1> QED BY <1>1, <1>2 DEF TypeOK, PutType, RestType

LEMMA TypeDropTaskEdit == ASSUME TypeOK, DropTaskEdit PROVE TypeOK'
<1>1. PutType'
    BY PlainTypes DEF DropTaskEdit
<1>2. RestType'
    BY DEF DropTaskEdit, TypeOK, RestType, history
<1> QED BY <1>1, <1>2 DEF TypeOK, PutType, RestType

LEMMA TypeRender == ASSUME TypeOK, Render PROVE TypeOK'
<1>1. PutType'
    BY PlainTypes DEF Render
<1>2. RestType'
    BY DEF Render, TypeOK, RestType, history, inputs
<1> QED BY <1>1, <1>2 DEF TypeOK, PutType, RestType

LEMMA TypeStartEditTask == ASSUME TypeOK, NEW i \in Ids, StartEditTask(i) PROVE TypeOK'
<1>1. PutType'
    BY PlainTypes DEF StartEditTask
<1>2. tasks[i] \in Task
    BY DEF StartEditTask, Visible, TypeOK, Tasks
<1>3. draft' \in Texts
    BY <1>2 DEF StartEditTask, Task
<1>4. RestType'
    BY <1>3 DEF StartEditTask, TypeOK, RestType, history
<1> QED BY <1>1, <1>4 DEF TypeOK, PutType, RestType

LEMMA TypeType == ASSUME TypeOK, NEW text \in Texts \union {Blank}, Type(text) PROVE TypeOK'
<1>1. PutType'
    BY PlainTypes DEF Type
<1>2. RestType'
    BY DEF Type, TypeOK, RestType, history
<1> QED BY <1>1, <1>2 DEF TypeOK, PutType, RestType

LEMMA TypeSelectList == ASSUME TypeOK, NEW l \in ListIds, SelectList(l) PROVE TypeOK'
<1>1. PutType'
    BY PlainTypes DEF SelectList
<1>2. RestType'
    BY DEF SelectList, TypeOK, RestType, history
<1> QED BY <1>1, <1>2 DEF TypeOK, PutType, RestType

LEMMA TypeStartRenameList == ASSUME TypeOK, NEW l \in Lists, StartRenameList(l) PROVE TypeOK'
<1>1. PutType'
    BY PlainTypes DEF StartRenameList
<1>2. RestType'
    BY DEF StartRenameList, TypeOK, RestType, history
<1> QED BY <1>1, <1>2 DEF TypeOK, PutType, RestType

LEMMA TypeCommitListRename == ASSUME TypeOK, CommitListRename PROVE TypeOK'
<1>1. PutType'
    BY PlainTypes DEF CommitListRename, renameList
<1>2. docLists' \subseteq Lists
    BY DEF CommitListRename, renameList, TypeOK
<1>3. RestType'
    BY <1>2 DEF CommitListRename, TypeOK, RestType, history
<1> QED BY <1>1, <1>3 DEF TypeOK, PutType, RestType

LEMMA TypeAddList == ASSUME TypeOK, NEW l \in Lists, AddList(l) PROVE TypeOK'
<1>1. PICK S : S = Rendered(Now)
    OBVIOUS
<1>2. S \in State
    BY <1>1, NowIsState, RenderedType
<1>3. PICK T : T = [S EXCEPT !.lists = S.lists \union {l}]
    OBVIOUS
<1>4. Put(T)
    BY <1>1, <1>3 DEF AddList, addList
<1>5. S.lists \union {l} \in SUBSET Lists
    BY <1>2 DEF State
<1>6. T \in State
    BY <1>2, <1>3, <1>5 DEF State
<1>7. PutType'
    BY <1>4, <1>6, PutTypes
<1>8. RestType'
    BY DEF AddList, addList, TypeOK, RestType, history, ListIds
<1> QED BY <1>7, <1>8 DEF TypeOK, PutType, RestType

LEMMA ListDeletedBy ==
    ASSUME TypeOK, NEW l \in Lists, DeleteList(l)
    PROVE  \E S \in State :
              /\ S = Rendered(Now)
              /\ tasks' = Moved(S.tasks, l) /\ lists' = S.lists \ {l}
              /\ doc' = S.doc /\ owed' = S.owed /\ overtaken' = S.overtaken /\ pending' = <<>>
<1>1. PICK S : S = Rendered(Now)
    OBVIOUS
<1>2. S \in State
    BY <1>1, NowIsState, RenderedType
<1>3. PICK t, ls : t = Moved(S.tasks, l) /\ ls = S.lists \ {l}
    OBVIOUS
<1>4. PICK T : T = [S EXCEPT !.lists = ls, !.tasks = t]
    OBVIOUS
<1>5. T \in State /\ T.lists = ls /\ T.tasks = t
    BY <1>2, <1>3, <1>4, MovedType DEF State
<1>6. T.doc = S.doc /\ T.owed = S.owed /\ T.overtaken = S.overtaken
    BY <1>2, <1>4 DEF State
<1>7. Put(T)
    BY <1>1, <1>3, <1>4 DEF DeleteList, deleteList, Moved
<1> QED BY <1>1, <1>2, <1>3, <1>5, <1>6, <1>7 DEF Put

LEMMA TypeDeleteList == ASSUME TypeOK, NEW l \in Lists, DeleteList(l) PROVE TypeOK'
<1>1. PutType'
  <2>1. PICK S \in State :
              /\ tasks' = Moved(S.tasks, l) /\ lists' = S.lists \ {l}
              /\ doc' = S.doc /\ owed' = S.owed /\ overtaken' = S.overtaken /\ pending' = <<>>
    BY ListDeletedBy
  <2>2. tasks' \in Tasks /\ lists' \subseteq Lists
    BY <2>1, MovedType DEF State
  <2>3. pending' \in Seq(Updater) /\ Len(pending') <= MaxPending
    BY <2>1, WebTasksAssumption
  <2> QED BY <2>1, <2>2, <2>3 DEF PutType, State
<1>2. RestType'
    BY DEF DeleteList, deleteList, TypeOK, RestType, history, ListIds
<1> QED BY <1>1, <1>2 DEF TypeOK, PutType, RestType

-----------------------------------------------------------------------------
(* What the operations on one task do, and their types.                       *)

LEMMA TaskAddedBy ==
    ASSUME TypeOK, NEW i \in Ids, NEW text \in Texts, CommitNewTask(i, text)
    PROVE  \E x \in Task, X \in State, S \in State :
              /\ X.doc = [doc EXCEPT ![i] = x] /\ X.tasks = tasks /\ X.lists = lists
              /\ X.owed = owed /\ X.overtaken = overtaken
              /\ S = Rendered(X)
              /\ doc' = S.doc /\ tasks' = [S.tasks EXCEPT ![i] = x] /\ lists' = S.lists
              /\ owed' = S.owed /\ overtaken' = S.overtaken /\ pending' = <<>>
<1>1. PICK x : x = [list |-> active, text |-> text, done |-> "no"]
    OBVIOUS
<1>2. x \in Task
    BY <1>1 DEF Task, TypeOK
<1>3. PICK d : d = [doc EXCEPT ![i] = x]
    OBVIOUS
<1>4. d \in Tasks
    BY <1>2, <1>3 DEF TypeOK, Tasks
<1>5. PICK X : X = [Now EXCEPT !.doc = d]
    OBVIOUS
<1>6. X = [Now EXCEPT !.doc[i] = x]
    BY <1>3, <1>5 DEF Now
<1>7. /\ X \in State /\ X.doc = d /\ X.tasks = tasks /\ X.lists = lists
      /\ X.owed = owed /\ X.overtaken = overtaken
    BY <1>4, <1>5, NowIsState DEF Now, State
<1>8. PICK S : S = Rendered(X)
    OBVIOUS
<1>9. S \in State
    BY <1>7, <1>8, RenderedType
<1>10. PICK t : t = [S.tasks EXCEPT ![i] = x]
    OBVIOUS
<1>11. PICK T : T = [S EXCEPT !.tasks = t]
    OBVIOUS
<1>12. /\ T.tasks = t /\ T.doc = S.doc /\ T.lists = S.lists
       /\ T.owed = S.owed /\ T.overtaken = S.overtaken
    BY <1>9, <1>11 DEF State
<1>13. Put(T)
    BY <1>1, <1>6, <1>8, <1>10, <1>11 DEF CommitNewTask, addTask
<1>14. /\ doc' = S.doc /\ tasks' = t /\ lists' = S.lists
       /\ owed' = S.owed /\ overtaken' = S.overtaken /\ pending' = <<>>
    BY <1>12, <1>13 DEF Put
<1>15. x \in Task /\ X \in State /\ S \in State
    BY <1>2, <1>7, <1>9
<1> USE <1>15
<1> WITNESS x \in Task, X \in State, S \in State
<1> QED BY <1>3, <1>7, <1>8, <1>10, <1>14

LEMMA TypeCommitNewTask ==
    ASSUME TypeOK, NEW i \in Ids, NEW text \in Texts, CommitNewTask(i, text) PROVE TypeOK'
<1>1. PICK x \in Task, S \in State :
         /\ doc' = S.doc /\ tasks' = [S.tasks EXCEPT ![i] = x] /\ lists' = S.lists
         /\ owed' = S.owed /\ overtaken' = S.overtaken /\ pending' = <<>>
    BY ZenonT(60), TaskAddedBy
<1>2. tasks' \in Tasks
    BY <1>1 DEF State, Tasks
<1>3. pending' \in Seq(Updater) /\ Len(pending') <= MaxPending
    BY <1>1, WebTasksAssumption
<1>4. PutType'
    BY <1>1, <1>2, <1>3 DEF PutType, State
<1>5. RestType'
    BY DEF CommitNewTask, TypeOK, RestType, history
<1> QED BY <1>4, <1>5 DEF TypeOK, PutType, RestType

LEMMA TaskEditedBy ==
    ASSUME TypeOK, NEW i \in Ids, CommitTaskEdit(i)
    PROVE  \E S \in State :
              /\ S = Rendered(Now)
              /\ doc' = S.doc /\ lists' = S.lists /\ pending' = <<>>
              /\ \/ /\ S.tasks[i] = NoTask
                    /\ tasks' = S.tasks /\ owed' = S.owed /\ overtaken' = S.overtaken
                 \/ /\ S.tasks[i] # NoTask
                    /\ draft \in Texts
                    /\ \E x \in Task : tasks' = [S.tasks EXCEPT ![i] = x] /\ x.text = draft
                    /\ owed' = [S.owed EXCEPT ![i] = draft]
                    /\ overtaken' = S.overtaken \ {i}
<1>1. PICK S : S = Rendered(Now)
    OBVIOUS
<1>2. S \in State
    BY <1>1, NowIsState, RenderedType
<1>3. CASE S.tasks[i] = NoTask
  <2>1. Put(S)
    BY <1>1, <1>3 DEF CommitTaskEdit, updateTask
  <2> QED BY <1>1, <1>2, <1>3, <2>1 DEF Put
<1>4. CASE S.tasks[i] # NoTask
  <2>1. draft \in Texts
    BY DEF CommitTaskEdit, TypeOK
  <2>2. S.tasks[i] \in Task
    BY <1>2, <1>4 DEF State, Tasks
  <2>3. PICK x : x = [S.tasks[i] EXCEPT !.text = draft]
    OBVIOUS
  <2>4. x \in Task /\ x.text = draft
    BY <2>1, <2>2, <2>3, TextTask
  <2>5. PICK t, o, v :
           t = [S.tasks EXCEPT ![i] = x] /\ o = [S.owed EXCEPT ![i] = draft]
           /\ v = S.overtaken \ {i}
    OBVIOUS
  <2>6. t = [S.tasks EXCEPT ![i].text = draft]
    BY <2>3, <2>5
  <2>7. PICK T : T = [S EXCEPT !.tasks = t, !.owed = o, !.overtaken = v]
    OBVIOUS
  <2>8. T.tasks = t /\ T.owed = o /\ T.overtaken = v /\ T.doc = S.doc /\ T.lists = S.lists
    BY <1>2, <2>7 DEF State
  <2>9. T = [S EXCEPT !.tasks[i].text = draft, !.owed[i] = draft, !.overtaken = @ \ {i}]
    BY <2>5, <2>6, <2>7
  <2>10. Put(T)
    BY <1>1, <1>4, <2>9 DEF CommitTaskEdit, updateTask
  <2> QED BY <1>1, <1>2, <1>4, <2>1, <2>4, <2>5, <2>8, <2>10 DEF Put
<1> QED BY <1>3, <1>4

LEMMA TypeCommitTaskEdit == ASSUME TypeOK, NEW i \in Ids, CommitTaskEdit(i) PROVE TypeOK'
<1>1. PICK S \in State :
              /\ S = Rendered(Now)
              /\ doc' = S.doc /\ lists' = S.lists /\ pending' = <<>>
              /\ \/ /\ S.tasks[i] = NoTask
                    /\ tasks' = S.tasks /\ owed' = S.owed /\ overtaken' = S.overtaken
                 \/ /\ S.tasks[i] # NoTask
                    /\ draft \in Texts
                    /\ \E x \in Task : tasks' = [S.tasks EXCEPT ![i] = x] /\ x.text = draft
                    /\ owed' = [S.owed EXCEPT ![i] = draft]
                    /\ overtaken' = S.overtaken \ {i}
    BY TaskEditedBy
<1>2. tasks' \in Tasks /\ owed' \in [Ids -> Texts \union {NoText}] /\ overtaken' \subseteq Ids
  <2>1. CASE tasks' = S.tasks /\ owed' = S.owed /\ overtaken' = S.overtaken
    BY <2>1 DEF State
  <2>2. CASE /\ draft \in Texts
             /\ \E x \in Task : tasks' = [S.tasks EXCEPT ![i] = x] /\ x.text = draft
             /\ owed' = [S.owed EXCEPT ![i] = draft]
             /\ overtaken' = S.overtaken \ {i}
    BY <2>2 DEF State, Tasks
  <2> QED BY <1>1, <2>1, <2>2
<1>3. pending' \in Seq(Updater) /\ Len(pending') <= MaxPending
    BY <1>1, WebTasksAssumption
<1>4. PutType'
    BY <1>1, <1>2, <1>3 DEF PutType, State
<1>5. RestType'
    BY DEF CommitTaskEdit, updateTask, TypeOK, RestType, history
<1> QED BY <1>4, <1>5 DEF TypeOK, PutType, RestType

LEMMA TaskDebouncedBy ==
    ASSUME TypeOK, NEW i \in Ids, Debounced(i)
    PROVE  /\ lists' = lists /\ tasks' = tasks /\ overtaken' = overtaken
           /\ timer' = timer \ {i}
           /\ \/ /\ pending = <<>> /\ pending' = <<>>
                 /\ \/ tasks[i] = NoTask /\ doc' = doc /\ owed' = owed
                    \/ /\ tasks[i] # NoTask
                       /\ doc' = [doc EXCEPT ![i] = tasks[i]]
                       /\ owed' = [owed EXCEPT ![i] = IF tasks[i].text = @ THEN NoText ELSE @]
              \/ /\ doc' = doc /\ owed' = owed
                 /\ Len(pending) < MaxPending
                 /\ pending' = Append(pending, [kind |-> "commit", id |-> i])
<1>1. CASE pending = <<>> /\ Put(Commit(Now, i))
  <2>1. PICK S : S = Now
    OBVIOUS
  <2>2. /\ S \in State /\ S.tasks = tasks /\ S.doc = doc /\ S.lists = lists
        /\ S.owed = owed /\ S.overtaken = overtaken
    BY <2>1, NowIsState DEF Now
  <2>3. CASE tasks[i] = NoTask
    BY <1>1, <2>1, <2>2, <2>3 DEF Commit, Put, Debounced
  <2>4. CASE tasks[i] # NoTask
    <3>1. /\ Publish(S, i).tasks = S.tasks /\ Publish(S, i).lists = S.lists
          /\ Publish(S, i).overtaken = S.overtaken
          /\ Publish(S, i).doc = [S.doc EXCEPT ![i] = S.tasks[i]]
          /\ Publish(S, i).owed =
                 [S.owed EXCEPT ![i] = IF S.tasks[i].text = @ THEN NoText ELSE @]
        BY <2>2, <2>4, PublishFields
    <3>2. Put(Publish(S, i))
        BY <1>1, <2>1, <2>2, <2>4 DEF Commit
    <3> QED BY <1>1, <2>2, <2>4, <3>1, <3>2 DEF Put, Debounced
  <2> QED BY <2>3, <2>4
<1>2. CASE /\ Len(pending) < MaxPending
           /\ pending' = Append(pending, [kind |-> "commit", id |-> i])
           /\ UNCHANGED <<doc, shown, owed, overtaken>>
    BY <1>2 DEF Debounced, shown
<1> QED BY <1>1, <1>2 DEF Debounced

LEMMA Queued ==
    ASSUME TypeOK, NEW u \in Updater, Len(pending) < MaxPending, pending' = Append(pending, u)
    PROVE  /\ pending' \in Seq(Updater) /\ Len(pending') = Len(pending) + 1
           /\ Len(pending) \in Nat /\ Len(pending') <= MaxPending
           /\ pending'[Len(pending')] = u
           /\ \A n \in 1..Len(pending) : pending'[n] = pending[n]
<1>1. pending \in Seq(Updater) /\ MaxPending \in Nat /\ Len(pending) \in Nat
    BY WebTasksAssumption DEF TypeOK
<1>2. /\ pending' \in Seq(Updater) /\ Len(pending') = Len(pending) + 1
      /\ pending'[Len(pending) + 1] = u
      /\ \A n \in 1..Len(pending) : pending'[n] = pending[n]
    BY <1>1, AppendProperties
<1> QED BY <1>1, <1>2

LEMMA TypeDebounced == ASSUME TypeOK, NEW i \in Ids, Debounced(i) PROVE TypeOK'
<1>1. /\ lists' = lists /\ tasks' = tasks /\ overtaken' = overtaken
      /\ \/ /\ pending' = <<>>
            /\ \/ doc' = doc /\ owed' = owed
               \/ /\ tasks[i] # NoTask
                  /\ doc' = [doc EXCEPT ![i] = tasks[i]]
                  /\ owed' = [owed EXCEPT ![i] = IF tasks[i].text = @ THEN NoText ELSE @]
         \/ /\ doc' = doc /\ owed' = owed
            /\ Len(pending) < MaxPending
            /\ pending' = Append(pending, [kind |-> "commit", id |-> i])
    BY TaskDebouncedBy
<1>2. doc' \in Tasks /\ owed' \in [Ids -> Texts \union {NoText}]
    BY <1>1 DEF TypeOK, Tasks
<1>3. pending' \in Seq(Updater) /\ Len(pending') <= MaxPending
  <2>1. [kind |-> "commit", id |-> i] \in Updater
    BY DEF Updater
  <2>2. CASE pending' = <<>>
    BY <2>2, WebTasksAssumption
  <2>3. CASE /\ Len(pending) < MaxPending
             /\ pending' = Append(pending, [kind |-> "commit", id |-> i])
    BY <2>1, <2>3, Queued
  <2> QED BY <1>1, <2>2, <2>3
<1>4. PutType'
    BY <1>1, <1>2, <1>3 DEF PutType, TypeOK
<1>5. RestType'
    BY DEF Debounced, TypeOK, RestType, history, inputs
<1> QED BY <1>4, <1>5 DEF TypeOK, PutType, RestType

LEMMA TaskToggledBy ==
    ASSUME TypeOK, NEW i \in Ids, Toggle(i)
    PROVE  \E S \in State :
              /\ S = Rendered(Now)
              /\ lists' = S.lists /\ overtaken' = S.overtaken /\ pending' = <<>>
              /\ \/ S.tasks[i] = NoTask /\ tasks' = S.tasks /\ doc' = S.doc /\ owed' = S.owed
                 \/ /\ S.tasks[i] # NoTask
                    /\ \E x \in Task :
                          /\ tasks' = [S.tasks EXCEPT ![i] = x] /\ doc' = [S.doc EXCEPT ![i] = x]
                          /\ x.text = S.tasks[i].text
                          /\ owed' = [S.owed EXCEPT ![i] = IF x.text = @ THEN NoText ELSE @]
<1>1. PICK S : S = Rendered(Now)
    OBVIOUS
<1>2. S \in State
    BY <1>1, NowIsState, RenderedType
<1>3. CASE S.tasks[i] = NoTask
  <2>1. Put(S)
    BY <1>1, <1>3 DEF Toggle
  <2> QED BY <1>1, <1>2, <1>3, <2>1 DEF Put
<1>4. CASE S.tasks[i] # NoTask
  <2>1. PICK T : T = Publish([S EXCEPT !.tasks[i] = Toggled(@)], i)
    OBVIOUS
  <2>2. Put(T)
    BY <1>1, <1>4, <2>1 DEF Toggle
  <2>3. S.tasks[i] \in Task
    BY <1>2, <1>4 DEF State, Tasks
  <2>4. PICK x : x = Toggled(S.tasks[i])
    OBVIOUS
  <2>5. x \in Task /\ x.text = S.tasks[i].text
    BY <2>3, <2>4, ToggledTask
  <2>6. PICK t : t = [S.tasks EXCEPT ![i] = x]
    OBVIOUS
  <2>7. PICK U : U = [S EXCEPT !.tasks = t]
    OBVIOUS
  <2>8. T = Publish(U, i)
    BY <2>1, <2>4, <2>6, <2>7
  <2>9. /\ Publish(U, i).tasks = [S.tasks EXCEPT ![i] = x]
        /\ Publish(U, i).doc = [S.doc EXCEPT ![i] = x]
        /\ Publish(U, i).owed = [S.owed EXCEPT ![i] = IF x.text = @ THEN NoText ELSE @]
        /\ Publish(U, i).lists = S.lists /\ Publish(U, i).overtaken = S.overtaken
    <3>1. t \in Tasks
        BY <1>2, <2>5, <2>6 DEF State, Tasks
    <3>2. /\ U \in State /\ U.tasks = t /\ U.doc = S.doc
          /\ U.lists = S.lists /\ U.owed = S.owed /\ U.overtaken = S.overtaken
        BY <1>2, <2>7, <3>1 DEF State
    <3> QED BY <1>2, <2>5, <2>6, <3>2, PublishChanged
  <2>10. /\ tasks' = [S.tasks EXCEPT ![i] = x] /\ doc' = [S.doc EXCEPT ![i] = x]
         /\ owed' = [S.owed EXCEPT ![i] = IF x.text = @ THEN NoText ELSE @]
         /\ lists' = S.lists /\ overtaken' = S.overtaken /\ pending' = <<>>
    BY <2>2, <2>8, <2>9 DEF Put
  <2> QED BY <1>1, <1>2, <1>4, <2>5, <2>10
<1> QED BY <1>3, <1>4

LEMMA TypeToggle == ASSUME TypeOK, NEW i \in Ids, Toggle(i) PROVE TypeOK'
<1>1. PICK S \in State :
         /\ lists' = S.lists /\ overtaken' = S.overtaken /\ pending' = <<>>
         /\ \/ tasks' = S.tasks /\ doc' = S.doc /\ owed' = S.owed
            \/ \E x \in Task :
                  /\ tasks' = [S.tasks EXCEPT ![i] = x] /\ doc' = [S.doc EXCEPT ![i] = x]
                  /\ owed' = [S.owed EXCEPT ![i] = IF x.text = @ THEN NoText ELSE @]
    BY TaskToggledBy
<1>2. tasks' \in Tasks /\ doc' \in Tasks /\ owed' \in [Ids -> Texts \union {NoText}]
    BY <1>1 DEF State, Tasks
<1>3. pending' \in Seq(Updater) /\ Len(pending') <= MaxPending
    BY <1>1, WebTasksAssumption
<1>4. PutType'
    BY <1>1, <1>2, <1>3 DEF PutType, State
<1>5. RestType'
    BY DEF Toggle, TypeOK, RestType, history, inputs
<1> QED BY <1>4, <1>5 DEF TypeOK, PutType, RestType

LEMMA TaskDeletedBy ==
    ASSUME TypeOK, NEW i \in Ids, Delete(i)
    PROVE  \E X \in State, S \in State :
              /\ X.doc = [doc EXCEPT ![i] = NoTask] /\ X.tasks = tasks /\ X.lists = lists
              /\ X.owed = owed /\ X.overtaken = overtaken
              /\ S = Rendered(X)
              /\ doc' = S.doc /\ tasks' = [S.tasks EXCEPT ![i] = NoTask] /\ lists' = S.lists
              /\ owed' = [S.owed EXCEPT ![i] = NoText] /\ overtaken' = S.overtaken
              /\ pending' = <<>>
<1>1. PICK d : d = [doc EXCEPT ![i] = NoTask]
    OBVIOUS
<1>2. d \in Tasks
    BY <1>1 DEF TypeOK, Tasks
<1>3. PICK X : X = [Now EXCEPT !.doc = d]
    OBVIOUS
<1>4. X = [Now EXCEPT !.doc[i] = NoTask]
    BY <1>1, <1>3 DEF Now
<1>5. /\ X \in State /\ X.doc = d /\ X.tasks = tasks /\ X.lists = lists
      /\ X.owed = owed /\ X.overtaken = overtaken
    BY <1>2, <1>3, NowIsState DEF Now, State
<1>6. PICK S : S = Rendered(X)
    OBVIOUS
<1>7. S \in State
    BY <1>5, <1>6, RenderedType
<1>8. PICK t, o : t = [S.tasks EXCEPT ![i] = NoTask] /\ o = [S.owed EXCEPT ![i] = NoText]
    OBVIOUS
<1>9. PICK T : T = [S EXCEPT !.tasks = t, !.owed = o]
    OBVIOUS
<1>10. /\ T.tasks = t /\ T.doc = S.doc /\ T.lists = S.lists
       /\ T.owed = o /\ T.overtaken = S.overtaken
    BY <1>7, <1>9 DEF State
<1>11. Put(T)
    BY <1>4, <1>6, <1>8, <1>9 DEF Delete
<1>12. /\ doc' = S.doc /\ tasks' = t /\ lists' = S.lists
       /\ owed' = o /\ overtaken' = S.overtaken /\ pending' = <<>>
    BY <1>10, <1>11 DEF Put
<1>13. X \in State /\ S \in State
    BY <1>5, <1>7
<1> USE <1>13
<1> WITNESS X \in State, S \in State
<1> QED BY <1>1, <1>5, <1>6, <1>8, <1>12

LEMMA TypeDelete == ASSUME TypeOK, NEW i \in Ids, Delete(i) PROVE TypeOK'
<1>1. PICK S \in State :
         /\ doc' = S.doc /\ tasks' = [S.tasks EXCEPT ![i] = NoTask] /\ lists' = S.lists
         /\ owed' = [S.owed EXCEPT ![i] = NoText] /\ overtaken' = S.overtaken
         /\ pending' = <<>>
    BY TaskDeletedBy
<1>2. tasks' \in Tasks /\ owed' \in [Ids -> Texts \union {NoText}]
    BY <1>1 DEF State, Tasks
<1>3. pending' \in Seq(Updater) /\ Len(pending') <= MaxPending
    BY <1>1, WebTasksAssumption
<1>4. PutType'
    BY <1>1, <1>2, <1>3 DEF PutType, State
<1>5. RestType'
    BY DEF Delete, TypeOK, RestType, inputs
<1> QED BY <1>4, <1>5 DEF TypeOK, PutType, RestType

LEMMA FramesType ==
    ASSUME TypeOK, NEW f \in Frames PROVE f[1] \in Tasks /\ f[2] \in SUBSET Lists
<1>1. CASE f = <<doc, docLists>>
    BY <1>1 DEF TypeOK
<1>2. CASE \E i \in Ids, r \in Task \union {NoTask} : f = <<[doc EXCEPT ![i] = r], docLists>>
  <2>1. PICK i \in Ids, r \in Task \union {NoTask} : f = <<[doc EXCEPT ![i] = r], docLists>>
    BY <1>2
  <2>2. [doc EXCEPT ![i] = r] \in Tasks
    BY DEF TypeOK, Tasks
  <2> QED BY <2>1, <2>2 DEF TypeOK
<1>3. CASE \E ls \in SUBSET Lists : f = <<doc, ls>>
    BY <1>3 DEF TypeOK
<1> QED BY <1>1, <1>2, <1>3 DEF Frames

(* What a frame and a re-run of the connect effect do alike: the engine holds  *)
(* tasks d and lists ls, and the screen is to show them.                       *)
Synced(d, ls) ==
    /\ Len(pending) < MaxPending
    /\ pending' = Append(pending, [kind |-> "merge", tasks |-> d, lists |-> ls])
    /\ doc' = d /\ docLists' = ls
    /\ raced' = Waiting
    /\ takenAway' = takenAway \union (docLists \ ls)
    /\ gone' \subseteq gone /\ fresh' \subseteq fresh
    /\ \A k \in Ids : k \in gone' \union fresh' => d[k] \in {doc[k], NoTask}
    /\ UNCHANGED <<shown, timer, inputs, owed, overtaken>>

LEMMA ReceiveSynced ==
    ASSUME NEW d \in Tasks, NEW ls \in SUBSET Lists, Receive(d, ls) PROVE Synced(d, ls)
BY DEF Receive, Synced

LEMMA ResyncSynced == ASSUME Resync PROVE Synced(doc, docLists)
BY DEF Resync, Synced, engineVars

LEMMA FrameQueued ==
    ASSUME TypeOK, NEW d \in Tasks, NEW ls \in SUBSET Lists, Synced(d, ls)
    PROVE  \E u \in Updater :
              /\ u.kind = "merge" /\ u.tasks = d /\ u.lists = ls
              /\ pending' = Append(pending, u) /\ Len(pending) < MaxPending
<1>1. PICK u : u = [kind |-> "merge", tasks |-> d, lists |-> ls]
    OBVIOUS
<1>2. u \in Updater /\ u.kind = "merge" /\ u.tasks = d /\ u.lists = ls
    BY <1>1 DEF Updater
<1> QED BY <1>1, <1>2 DEF Synced

LEMMA TypeSynced ==
    ASSUME TypeOK, NEW d \in Tasks, NEW ls \in SUBSET Lists, Synced(d, ls),
           remote' \in 0..MaxRemote
    PROVE  TypeOK'
<1>1. pending' \in Seq(Updater) /\ Len(pending') <= MaxPending
    BY FrameQueued, Queued
<1>2. PutType'
    BY <1>1 DEF Synced, TypeOK, PutType, shown
<1>3. raced' \subseteq Ids /\ gone' \subseteq Ids /\ takenAway' \subseteq Lists
    BY DEF Synced, TypeOK, Waiting
<1>4. RestType'
    BY <1>3 DEF Synced, TypeOK, RestType, inputs
<1> QED BY <1>2, <1>4 DEF TypeOK, PutType, RestType

LEMMA TypeReceive ==
    ASSUME TypeOK, NEW d \in Tasks, NEW ls \in SUBSET Lists, Receive(d, ls) PROVE TypeOK'
<1>1. remote' \in 0..MaxRemote
    BY WebTasksAssumption DEF Receive, TypeOK
<1> QED BY <1>1, ReceiveSynced, TypeSynced

LEMMA TypeResync == ASSUME TypeOK, Resync PROVE TypeOK'
<1>1. doc \in Tasks /\ docLists \in SUBSET Lists /\ remote' \in 0..MaxRemote
    BY DEF Resync, TypeOK
<1> QED BY <1>1, ResyncSynced, TypeSynced

LEMMA TypeReload == ASSUME TypeOK, Reload PROVE TypeOK'
<1>1. pending' \in Seq(Updater) /\ Len(pending') <= MaxPending
    BY WebTasksAssumption DEF Reload
<1>2. PutType'
    BY <1>1 DEF Reload, TypeOK, PutType, engineVars
<1>3. RestType'
    BY DEF Reload, TypeOK, RestType, engineVars, ListIds
<1> QED BY <1>2, <1>3 DEF TypeOK, PutType, RestType

LEMMA NextTypeOK == TypeOK /\ [Next]_vars => TypeOK'
<1> SUFFICES ASSUME TypeOK, [Next]_vars PROVE TypeOK'
    OBVIOUS
<1>1. ASSUME NEW i \in Ids,
             \/ StartEditTask(i) \/ CommitTaskEdit(i) \/ Debounced(i) \/ Toggle(i) \/ Delete(i)
             \/ \E text \in Texts : CommitNewTask(i, text)
      PROVE  TypeOK'
    BY <1>1, TypeStartEditTask, TypeCommitTaskEdit, TypeDebounced, TypeToggle, TypeDelete,
       TypeCommitNewTask
<1>2. ASSUME NEW l \in Lists, AddList(l) \/ StartRenameList(l) \/ DeleteList(l) PROVE TypeOK'
    BY <1>2, TypeAddList, TypeStartRenameList, TypeDeleteList
<1>3. ASSUME NEW f \in Frames, Receive(f[1], f[2]) PROVE TypeOK'
    BY <1>3, FramesType, TypeReceive
<1>4. CASE UNCHANGED vars
    BY <1>4 DEF vars, engineVars, shown, inputs, history, TypeOK
<1> QED
    BY <1>1, <1>2, <1>3, <1>4, TypeStartAddTask, TypeDropNewTask, TypeDropTaskEdit,
       TypeCommitListRename, TypeRender, TypeReload, TypeResync, TypeType, TypeSelectList
       DEF Next

LEMMA InitTypeOK == Init => TypeOK
<1> SUFFICES ASSUME Init PROVE TypeOK
    OBVIOUS
<1>1. doc \in Tasks /\ tasks \in Tasks /\ owed \in [Ids -> Texts \union {NoText}]
    BY DEF Init, Tasks
<1>2. pending \in Seq(Updater) /\ Len(pending) <= MaxPending
    BY WebTasksAssumption DEF Init
<1> QED BY <1>1, <1>2, WebTasksAssumption DEF Init, TypeOK, ListIds

(* Every state of the page is well typed: an updater of the queue is a commit  *)
(* of a task or a merge of a whole engine, whatever runs between two renders.  *)
THEOREM TypeCorrect == Spec => []TypeOK
BY InitTypeOK, NextTypeOK, PTL DEF Spec

-----------------------------------------------------------------------------
(* The active list.                                                           *)

(* The lists on the screen, and in each merge that waits, are the engine's,    *)
(* and none is lost on the way, but for those that other devices deleted.      *)
ListsInv ==
    /\ lists \subseteq docLists \union takenAway
    /\ \A n \in 1..Len(pending) : pending[n].kind = "merge" =>
          /\ lists \subseteq pending[n].lists \union takenAway
          /\ pending[n].lists \subseteq docLists \union takenAway
    /\ ActiveListExists

LEMMA ApplyLists ==
    ASSUME NEW S \in State, NEW u \in Updater
    PROVE  Apply(S, u).lists = IF u.kind = "merge" THEN u.lists ELSE S.lists
<1>1. CASE u.kind = "commit"
  <2>1. u.id \in Ids
    BY <1>1 DEF Updater
  <2> QED BY <1>1, <2>1, PublishFields DEF Apply, Commit
<1>2. CASE u.kind = "merge"
    BY <1>2, MergeFields DEF Apply
<1> QED BY <1>1, <1>2 DEF Updater

LEMMA RenderedLists ==
    ASSUME TypeOK, ListsInv, NEW S \in State, S.lists = lists
    PROVE  /\ Rendered(S).lists \subseteq docLists \union takenAway
           /\ lists \subseteq Rendered(S).lists \union takenAway
<1> DEFINE Good == {T \in State : /\ T.lists \subseteq docLists \union takenAway
                                  /\ lists \subseteq T.lists \union takenAway}
           K == [j \in 0..Len(pending) |-> Good]
<1>1. Len(pending) \in Nat /\ \A j \in 1..Len(pending) : pending[j] \in Updater
    BY DEF TypeOK
<1>2. S \in Good
    BY DEF ListsInv
<1>3. ASSUME NEW j \in 1..Len(pending), NEW T \in Good PROVE Apply(T, pending[j]) \in Good
  <2>1. pending[j] \in Updater /\ T \in State
    BY <1>1
  <2>2. Apply(T, pending[j]) \in State
    BY <2>1, ApplyType
  <2>3. Apply(T, pending[j]).lists = IF pending[j].kind = "merge" THEN pending[j].lists ELSE T.lists
    BY <2>1, ApplyLists
  <2> QED BY <2>2, <2>3 DEF ListsInv
<1>4. Good \subseteq State
    OBVIOUS
<1> HIDE DEF Good
<1>5. K \in [0..Len(pending) -> SUBSET State] /\ S \in K[0] /\ K[Len(pending)] = Good
    BY <1>1, <1>2, <1>4
<1>6. ASSUME NEW j \in 1..Len(pending), NEW T \in K[j - 1] PROVE Apply(T, pending[j]) \in K[j]
  <2>1. j - 1 \in 0..Len(pending) /\ j \in 0..Len(pending)
    BY <1>1
  <2> QED BY <1>3, <2>1
<1> HIDE DEF K
<1>7. Rendered(S) \in Good
    BY <1>5, <1>6, RenderedIn
<1> QED BY <1>7 DEF Good

LEMMA NextListsInv == TypeOK /\ ListsInv /\ [Next]_vars => ListsInv'
<1> SUFFICES ASSUME TypeOK, ListsInv, [Next]_vars PROVE ListsInv'
    OBVIOUS
<1>1. PICK S \in State : S = Rendered(Now)
    BY NowIsState, RenderedType
<1>2. S.lists \subseteq docLists \union takenAway /\ lists \subseteq S.lists \union takenAway
  <2>1. Now.lists = lists
    BY DEF Now
  <2> QED BY <1>1, <2>1, NowIsState, RenderedLists
<1>3. active \in lists \union takenAway \union {"default"}
    BY DEF ListsInv, ActiveListExists
<1>4. ASSUME Put(S), docLists \subseteq docLists', takenAway' = takenAway,
             active' \in lists \union takenAway \union {"default"}
      PROVE  ListsInv'
    BY <1>2, <1>4 DEF Put, ListsInv, ActiveListExists
<1>5. CASE StartAddTask \/ DropNewTask \/ DropTaskEdit \/ Render \/ CommitListRename
    BY <1>1, <1>3, <1>4, <1>5 DEF StartAddTask, DropNewTask, DropTaskEdit, Render, CommitListRename,
       renameList, history, inputs
<1>6. ASSUME NEW i \in Ids, StartEditTask(i) PROVE ListsInv'
    BY <1>1, <1>3, <1>4, <1>6 DEF StartEditTask, history
<1>7. ASSUME NEW text \in Texts \union {Blank}, Type(text) PROVE ListsInv'
    BY <1>1, <1>3, <1>4, <1>7 DEF Type, history
<1>8. ASSUME NEW l \in ListIds, SelectList(l) PROVE ListsInv'
    BY <1>1, <1>4, <1>8 DEF SelectList, history
<1>9. ASSUME NEW l \in Lists, StartRenameList(l) PROVE ListsInv'
    BY <1>1, <1>3, <1>4, <1>9 DEF StartRenameList, history
<1>10. ASSUME NEW l \in Lists, AddList(l) PROVE ListsInv'
  <2>1. PICK T : T = [S EXCEPT !.lists = S.lists \union {l}]
    OBVIOUS
  <2>2. T.lists = S.lists \union {l}
    BY <2>1 DEF State
  <2>3. lists' = S.lists \union {l} /\ pending' = <<>>
    BY <1>1, <1>10, <2>1, <2>2 DEF AddList, addList, Put
  <2>4. docLists' = docLists \union {l} /\ active' = l /\ takenAway' = takenAway
    BY <1>10 DEF AddList, addList, history
  <2> QED BY <1>2, <2>3, <2>4 DEF ListsInv, ActiveListExists
<1>11. ASSUME NEW l \in Lists, DeleteList(l) PROVE ListsInv'
  <2>1. lists' = S.lists \ {l} /\ pending' = <<>>
    BY <1>1, <1>11, ListDeletedBy
  <2>2. /\ docLists' = docLists \ {l} /\ takenAway' = takenAway
        /\ active' = IF active = l THEN "default" ELSE active
    BY <1>11 DEF DeleteList, deleteList, history
  <2> QED BY <1>2, <1>3, <2>1, <2>2 DEF ListsInv, ActiveListExists
<1>12. ASSUME NEW X \in State, X.lists = lists, lists' = Rendered(X).lists, pending' = <<>>,
              docLists' = docLists, takenAway' = takenAway, active' = active
       PROVE  ListsInv'
  <2>1. /\ Rendered(X).lists \subseteq docLists \union takenAway
        /\ lists \subseteq Rendered(X).lists \union takenAway
    BY <1>12, RenderedLists
  <2> QED BY <1>3, <1>12, <2>1 DEF ListsInv, ActiveListExists
<1>13. ASSUME NEW i \in Ids, NEW text \in Texts, CommitNewTask(i, text) PROVE ListsInv'
  <2>1. PICK X \in State : X.lists = lists /\ lists' = Rendered(X).lists /\ pending' = <<>>
    BY <1>13, TaskAddedBy
  <2>2. docLists' = docLists /\ takenAway' = takenAway /\ active' = active
    BY <1>13 DEF CommitNewTask, history
  <2> QED BY <1>12, <2>1, <2>2
<1>14. ASSUME NEW i \in Ids, CommitTaskEdit(i) PROVE ListsInv'
  <2>1. lists' = Rendered(Now).lists /\ pending' = <<>>
    BY <1>14, TaskEditedBy
  <2>2. docLists' = docLists /\ takenAway' = takenAway /\ active' = active
    BY <1>14 DEF CommitTaskEdit, updateTask, history
  <2>3. Now.lists = lists
    BY DEF Now
  <2> QED BY <1>12, <2>1, <2>2, <2>3, NowIsState
<1>15. ASSUME NEW i \in Ids, Toggle(i) PROVE ListsInv'
  <2>1. lists' = Rendered(Now).lists /\ pending' = <<>>
    BY <1>15, TaskToggledBy
  <2>2. docLists' = docLists /\ takenAway' = takenAway /\ active' = active
    BY <1>15 DEF Toggle, inputs, history
  <2>3. Now.lists = lists
    BY DEF Now
  <2> QED BY <1>12, <2>1, <2>2, <2>3, NowIsState
<1>16. ASSUME NEW i \in Ids, Delete(i) PROVE ListsInv'
  <2>1. PICK X \in State : X.lists = lists /\ lists' = Rendered(X).lists /\ pending' = <<>>
    BY <1>16, TaskDeletedBy
  <2>2. docLists' = docLists /\ takenAway' = takenAway /\ active' = active
    BY <1>16 DEF Delete, inputs
  <2> QED BY <1>12, <2>1, <2>2
<1>17. ASSUME NEW i \in Ids, Debounced(i) PROVE ListsInv'
  <2>1. PICK c : c = [kind |-> "commit", id |-> i]
    OBVIOUS
  <2>2. /\ lists' = lists
        /\ \/ pending' = <<>>
           \/ Len(pending) < MaxPending /\ pending' = Append(pending, c)
    BY <1>17, <2>1, TaskDebouncedBy
  <2>3. docLists' = docLists /\ takenAway' = takenAway /\ active' = active
    BY <1>17 DEF Debounced, inputs, history
  <2>4. CASE pending' = <<>>
    BY <2>2, <2>3, <2>4 DEF ListsInv, ActiveListExists
  <2>5. CASE Len(pending) < MaxPending /\ pending' = Append(pending, c)
    <3>1. c \in Updater /\ c.kind # "merge"
        BY <2>1 DEF Updater
    <3>2. /\ Len(pending') = Len(pending) + 1 /\ Len(pending) \in Nat
          /\ pending'[Len(pending')] = c
          /\ \A n \in 1..Len(pending) : pending'[n] = pending[n]
        BY <2>5, <3>1, Queued
    <3>3. ASSUME NEW n \in 1..Len(pending'), pending'[n].kind = "merge"
          PROVE  n \in 1..Len(pending) /\ pending'[n] = pending[n]
        BY <3>1, <3>2, <3>3
    <3> QED BY <2>2, <2>3, <3>3 DEF ListsInv, ActiveListExists
  <2> QED BY <2>2, <2>4, <2>5
<1>18. ASSUME Resync \/ \E f \in Frames : Receive(f[1], f[2]) PROVE ListsInv'
  <2>1. PICK d \in Tasks, ls \in SUBSET Lists : Synced(d, ls)
    <3>1. CASE Resync
        BY <3>1, ResyncSynced DEF TypeOK
    <3>2. CASE \E f \in Frames : Receive(f[1], f[2])
        BY <3>2, FramesType, ReceiveSynced
    <3> QED BY <1>18, <3>1, <3>2
  <2>2. PICK u \in Updater : /\ u.kind = "merge" /\ u.lists = ls
                             /\ pending' = Append(pending, u) /\ Len(pending) < MaxPending
    BY <2>1, FrameQueued
  <2>3. /\ Len(pending') = Len(pending) + 1 /\ Len(pending) \in Nat
        /\ pending'[Len(pending')] = u
        /\ \A n \in 1..Len(pending) : pending'[n] = pending[n]
    BY <2>2, Queued
  <2>4. /\ docLists' = ls /\ takenAway' = takenAway \union (docLists \ ls)
        /\ lists' = lists /\ active' = active
    BY <2>1 DEF Synced, shown, inputs
  <2>5. lists \subseteq ls \union takenAway'
    BY <2>4 DEF ListsInv
  <2>6. ASSUME NEW n \in 1..Len(pending'), pending'[n].kind = "merge"
        PROVE  /\ lists \subseteq pending'[n].lists \union takenAway'
               /\ pending'[n].lists \subseteq ls \union takenAway'
    <3>1. CASE n = Len(pending')
        BY <2>2, <2>3, <2>5, <3>1
    <3>2. CASE n # Len(pending')
      <4>1. n \in 1..Len(pending) /\ pending'[n] = pending[n]
        BY <2>3, <3>2
      <4> QED BY <2>4, <2>6, <4>1 DEF ListsInv
    <3> QED BY <3>1, <3>2
  <2> QED BY <1>3, <2>4, <2>5, <2>6 DEF ListsInv, ActiveListExists
<1>19. CASE Reload
    BY <1>19 DEF Reload, engineVars, ListsInv, ActiveListExists
<1>20. CASE UNCHANGED vars
    BY <1>20 DEF vars, engineVars, shown, inputs, history, ListsInv, ActiveListExists
<1> QED
    BY <1>5, <1>6, <1>7, <1>8, <1>9, <1>10, <1>11, <1>13, <1>14, <1>15, <1>16, <1>17, <1>18, <1>19,
       <1>20 DEF Next

(* TaskList.tsx:66-77: the active list exists, unless another device deleted   *)
(* it, however the merges that wait and the deletions made here follow.        *)
THEOREM ShownListExists == Spec => []ActiveListExists
<1>1. Init => ListsInv
    BY DEF Init, ListsInv, ActiveListExists
<1>2. ListsInv => ActiveListExists
    BY DEF ListsInv
<1> QED BY <1>1, <1>2, TypeCorrect, NextListsInv, PTL DEF Spec

-----------------------------------------------------------------------------
(* One task and the queue.                                                    *)

LEMMA ApplyTask ==
    ASSUME NEW S \in State, NEW u \in Updater, NEW i \in Ids
    PROVE  /\ u.kind = "merge" =>
                /\ Apply(S, u).tasks = u.tasks /\ Apply(S, u).doc = S.doc
                /\ Apply(S, u).owed = S.owed
                /\ Apply(S, u).overtaken = S.overtaken \union Late(S)
           /\ u.kind = "commit" =>
                /\ Apply(S, u).tasks = S.tasks /\ Apply(S, u).overtaken = S.overtaken
                /\ Apply(S, u).doc[i] = IF u.id = i /\ S.tasks[i] # NoTask THEN S.tasks[i]
                                        ELSE S.doc[i]
                /\ Apply(S, u).owed[i] = IF /\ u.id = i /\ S.tasks[i] # NoTask
                                            /\ S.tasks[i].text = S.owed[i]
                                         THEN NoText ELSE S.owed[i]
<1>1. CASE u.kind = "merge"
    BY <1>1, MergeFields DEF Apply
<1>2. CASE u.kind = "commit"
  <2>1. u.id \in Ids
    BY <1>2 DEF Updater
  <2>2. PICK k \in Ids : k = u.id
    BY <2>1
  <2>3. CASE S.tasks[k] = NoTask
    BY <1>2, <2>2, <2>3 DEF Apply, Commit
  <2>4. CASE S.tasks[k] # NoTask
    <3>1. Apply(S, u) = Publish(S, k)
        BY <1>2, <2>2, <2>4 DEF Apply, Commit
    <3>2. /\ Publish(S, k).tasks = S.tasks /\ Publish(S, k).overtaken = S.overtaken
          /\ Publish(S, k).doc = [S.doc EXCEPT ![k] = S.tasks[k]]
          /\ Publish(S, k).owed =
                 [S.owed EXCEPT ![k] = IF S.tasks[k].text = @ THEN NoText ELSE @]
        BY <2>4, PublishFields
    <3>3. S.doc = [a \in Ids |-> S.doc[a]] /\ S.owed = [a \in Ids |-> S.owed[a]]
        BY DEF State, Tasks
    <3>4. Publish(S, k).doc[i] = IF i = k THEN S.tasks[i] ELSE S.doc[i]
        BY <3>2, <3>3
    <3>5. Publish(S, k).owed[i] = IF i = k /\ S.tasks[i].text = S.owed[i] THEN NoText
                                  ELSE S.owed[i]
        BY <3>2, <3>3
    <3> QED BY <1>2, <2>2, <2>4, <3>1, <3>2, <3>4, <3>5
  <2> QED BY <2>3, <2>4
<1> QED BY <1>1, <1>2 DEF Updater

(* What every updater keeps, the queue keeps. *)
LEMMA RenderedKept ==
    ASSUME TypeOK, NEW Good, Good \subseteq State, NEW S \in Good,
           \A j \in 1..Len(pending) : \A T \in Good : Apply(T, pending[j]) \in Good
    PROVE  Rendered(S) \in Good
<1> DEFINE K == [j \in 0..Len(pending) |-> Good]
<1>1. Len(pending) \in Nat
    BY DEF TypeOK
<1>2. K \in [0..Len(pending) -> SUBSET State] /\ S \in K[0] /\ K[Len(pending)] = Good
    BY <1>1
<1>3. ASSUME NEW j \in 1..Len(pending), NEW T \in K[j - 1] PROVE Apply(T, pending[j]) \in K[j]
  <2>1. j - 1 \in 0..Len(pending) /\ j \in 0..Len(pending)
    BY <1>1
  <2> QED BY <2>1
<1> HIDE DEF K
<1> QED BY <1>2, <1>3, RenderedIn

(* A task that is nowhere on the screen stays off it, and what the engine has *)
(* of it stays.                                                               *)
LEMMA RenderedAbsent ==
    ASSUME TypeOK, NEW S \in State, NEW i \in Ids, S.tasks[i] = NoTask,
           \A n \in 1..Len(pending) : pending[n].kind = "merge" => pending[n].tasks[i] = NoTask
    PROVE  /\ Rendered(S).tasks[i] = NoTask /\ Rendered(S).doc[i] = S.doc[i]
           /\ Rendered(S).owed[i] = S.owed[i]
<1> DEFINE Good == {T \in State : /\ T.tasks[i] = NoTask /\ T.doc[i] = S.doc[i]
                                  /\ T.owed[i] = S.owed[i]}
<1>1. ASSUME NEW j \in 1..Len(pending), NEW T \in Good PROVE Apply(T, pending[j]) \in Good
  <2>1. PICK u \in Updater : u = pending[j]
    BY DEF TypeOK
  <2>2. Apply(T, u) \in State
    BY ApplyType
  <2>3. CASE u.kind = "merge"
    BY <2>1, <2>2, <2>3, ApplyTask
  <2>4. CASE u.kind = "commit"
    BY <2>1, <2>2, <2>4, ApplyTask
  <2> QED BY <2>3, <2>4 DEF Updater
<1>2. S \in Good /\ Good \subseteq State
    OBVIOUS
<1> HIDE DEF Good
<1>3. Rendered(S) \in Good
    BY <1>1, <1>2, RenderedKept
<1> QED BY <1>3 DEF Good

(* Only a commit of the task changes what the engine has of it. *)
LEMMA RenderedDoc ==
    ASSUME TypeOK, NEW S \in State, NEW i \in Ids \ Waiting
    PROVE  Rendered(S).doc[i] = S.doc[i]
<1> DEFINE Good == {T \in State : T.doc[i] = S.doc[i]}
<1>1. ASSUME NEW j \in 1..Len(pending), NEW T \in Good PROVE Apply(T, pending[j]) \in Good
  <2>1. PICK u \in Updater : u = pending[j]
    BY DEF TypeOK
  <2>2. Apply(T, u) \in State
    BY ApplyType
  <2>3. CASE u.kind = "merge"
    BY <2>1, <2>2, <2>3, ApplyTask
  <2>4. CASE u.kind = "commit"
    <3>1. u.id # i
        BY <2>1, <2>4 DEF Waiting
    <3> QED BY <2>1, <2>2, <2>4, <3>1, ApplyTask
  <2> QED BY <2>3, <2>4 DEF Updater
<1>2. S \in Good /\ Good \subseteq State
    OBVIOUS
<1> HIDE DEF Good
<1>3. Rendered(S) \in Good
    BY <1>1, <1>2, RenderedKept
<1> QED BY <1>3 DEF Good

-----------------------------------------------------------------------------
(* The steps, as the tasks see them.                                          *)

(* The queue runs. *)
Plain ==
    /\ doc' = Rendered(Now).doc /\ owed' = Rendered(Now).owed
    /\ overtaken' = Rendered(Now).overtaken
    /\ pending' = <<>> /\ timer' = timer /\ gone' = gone /\ raced' = raced
    /\ fresh' \subseteq fresh

LEMMA PlainPut ==
    ASSUME TypeOK, Put(Rendered(Now)), timer' = timer, gone' = gone, raced' = raced,
           fresh' \subseteq fresh
    PROVE  Plain /\ tasks' = Rendered(Now).tasks
BY DEF Put, Plain

LEMMA TaskSteps ==
    ASSUME TypeOK, Next
    PROVE  \/ Plain /\ tasks' = Rendered(Now).tasks
           \/ Plain /\ \E l \in Lists : tasks' = Moved(Rendered(Now).tasks, l)
           \/ \E i \in Ids : \/ CommitTaskEdit(i) \/ Debounced(i) \/ Toggle(i) \/ Delete(i)
                             \/ \E text \in Texts : CommitNewTask(i, text)
           \/ \E d \in Tasks, ls \in SUBSET Lists : Synced(d, ls)
           \/ Reload
<1> DEFINE P == Plain /\ tasks' = Rendered(Now).tasks
<1>1. CASE StartAddTask \/ DropNewTask \/ DropTaskEdit \/ Render
  <2>1. /\ Put(Rendered(Now)) /\ timer' = timer /\ gone' = gone /\ raced' = raced
        /\ fresh' = fresh
    BY <1>1 DEF StartAddTask, DropNewTask, DropTaskEdit, Render, history
  <2> QED BY <2>1, PlainPut
<1>2. CASE CommitListRename
  <2>1. /\ Put(Rendered(Now)) /\ timer' = timer /\ gone' = gone /\ raced' = raced
        /\ fresh' = fresh
    BY <1>2 DEF CommitListRename, renameList, history
  <2> QED BY <2>1, PlainPut
<1>3. ASSUME NEW i \in Ids, StartEditTask(i) PROVE P
  <2>1. /\ Put(Rendered(Now)) /\ timer' = timer /\ gone' = gone /\ raced' = raced
        /\ fresh' = fresh
    BY <1>3 DEF StartEditTask, history
  <2> QED BY <2>1, PlainPut
<1>4. ASSUME NEW text \in Texts \union {Blank}, Type(text) PROVE P
  <2>1. /\ Put(Rendered(Now)) /\ timer' = timer /\ gone' = gone /\ raced' = raced
        /\ fresh' = fresh
    BY <1>4 DEF Type, history
  <2> QED BY <2>1, PlainPut
<1>5. ASSUME NEW l \in ListIds, SelectList(l) PROVE P
  <2>1. /\ Put(Rendered(Now)) /\ timer' = timer /\ gone' = gone /\ raced' = raced
        /\ fresh' = fresh
    BY <1>5 DEF SelectList, history
  <2> QED BY <2>1, PlainPut
<1>6. ASSUME NEW l \in Lists, StartRenameList(l) PROVE P
  <2>1. /\ Put(Rendered(Now)) /\ timer' = timer /\ gone' = gone /\ raced' = raced
        /\ fresh' = fresh
    BY <1>6 DEF StartRenameList, history
  <2> QED BY <2>1, PlainPut
<1>7. ASSUME NEW l \in Lists, AddList(l) PROVE P
  <2>1. PICK S \in State : S = Rendered(Now)
    BY NowIsState, RenderedType
  <2>2. PICK T : T = [S EXCEPT !.lists = S.lists \union {l}]
    OBVIOUS
  <2>3. /\ T.tasks = S.tasks /\ T.doc = S.doc /\ T.owed = S.owed /\ T.overtaken = S.overtaken
    BY <2>2 DEF State
  <2>4. Put(T)
    BY <1>7, <2>1, <2>2 DEF AddList, addList
  <2>5. timer' = timer /\ gone' = gone /\ raced' = raced /\ fresh' \subseteq fresh
    BY <1>7 DEF AddList, history
  <2> QED BY <2>1, <2>3, <2>4, <2>5 DEF Put, Plain
<1>8. ASSUME NEW l \in Lists, DeleteList(l)
      PROVE  Plain /\ tasks' = Moved(Rendered(Now).tasks, l)
  <2>1. timer' = timer /\ gone' = gone /\ raced' = raced /\ fresh' = fresh
    BY <1>8 DEF DeleteList, history
  <2> QED BY <1>8, <2>1, ListDeletedBy DEF Plain
<1>9. ASSUME NEW f \in Frames, Receive(f[1], f[2])
      PROVE  \E d \in Tasks, ls \in SUBSET Lists : Synced(d, ls)
    BY <1>9, FramesType, ReceiveSynced
<1>10. CASE Resync
    BY <1>10, ResyncSynced DEF TypeOK
<1> QED BY <1>1, <1>2, <1>3, <1>4, <1>5, <1>6, <1>7, <1>8, <1>9, <1>10 DEF Next

-----------------------------------------------------------------------------
(* Deleted tasks.                                                             *)

(* Neither the engine nor the screen nor a merge that waits has the task. *)
Nowhere(i) ==
    /\ doc[i] = NoTask /\ tasks[i] = NoTask
    /\ \A n \in 1..Len(pending) : pending[n].kind = "merge" => pending[n].tasks[i] = NoTask

GoneInv ==
    /\ \A i \in gone : Nowhere(i)
    /\ \A i \in fresh \intersect Ids : Nowhere(i) /\ owed[i] = NoText
    /\ fresh \intersect gone = {}

LEMMA MovedAs ==
    ASSUME NEW t \in Tasks, NEW l, NEW i \in Ids
    PROVE  \/ Moved(t, l)[i] = t[i]
           \/ t[i] \in Task /\ Moved(t, l)[i] = [t[i] EXCEPT !.list = "default"]
BY DEF Moved, Tasks

LEMMA MovedFields ==
    ASSUME NEW t \in Tasks, NEW l, NEW i \in Ids
    PROVE  /\ (t[i] = NoTask) <=> (Moved(t, l)[i] = NoTask)
           /\ t[i] # NoTask => Moved(t, l)[i].text = t[i].text
<1>1. CASE Moved(t, l)[i] = t[i]
    BY <1>1
<1>2. CASE t[i] \in Task /\ Moved(t, l)[i] = [t[i] EXCEPT !.list = "default"]
  <2>1. PICK x \in Task : x = t[i]
    BY <1>2
  <2>2. Moved(t, l)[i] = [x EXCEPT !.list = "default"] /\ x # NoTask
    BY <1>2, <2>1, NoTaskAssumption
  <2>3. /\ [x EXCEPT !.list = "default"].text = x.text
        /\ [x EXCEPT !.list = "default"] # NoTask
    BY MovedTask
  <2> QED BY <2>1, <2>2, <2>3
<1> QED BY <1>1, <1>2, MovedAs

(* Absent tasks stay absent when the queue runs. *)
LEMMA NowhereKept ==
    ASSUME TypeOK, NEW k \in Ids, Nowhere(k),
           NEW X \in State, X.tasks = tasks, X.owed = owed, X.doc[k] = NoTask
    PROVE  /\ Rendered(X).doc[k] = NoTask /\ Rendered(X).tasks[k] = NoTask
           /\ Rendered(X).owed[k] = owed[k]
<1>1. X.tasks[k] = NoTask /\ X.owed[k] = owed[k]
    BY DEF Nowhere
<1> QED BY <1>1, RenderedAbsent DEF Nowhere

LEMMA NextGoneInv == TypeOK /\ GoneInv /\ [Next]_vars => GoneInv'
<1> SUFFICES ASSUME TypeOK, GoneInv, [Next]_vars PROVE GoneInv'
    OBVIOUS
<1>0. gone \subseteq Ids /\ gone \intersect fresh = {}
    BY DEF TypeOK, GoneInv
<1> DEFINE Absent(k) == doc'[k] = NoTask /\ tasks'[k] = NoTask
<1>1. ASSUME pending' = <<>>, fresh' \subseteq fresh, gone' = gone,
             \A k \in Ids : Nowhere(k) => Absent(k),
             \A k \in Ids : Nowhere(k) /\ owed[k] = NoText => owed'[k] = NoText
      PROVE  GoneInv'
    BY <1>0, <1>1 DEF GoneInv, Nowhere
<1>2. PICK S \in State : S = Rendered(Now)
    BY NowIsState, RenderedType
<1>3. ASSUME NEW k \in Ids, Nowhere(k)
      PROVE  S.doc[k] = NoTask /\ S.tasks[k] = NoTask /\ S.owed[k] = owed[k]
  <2>1. PICK X \in State : X = Now
    BY NowIsState
  <2>2. X.tasks = tasks /\ X.owed = owed /\ X.doc = doc
    BY <2>1 DEF Now
  <2>3. X.doc[k] = NoTask
    BY <1>3, <2>2 DEF Nowhere
  <2> QED BY <1>2, <1>3, <2>1, <2>2, <2>3, NowhereKept
<1>4. CASE Plain /\ tasks' = S.tasks
    BY <1>1, <1>2, <1>3, <1>4 DEF Plain
<1>5. CASE Plain /\ \E l \in Lists : tasks' = Moved(S.tasks, l)
  <2>1. PICK l \in Lists : tasks' = Moved(S.tasks, l)
    BY <1>5
  <2>2. S.tasks \in Tasks
    BY DEF State
  <2>3. ASSUME NEW k \in Ids, Nowhere(k) PROVE tasks'[k] = NoTask
    <3>1. S.tasks[k] = NoTask
        BY <1>3, <2>3
    <3>2. PICK t \in Tasks : t = S.tasks
        BY <2>2
    <3>3. Moved(t, l)[k] = NoTask
        BY <3>1, <3>2, MovedFields
    <3> QED BY <2>1, <3>2, <3>3
  <2> QED BY <1>1, <1>2, <1>3, <1>5, <2>3 DEF Plain
<1>6. ASSUME NEW i \in Ids, NEW text \in Texts, CommitNewTask(i, text) PROVE GoneInv'
  <2>1. PICK x \in Task, X \in State, T \in State :
              /\ X.doc = [doc EXCEPT ![i] = x] /\ X.tasks = tasks /\ X.lists = lists
              /\ X.owed = owed /\ X.overtaken = overtaken
              /\ T = Rendered(X)
              /\ doc' = T.doc /\ tasks' = [T.tasks EXCEPT ![i] = x] /\ lists' = T.lists
              /\ owed' = T.owed /\ overtaken' = T.overtaken /\ pending' = <<>>
    BY <1>6, TaskAddedBy
  <2>2. i \in fresh /\ fresh' = fresh \ {i} /\ gone' = gone
    BY <1>6 DEF CommitNewTask, history
  <2>3. ASSUME NEW k \in Ids \ {i}, Nowhere(k) PROVE Absent(k) /\ owed'[k] = owed[k]
    <3>1. X.doc[k] = NoTask
        BY <2>1, <2>3 DEF Nowhere, TypeOK, Tasks
    <3>2. T.doc[k] = NoTask /\ T.tasks[k] = NoTask /\ T.owed[k] = owed[k]
        BY <2>1, <2>3, <3>1, NowhereKept
    <3> QED BY <2>1, <3>2 DEF State, Tasks
  <2>4. i \notin gone
    BY <1>0, <2>2
  <2> QED BY <1>0, <2>1, <2>2, <2>3, <2>4 DEF GoneInv, Nowhere
<1>7. ASSUME NEW i \in Ids, CommitTaskEdit(i) PROVE GoneInv'
  <2>1. /\ doc' = S.doc /\ pending' = <<>>
        /\ \/ tasks' = S.tasks /\ owed' = S.owed
           \/ /\ \E x \in Task : tasks' = [S.tasks EXCEPT ![i] = x]
              /\ owed' = [S.owed EXCEPT ![i] = draft]
    BY <1>2, <1>7, TaskEditedBy
  <2>2. ~Nowhere(i)
    BY <1>7 DEF CommitTaskEdit, Visible, Nowhere
  <2>3. ASSUME NEW k \in Ids, Nowhere(k) PROVE Absent(k) /\ owed'[k] = owed[k]
    <3>1. k # i
        BY <2>2, <2>3
    <3> QED BY <1>3, <2>1, <2>3, <3>1 DEF State, Tasks
  <2>4. fresh' = fresh /\ gone' = gone
    BY <1>7 DEF CommitTaskEdit, history
  <2> QED BY <1>1, <2>1, <2>3, <2>4
<1>8. ASSUME NEW i \in Ids, Debounced(i) PROVE GoneInv'
  <2>1. PICK c : c = [kind |-> "commit", id |-> i]
    OBVIOUS
  <2>2. /\ tasks' = tasks
        /\ \/ /\ pending' = <<>>
              /\ \/ doc' = doc /\ owed' = owed
                 \/ /\ tasks[i] # NoTask
                    /\ doc' = [doc EXCEPT ![i] = tasks[i]]
                    /\ owed' = [owed EXCEPT ![i] = IF tasks[i].text = @ THEN NoText ELSE @]
           \/ /\ doc' = doc /\ owed' = owed
              /\ Len(pending) < MaxPending
              /\ pending' = Append(pending, c)
    BY <1>8, <2>1, TaskDebouncedBy
  <2>3. fresh' = fresh /\ gone' = gone
    BY <1>8 DEF Debounced, history
  <2>4. ASSUME NEW k \in Ids, Nowhere(k) PROVE Absent(k) /\ owed'[k] = owed[k]
    BY <2>2, <2>4 DEF Nowhere, TypeOK, Tasks
  <2>5. CASE pending' = <<>>
    BY <1>1, <2>3, <2>4, <2>5
  <2>6. CASE Len(pending) < MaxPending /\ pending' = Append(pending, c)
    <3>1. c \in Updater /\ c.kind # "merge"
        BY <2>1 DEF Updater
    <3>2. /\ Len(pending') = Len(pending) + 1 /\ Len(pending) \in Nat
          /\ pending'[Len(pending')] = c
          /\ \A n \in 1..Len(pending) : pending'[n] = pending[n]
        BY <2>6, <3>1, Queued
    <3>3. ASSUME NEW n \in 1..Len(pending'), pending'[n].kind = "merge"
          PROVE  n \in 1..Len(pending) /\ pending'[n] = pending[n]
        BY <3>1, <3>2, <3>3
    <3>4. \A k \in Ids : Nowhere(k) => Nowhere(k)'
        BY <2>4, <3>3 DEF Nowhere
    <3> QED BY <1>0, <2>3, <2>4, <3>4 DEF GoneInv
  <2> QED BY <2>2, <2>5, <2>6
<1>9. ASSUME NEW i \in Ids, Toggle(i) PROVE GoneInv'
  <2>1. /\ pending' = <<>>
        /\ \/ tasks' = S.tasks /\ doc' = S.doc /\ owed' = S.owed
           \/ \E x \in Task :
                 /\ tasks' = [S.tasks EXCEPT ![i] = x] /\ doc' = [S.doc EXCEPT ![i] = x]
                 /\ owed' = [S.owed EXCEPT ![i] = IF x.text = @ THEN NoText ELSE @]
    BY <1>2, <1>9, TaskToggledBy
  <2>2. ~Nowhere(i)
    BY <1>9 DEF Toggle, Visible, Nowhere
  <2>3. ASSUME NEW k \in Ids, Nowhere(k) PROVE Absent(k) /\ owed'[k] = owed[k]
    <3>1. k # i
        BY <2>2, <2>3
    <3> QED BY <1>3, <2>1, <2>3, <3>1 DEF State, Tasks
  <2>4. fresh' = fresh /\ gone' = gone
    BY <1>9 DEF Toggle, history
  <2> QED BY <1>1, <2>1, <2>3, <2>4
<1>10. ASSUME NEW i \in Ids, Delete(i) PROVE GoneInv'
  <2>1. PICK X \in State, T \in State :
              /\ X.doc = [doc EXCEPT ![i] = NoTask] /\ X.tasks = tasks /\ X.owed = owed
              /\ T = Rendered(X)
              /\ doc' = T.doc /\ tasks' = [T.tasks EXCEPT ![i] = NoTask]
              /\ owed' = [T.owed EXCEPT ![i] = NoText] /\ pending' = <<>>
    BY <1>10, TaskDeletedBy
  <2>2. /\ fresh' = fresh
        /\ gone' = IF i \in Waiting THEN gone ELSE gone \union {i}
    BY <1>10 DEF Delete
  <2>3. ~Nowhere(i)
    BY <1>10 DEF Delete, Visible, Nowhere
  <2>4. ASSUME NEW k \in Ids, Nowhere(k) PROVE Absent(k) /\ owed'[k] = owed[k]
    <3>1. k # i
        BY <2>3, <2>4
    <3>2. X.doc[k] = NoTask
        BY <2>1, <2>4, <3>1 DEF Nowhere, TypeOK, Tasks
    <3>3. T.doc[k] = NoTask /\ T.tasks[k] = NoTask /\ T.owed[k] = owed[k]
        BY <2>1, <2>4, <3>2, NowhereKept
    <3> QED BY <2>1, <3>1, <3>3 DEF State, Tasks
  <2>5. ASSUME i \notin Waiting PROVE Absent(i)
    <3>1. X.doc[i] = NoTask
        BY <2>1 DEF TypeOK, Tasks
    <3>2. T.doc[i] = NoTask
        BY <2>1, <2>5, <3>1, RenderedDoc
    <3> QED BY <2>1, <3>2 DEF State, Tasks
  <2>6. i \notin fresh
    BY <2>3 DEF GoneInv
  <2> QED BY <1>0, <2>1, <2>2, <2>4, <2>5, <2>6 DEF GoneInv, Nowhere
<1>11. ASSUME NEW d \in Tasks, NEW ls \in SUBSET Lists, Synced(d, ls) PROVE GoneInv'
  <2>1. PICK u \in Updater : /\ u.kind = "merge" /\ u.tasks = d
                             /\ pending' = Append(pending, u) /\ Len(pending) < MaxPending
    BY <1>11, FrameQueued
  <2>2. /\ Len(pending') = Len(pending) + 1 /\ Len(pending) \in Nat
        /\ pending'[Len(pending')] = u
        /\ \A n \in 1..Len(pending) : pending'[n] = pending[n]
    BY <2>1, Queued
  <2>3. /\ doc' = d /\ tasks' = tasks /\ owed' = owed
        /\ gone' \subseteq gone /\ fresh' \subseteq fresh
        /\ \A k \in Ids : k \in gone' \union fresh' => d[k] \in {doc[k], NoTask}
    BY <1>11 DEF Synced, shown
  <2>4. ASSUME NEW k \in Ids, Nowhere(k), d[k] = NoTask PROVE Nowhere(k)'
    <3>1. ASSUME NEW n \in 1..Len(pending'), pending'[n].kind = "merge"
          PROVE  pending'[n].tasks[k] = NoTask
      <4>1. CASE n = Len(pending')
        BY <2>1, <2>2, <2>4, <4>1
      <4>2. CASE n # Len(pending')
        <5>1. n \in 1..Len(pending) /\ pending'[n] = pending[n]
            BY <2>2, <4>2
        <5> QED BY <2>4, <3>1, <5>1 DEF Nowhere
      <4> QED BY <4>1, <4>2
    <3> QED BY <2>3, <2>4, <3>1 DEF Nowhere
  <2>5. ASSUME NEW k \in Ids, Nowhere(k), k \in gone' \union fresh' PROVE Nowhere(k)'
    BY <2>3, <2>4, <2>5 DEF Nowhere
  <2> QED BY <1>0, <2>3, <2>5 DEF GoneInv
<1>12. CASE Reload
    BY <1>0, <1>12 DEF Reload, engineVars, GoneInv, Nowhere
<1>13. CASE UNCHANGED vars
    BY <1>13 DEF vars, engineVars, shown, inputs, history, GoneInv, Nowhere
<1>14. CASE Next
    BY <1>2, <1>4, <1>5, <1>6, <1>7, <1>8, <1>9, <1>10, <1>11, <1>12, <1>14, TaskSteps
<1> QED BY <1>13, <1>14

(* useVersaStore.ts:232-233: no timer brings a deleted task back, but for one  *)
(* whose updater was waiting when the task was deleted.                        *)
THEOREM DeletesStay == Spec => []DeletedStaysDeleted
<1>1. Init => GoneInv
    BY DEF Init, GoneInv, Nowhere
<1>2. GoneInv => DeletedStaysDeleted
    BY DEF GoneInv, Nowhere, DeletedStaysDeleted
<1> QED BY <1>1, <1>2, TypeCorrect, NextGoneInv, PTL DEF Spec

-----------------------------------------------------------------------------
(* Text that is owed.                                                         *)

(* What is owed for a task is what the screen says of it, unless a frame or a *)
(* re-run of the connect effect replaced that.                                *)
OwedFits(t, o, v, i) == o[i] # NoText /\ i \notin v => t[i] # NoTask /\ t[i].text = o[i]

OwedInv ==
    /\ TypedUnlessOvertaken
    /\ \A i \in Ids : OwedFits(tasks, owed, overtaken, i)

LEMMA RenderedOwed ==
    ASSUME TypeOK, NEW S \in State, NEW i \in Ids, OwedFits(S.tasks, S.owed, S.overtaken, i),
           S.owed[i] # NoText => i \in timer \union Waiting \union S.overtaken
    PROVE  /\ OwedFits(Rendered(S).tasks, Rendered(S).owed, Rendered(S).overtaken, i)
           /\ Rendered(S).owed[i] # NoText => i \in timer \union Rendered(S).overtaken
<1> DEFINE N == Len(pending)
           Later(j) == \E n \in (j + 1)..N : IsCommit(pending[n], i)
           Good(j) == {T \in State :
                          /\ OwedFits(T.tasks, T.owed, T.overtaken, i)
                          /\ T.owed[i] # NoText => i \in timer \union T.overtaken \/ Later(j)}
           K == [j \in 0..N |-> Good(j)]
<1>1. N \in Nat /\ \A j \in 1..N : pending[j] \in Updater
    BY DEF TypeOK
<1> HIDE DEF N
<1>2. S \in Good(0)
  <2>1. i \in Waiting => Later(0)
    BY DEF Waiting, IsCommit, N
  <2> HIDE DEF Later
  <2> QED BY <2>1
<1>3. ASSUME NEW j \in 1..N, NEW T \in Good(j - 1) PROVE Apply(T, pending[j]) \in Good(j)
  <2>1. PICK u \in Updater : u = pending[j]
    BY <1>1
  <2>2. PICK A \in State : A = Apply(T, u)
    BY ApplyType
  <2>3. Later(j - 1) => Later(j) \/ IsCommit(u, i)
    BY <1>1, <2>1
  <2> HIDE DEF Later
  <2>4. /\ OwedFits(T.tasks, T.owed, T.overtaken, i)
        /\ T.owed[i] # NoText => i \in timer \union T.overtaken \/ Later(j - 1)
    OBVIOUS
  <2>5. CASE u.kind = "merge"
    <3>1. A.owed = T.owed /\ A.overtaken = T.overtaken \union Late(T)
        BY <2>2, <2>5, ApplyTask
    <3>2. T.owed[i] # NoText => i \in A.overtaken
        BY <3>1 DEF Late
    <3>3. A \in Good(j)
        BY <3>1, <3>2 DEF OwedFits
    <3> QED BY <2>1, <2>2, <3>3
  <2>6. CASE u.kind = "commit"
    <3>1. /\ A.tasks = T.tasks /\ A.overtaken = T.overtaken
          /\ A.owed[i] = IF /\ u.id = i /\ T.tasks[i] # NoTask
                            /\ T.tasks[i].text = T.owed[i]
                         THEN NoText ELSE T.owed[i]
        BY <2>2, <2>6, ApplyTask
    <3>2. OwedFits(A.tasks, A.owed, A.overtaken, i)
        BY <2>4, <3>1 DEF OwedFits
    <3>3. ASSUME A.owed[i] # NoText PROVE i \in timer \union A.overtaken \/ Later(j)
        BY <2>3, <2>4, <3>1, <3>3 DEF OwedFits, IsCommit
    <3>4. A \in Good(j)
        BY <3>2, <3>3
    <3> QED BY <2>1, <2>2, <3>4
  <2> QED BY <2>5, <2>6 DEF Updater
<1>4. \A j \in 0..N : Good(j) \subseteq State
    OBVIOUS
<1>5. Good(N) \subseteq {T \in State :
                          /\ OwedFits(T.tasks, T.owed, T.overtaken, i)
                          /\ T.owed[i] # NoText => i \in timer \union T.overtaken}
  <2>1. ~Later(N)
    BY <1>1
  <2> HIDE DEF Later
  <2> QED BY <2>1
<1> HIDE DEF Good
<1>6. K \in [0..N -> SUBSET State] /\ S \in K[0] /\ K[N] = Good(N)
    BY <1>1, <1>2, <1>4
<1>7. ASSUME NEW j \in 1..N, NEW T \in K[j - 1] PROVE Apply(T, pending[j]) \in K[j]
  <2>1. j - 1 \in 0..N /\ j \in 0..N
    BY <1>1
  <2> QED BY <1>3, <2>1
<1> HIDE DEF K
<1>8. Rendered(S) \in Good(N)
    BY <1>6, <1>7, RenderedIn DEF N
<1> QED BY <1>5, <1>8

(* The queue, then a change to one task. *)
LEMMA NextOwedInv == TypeOK /\ GoneInv /\ OwedInv /\ [Next]_vars => OwedInv'
<1> SUFFICES ASSUME TypeOK, GoneInv, OwedInv, [Next]_vars PROVE OwedInv'
    OBVIOUS
<1> DEFINE Fits(T) == \A k \in Ids :
              /\ OwedFits(T.tasks, T.owed, T.overtaken, k)
              /\ T.owed[k] # NoText => k \in timer \union T.overtaken
<1>1. ASSUME NEW X \in State, X.tasks = tasks, X.owed = owed, X.overtaken = overtaken
      PROVE  Fits(Rendered(X))
  <2>1. ASSUME NEW k \in Ids
        PROVE  /\ OwedFits(X.tasks, X.owed, X.overtaken, k)
               /\ X.owed[k] # NoText => k \in timer \union Waiting \union X.overtaken
    BY <1>1 DEF OwedInv, TypedUnlessOvertaken
  <2> QED BY <2>1, RenderedOwed
<1>2. PICK S \in State : S = Rendered(Now)
    BY NowIsState, RenderedType
<1>3. Fits(S)
  <2>1. Now.tasks = tasks /\ Now.owed = owed /\ Now.overtaken = overtaken
    BY DEF Now
  <2> HIDE DEF Fits
  <2> QED BY <1>1, <1>2, <2>1, NowIsState
<1>4. ASSUME \A k \in Ids : /\ OwedFits(tasks', owed', overtaken', k)
                            /\ owed'[k] # NoText => k \in timer' \union overtaken'
      PROVE  OwedInv'
    BY <1>4 DEF OwedInv, TypedUnlessOvertaken
<1>5. CASE Plain /\ tasks' = S.tasks
    BY <1>2, <1>3, <1>4, <1>5 DEF Plain
<1>6. CASE Plain /\ \E l \in Lists : tasks' = Moved(S.tasks, l)
  <2>1. PICK l \in Lists : tasks' = Moved(S.tasks, l)
    BY <1>6
  <2>2. PICK t \in Tasks : t = S.tasks
    BY DEF State
  <2>3. owed' = S.owed /\ overtaken' = S.overtaken /\ timer' = timer
    BY <1>2, <1>6 DEF Plain
  <2>4. ASSUME NEW k \in Ids PROVE OwedFits(tasks', owed', overtaken', k)
    <3>1. /\ (t[k] = NoTask) <=> (tasks'[k] = NoTask)
          /\ t[k] # NoTask => tasks'[k].text = t[k].text
        BY <2>1, <2>2, MovedFields
    <3> QED BY <1>3, <2>2, <2>3, <3>1 DEF OwedFits
  <2> QED BY <1>3, <1>4, <2>3, <2>4
<1>7. ASSUME NEW i \in Ids, NEW text \in Texts, CommitNewTask(i, text) PROVE OwedInv'
  <2>1. PICK x \in Task, X \in State, T \in State :
              /\ X.doc = [doc EXCEPT ![i] = x] /\ X.tasks = tasks /\ X.lists = lists
              /\ X.owed = owed /\ X.overtaken = overtaken
              /\ T = Rendered(X)
              /\ doc' = T.doc /\ tasks' = [T.tasks EXCEPT ![i] = x] /\ lists' = T.lists
              /\ owed' = T.owed /\ overtaken' = T.overtaken /\ pending' = <<>>
    BY <1>7, TaskAddedBy
  <2>2. Nowhere(i) /\ owed[i] = NoText
    BY <1>7 DEF CommitNewTask, GoneInv
  <2>3. owed'[i] = NoText
    <3>1. X.tasks[i] = NoTask
        BY <2>1, <2>2 DEF Nowhere
    <3> QED BY <2>1, <2>2, <3>1, RenderedAbsent DEF Nowhere
  <2>4. Fits(T)
    <3> HIDE DEF Fits
    <3> QED BY <1>1, <2>1
  <2>5. timer' = timer
    BY <1>7 DEF CommitNewTask
  <2>6. ASSUME NEW k \in Ids PROVE OwedFits(tasks', owed', overtaken', k)
    <3>1. CASE k = i
        BY <2>3, <3>1 DEF OwedFits
    <3>2. CASE k # i
      <4>1. tasks'[k] = T.tasks[k]
        BY <2>1, <3>2 DEF State, Tasks
      <4> QED BY <2>1, <2>4, <4>1 DEF OwedFits
    <3> QED BY <3>1, <3>2
  <2> QED BY <1>4, <2>1, <2>4, <2>5, <2>6
<1>8. ASSUME NEW i \in Ids, CommitTaskEdit(i) PROVE OwedInv'
  <2>1. timer' = timer \union {i}
    BY <1>8 DEF CommitTaskEdit, updateTask
  <2>2. \/ tasks' = S.tasks /\ owed' = S.owed /\ overtaken' = S.overtaken
        \/ /\ \E x \in Task : tasks' = [S.tasks EXCEPT ![i] = x] /\ x.text = draft
           /\ owed' = [S.owed EXCEPT ![i] = draft]
           /\ overtaken' = S.overtaken \ {i}
    BY <1>2, <1>8, TaskEditedBy
  <2>3. CASE tasks' = S.tasks /\ owed' = S.owed /\ overtaken' = S.overtaken
    BY <1>3, <1>4, <2>1, <2>3
  <2>4. CASE /\ \E x \in Task : tasks' = [S.tasks EXCEPT ![i] = x] /\ x.text = draft
             /\ owed' = [S.owed EXCEPT ![i] = draft]
             /\ overtaken' = S.overtaken \ {i}
    <3>1. PICK x \in Task : tasks' = [S.tasks EXCEPT ![i] = x] /\ x.text = draft
        BY <2>4
    <3>2. x # NoTask
        BY NoTaskAssumption
    <3>3. ASSUME NEW k \in Ids
          PROVE  /\ OwedFits(tasks', owed', overtaken', k)
                 /\ owed'[k] # NoText => k \in timer' \union overtaken'
      <4>1. CASE k = i
        <5>1. tasks'[k] = x /\ owed'[k] = x.text
            BY <2>4, <3>1, <4>1 DEF State, Tasks
        <5> QED BY <2>1, <3>2, <4>1, <5>1 DEF OwedFits
      <4>2. CASE k # i
        <5>1. tasks'[k] = S.tasks[k] /\ owed'[k] = S.owed[k]
            BY <2>4, <3>1, <4>2 DEF State, Tasks
        <5> QED BY <1>3, <2>1, <2>4, <4>2, <5>1 DEF OwedFits
      <4> QED BY <4>1, <4>2
    <3> QED BY <1>4, <3>3
  <2> QED BY <2>2, <2>3, <2>4
<1>9. ASSUME NEW i \in Ids, Debounced(i) PROVE OwedInv'
  <2>1. PICK c : c = [kind |-> "commit", id |-> i]
    OBVIOUS
  <2>2. /\ tasks' = tasks /\ overtaken' = overtaken /\ timer' = timer \ {i}
        /\ \/ /\ pending = <<>> /\ pending' = <<>>
              /\ \/ tasks[i] = NoTask /\ doc' = doc /\ owed' = owed
                 \/ /\ tasks[i] # NoTask
                    /\ doc' = [doc EXCEPT ![i] = tasks[i]]
                    /\ owed' = [owed EXCEPT ![i] = IF tasks[i].text = @ THEN NoText ELSE @]
           \/ /\ doc' = doc /\ owed' = owed
              /\ Len(pending) < MaxPending
              /\ pending' = Append(pending, c)
    BY <1>9, <2>1, TaskDebouncedBy
  <2>3. CASE /\ doc' = doc /\ owed' = owed
             /\ Len(pending) < MaxPending
             /\ pending' = Append(pending, c)
    <3>1. c \in Updater /\ IsCommit(c, i)
        BY <2>1 DEF Updater, IsCommit
    <3>2. /\ Len(pending') = Len(pending) + 1 /\ Len(pending) \in Nat
          /\ pending'[Len(pending')] = c
          /\ \A n \in 1..Len(pending) : pending'[n] = pending[n]
        BY <2>3, <3>1, Queued
    <3>3. Waiting \union {i} \subseteq Waiting'
      <4>1. i \in Waiting'
        BY <3>1, <3>2 DEF Waiting, IsCommit
      <4>2. ASSUME NEW k \in Waiting PROVE k \in Waiting'
        <5>1. PICK n \in 1..Len(pending) : IsCommit(pending[n], k)
            BY DEF Waiting, IsCommit
        <5>2. n \in 1..Len(pending') /\ IsCommit(pending'[n], k)
            BY <3>2, <5>1
        <5> QED BY <5>2 DEF Waiting, IsCommit
      <4> QED BY <4>1, <4>2
    <3> QED BY <2>2, <2>3, <3>3 DEF OwedInv, TypedUnlessOvertaken
  <2>4. CASE /\ pending = <<>>
             /\ \/ tasks[i] = NoTask /\ owed' = owed
                \/ /\ tasks[i] # NoTask
                   /\ owed' = [owed EXCEPT ![i] = IF tasks[i].text = @ THEN NoText ELSE @]
    <3>1. Waiting = {}
        BY <2>4 DEF Waiting
    <3>2. ASSUME NEW k \in Ids
          PROVE  /\ OwedFits(tasks, owed, overtaken, k)
                 /\ owed[k] # NoText => k \in timer \union overtaken
        BY <3>1 DEF OwedInv, TypedUnlessOvertaken
    <3>3. owed \in [Ids -> Texts \union {NoText}]
        BY DEF TypeOK
    <3>4. ASSUME NEW k \in Ids
          PROVE  /\ OwedFits(tasks', owed', overtaken', k)
                 /\ owed'[k] # NoText => k \in timer' \union overtaken'
      <4>1. CASE k = i
        <5>1. CASE tasks[i] = NoTask /\ owed' = owed
            BY <2>2, <3>2, <4>1, <5>1 DEF OwedFits
        <5>2. CASE /\ tasks[i] # NoTask
                   /\ owed' = [owed EXCEPT ![i] = IF tasks[i].text = @ THEN NoText ELSE @]
          <6>1. owed'[i] = IF tasks[i].text = owed[i] THEN NoText ELSE owed[i]
            BY <3>3, <5>2
          <6> QED BY <2>2, <3>2, <4>1, <6>1 DEF OwedFits
        <5> QED BY <2>4, <5>1, <5>2
      <4>2. CASE k # i
        <5>1. owed'[k] = owed[k]
            BY <2>4, <3>3, <4>2
        <5> QED BY <2>2, <3>2, <4>2, <5>1 DEF OwedFits
      <4> QED BY <4>1, <4>2
    <3> QED BY <1>4, <3>4
  <2> QED BY <2>2, <2>3, <2>4
<1>10. ASSUME NEW i \in Ids, Toggle(i) PROVE OwedInv'
  <2>1. /\ overtaken' = S.overtaken
        /\ \/ tasks' = S.tasks /\ owed' = S.owed
           \/ /\ S.tasks[i] # NoTask
              /\ \E x \in Task :
                    /\ tasks' = [S.tasks EXCEPT ![i] = x] /\ doc' = [S.doc EXCEPT ![i] = x]
                    /\ x.text = S.tasks[i].text
                    /\ owed' = [S.owed EXCEPT ![i] = IF x.text = @ THEN NoText ELSE @]
    BY <1>2, <1>10, TaskToggledBy
  <2>2. timer' = timer
    BY <1>10 DEF Toggle
  <2>3. CASE tasks' = S.tasks /\ owed' = S.owed
    BY <1>3, <1>4, <2>1, <2>2, <2>3
  <2>4. ASSUME NEW x \in Task, S.tasks[i] # NoTask, tasks' = [S.tasks EXCEPT ![i] = x],
               x.text = S.tasks[i].text,
               owed' = [S.owed EXCEPT ![i] = IF x.text = @ THEN NoText ELSE @]
        PROVE  OwedInv'
    <3>1. x # NoTask
        BY NoTaskAssumption
    <3>2. ASSUME NEW k \in Ids
          PROVE  /\ OwedFits(tasks', owed', overtaken', k)
                 /\ owed'[k] # NoText => k \in timer' \union overtaken'
      <4>1. CASE k = i
        <5>1. tasks'[k] = x /\ owed'[k] = IF x.text = S.owed[k] THEN NoText ELSE S.owed[k]
            BY <2>4, <4>1 DEF State, Tasks
        <5> QED BY <1>3, <2>1, <2>2, <2>4, <3>1, <4>1, <5>1 DEF OwedFits
      <4>2. CASE k # i
        <5>1. tasks'[k] = S.tasks[k] /\ owed'[k] = S.owed[k]
            BY <2>4, <4>2 DEF State, Tasks
        <5> QED BY <1>3, <2>1, <2>2, <5>1 DEF OwedFits
      <4> QED BY <4>1, <4>2
    <3> QED BY <1>4, <3>2
  <2> QED BY <2>1, <2>3, <2>4
<1>11. ASSUME NEW i \in Ids, Delete(i) PROVE OwedInv'
  <2>1. PICK X \in State, T \in State :
              /\ X.doc = [doc EXCEPT ![i] = NoTask] /\ X.tasks = tasks /\ X.lists = lists
              /\ X.owed = owed /\ X.overtaken = overtaken
              /\ T = Rendered(X)
              /\ doc' = T.doc /\ tasks' = [T.tasks EXCEPT ![i] = NoTask] /\ lists' = T.lists
              /\ owed' = [T.owed EXCEPT ![i] = NoText] /\ overtaken' = T.overtaken
              /\ pending' = <<>>
    BY <1>11, TaskDeletedBy
  <2>2. Fits(T)
    <3> HIDE DEF Fits
    <3> QED BY <1>1, <2>1
  <2>3. timer' = timer
    BY <1>11 DEF Delete
  <2>4. ASSUME NEW k \in Ids
        PROVE  /\ OwedFits(tasks', owed', overtaken', k)
               /\ owed'[k] # NoText => k \in timer' \union overtaken'
    <3>1. CASE k = i
      <4>1. owed'[k] = NoText
        BY <2>1, <3>1 DEF State
      <4> QED BY <4>1 DEF OwedFits
    <3>2. CASE k # i
      <4>1. tasks'[k] = T.tasks[k] /\ owed'[k] = T.owed[k]
        BY <2>1, <3>2 DEF State, Tasks
      <4> QED BY <2>1, <2>2, <2>3, <4>1 DEF OwedFits
    <3> QED BY <3>1, <3>2
  <2> QED BY <1>4, <2>4
<1>12. ASSUME NEW d \in Tasks, NEW ls \in SUBSET Lists, Synced(d, ls) PROVE OwedInv'
  <2>1. PICK u \in Updater : pending' = Append(pending, u) /\ Len(pending) < MaxPending
    BY <1>12, FrameQueued
  <2>2. /\ Len(pending') = Len(pending) + 1 /\ Len(pending) \in Nat
        /\ \A n \in 1..Len(pending) : pending'[n] = pending[n]
    BY <2>1, Queued
  <2>3. Waiting \subseteq Waiting'
    <3>1. ASSUME NEW k \in Waiting PROVE k \in Waiting'
      <4>1. PICK n \in 1..Len(pending) : IsCommit(pending[n], k)
        BY DEF Waiting, IsCommit
      <4>2. n \in 1..Len(pending') /\ IsCommit(pending'[n], k)
        BY <2>2, <4>1
      <4> QED BY <4>2 DEF Waiting, IsCommit
    <3> QED BY <3>1
  <2>4. tasks' = tasks /\ owed' = owed /\ overtaken' = overtaken /\ timer' = timer
    BY <1>12 DEF Synced, shown
  <2> QED BY <2>3, <2>4 DEF OwedInv, TypedUnlessOvertaken
<1>13. CASE Reload
    BY <1>4, <1>13 DEF Reload, OwedFits
<1>14. CASE UNCHANGED vars
  <2>1. Waiting' = Waiting
    BY <1>14 DEF vars, Waiting
  <2> QED BY <1>14, <2>1 DEF vars, engineVars, shown, inputs, history, OwedInv, TypedUnlessOvertaken
<1> HIDE DEF Fits
<1>15. CASE Next
    BY <1>2, <1>5, <1>6, <1>7, <1>8, <1>9, <1>10, <1>11, <1>12, <1>13, <1>15, TaskSteps
<1> QED BY <1>14, <1>15

(* useVersaStore.ts:219-241: a text that was entered is in the engine, or a    *)
(* timer or an updater will put it there, or a frame or a re-run of the         *)
(* connect effect replaced it on the screen (100-103, 160-163).                 *)
THEOREM EditsArrive == Spec => []TypedUnlessOvertaken
<1>1. Init => GoneInv
    BY DEF Init, GoneInv, Nowhere
<1>2. Init => OwedInv
    BY DEF Init, OwedInv, OwedFits, TypedUnlessOvertaken
<1>3. OwedInv => TypedUnlessOvertaken
    BY DEF OwedInv
<1> QED BY <1>1, <1>2, <1>3, TypeCorrect, NextGoneInv, NextOwedInv, PTL DEF Spec

-----------------------------------------------------------------------------
(* The screen and the engine.                                                 *)

(* A task as the screen may show it: its list may have been deleted. *)
Agree(x, y) ==
    \/ x = y
    \/ x # NoTask /\ y # NoTask /\ x = [y EXCEPT !.list = "default"]

Weak(x, y) == x = NoTask => y = NoTask

Merging(n) == pending[n].kind = "merge"

(* With no merge waiting, screen and engine agree on the task, or a timer or   *)
(* an updater will see to it; otherwise the last merge brings what the engine   *)
(* has, and no updater that runs before it changes that.                      *)
Follows(i) ==
    \/ /\ \A n \in 1..Len(pending) : ~Merging(n)
       /\ \/ Agree(tasks[i], doc[i])
          \/ i \in timer \union Waiting /\ Weak(tasks[i], doc[i])
    \/ \E m \in 1..Len(pending) :
          /\ Merging(m) /\ pending[m].tasks[i] = doc[i]
          /\ \A n \in (m + 1)..Len(pending) : ~Merging(n)
          /\ \A n \in 1..(m - 1) : ~IsCommit(pending[n], i)

ScreenInv == \A i \in Ids \ raced : Follows(i)

(* What Follows says when the queue is empty. *)
Settled(x, y, i) == Agree(x, y) \/ (i \in timer /\ Weak(x, y))

LEMMA AgreeWeak == ASSUME NEW x, NEW y, Agree(x, y) PROVE Weak(x, y)
BY DEF Agree, Weak

LEMMA RenderedNoMerge ==
    ASSUME TypeOK, NEW S \in State, NEW i \in Ids,
           \A n \in 1..Len(pending) : ~Merging(n),
           \/ Agree(S.tasks[i], S.doc[i])
           \/ i \in timer \union Waiting /\ Weak(S.tasks[i], S.doc[i])
    PROVE  Settled(Rendered(S).tasks[i], Rendered(S).doc[i], i)
<1> DEFINE N == Len(pending)
           Later(j) == \E n \in (j + 1)..N : IsCommit(pending[n], i)
           Good(j) == {T \in State :
                          \/ Agree(T.tasks[i], T.doc[i])
                          \/ (i \in timer \/ Later(j)) /\ Weak(T.tasks[i], T.doc[i])}
           K == [j \in 0..N |-> Good(j)]
<1>1. N \in Nat /\ \A j \in 1..N : pending[j] \in Updater /\ ~Merging(j)
    BY DEF TypeOK
<1> HIDE DEF N
<1>2. S \in Good(0)
  <2>1. i \in Waiting => Later(0)
    BY DEF Waiting, IsCommit, N
  <2> HIDE DEF Later
  <2> QED BY <2>1
<1>3. ASSUME NEW j \in 1..N, NEW T \in Good(j - 1) PROVE Apply(T, pending[j]) \in Good(j)
  <2>1. PICK u \in Updater : u = pending[j]
    BY <1>1
  <2>2. PICK A \in State : A = Apply(T, u)
    BY ApplyType
  <2>3. Later(j - 1) => Later(j) \/ IsCommit(u, i)
    BY <1>1, <2>1
  <2> HIDE DEF Later
  <2>4. T \in State /\ \/ Agree(T.tasks[i], T.doc[i])
                       \/ (i \in timer \/ Later(j - 1)) /\ Weak(T.tasks[i], T.doc[i])
    OBVIOUS
  <2>5. u.kind = "commit"
    BY <1>1, <2>1 DEF Updater, Merging
  <2>6. /\ A.tasks = T.tasks
        /\ A.doc[i] = IF u.id = i /\ T.tasks[i] # NoTask THEN T.tasks[i] ELSE T.doc[i]
    BY <2>2, <2>4, <2>5, ApplyTask
  <2>7. \/ Agree(A.tasks[i], A.doc[i])
        \/ (i \in timer \/ Later(j)) /\ Weak(A.tasks[i], A.doc[i])
    <3>1. CASE u.id = i
      <4>1. CASE T.tasks[i] = NoTask
        <5>1. T.doc[i] = NoTask
            BY <2>4, <4>1 DEF Weak, Agree
        <5> QED BY <2>6, <4>1, <5>1 DEF Agree
      <4>2. CASE T.tasks[i] # NoTask
        BY <2>6, <3>1, <4>2 DEF Agree
      <4> QED BY <4>1, <4>2
    <3>2. CASE u.id # i
      <4>1. A.tasks[i] = T.tasks[i] /\ A.doc[i] = T.doc[i]
        BY <2>6, <3>2
      <4>2. ~IsCommit(u, i)
        BY <3>2 DEF IsCommit
      <4> QED BY <2>3, <2>4, <4>1, <4>2
    <3> QED BY <3>1, <3>2
  <2> QED BY <2>1, <2>2, <2>7
<1>4. \A j \in 0..N : Good(j) \subseteq State
    OBVIOUS
<1>5. Good(N) \subseteq {T \in State : Settled(T.tasks[i], T.doc[i], i)}
  <2>1. ~Later(N)
    BY <1>1
  <2> HIDE DEF Later
  <2> QED BY <2>1 DEF Settled
<1> HIDE DEF Good
<1>6. K \in [0..N -> SUBSET State] /\ S \in K[0] /\ K[N] = Good(N)
    BY <1>1, <1>2, <1>4
<1>7. ASSUME NEW j \in 1..N, NEW T \in K[j - 1] PROVE Apply(T, pending[j]) \in K[j]
  <2>1. j - 1 \in 0..N /\ j \in 0..N
    BY <1>1
  <2> QED BY <1>3, <2>1
<1> HIDE DEF K
<1>8. Rendered(S) \in Good(N)
    BY <1>6, <1>7, RenderedIn DEF N
<1> QED BY <1>5, <1>8

LEMMA RenderedMerge ==
    ASSUME TypeOK, NEW S \in State, NEW i \in Ids, NEW m \in 1..Len(pending),
           Merging(m), pending[m].tasks[i] = S.doc[i],
           \A n \in (m + 1)..Len(pending) : ~Merging(n),
           \A n \in 1..(m - 1) : ~IsCommit(pending[n], i)
    PROVE  Rendered(S).tasks[i] = Rendered(S).doc[i]
<1> DEFINE N == Len(pending)
           Good(j) == {T \in State : IF j < m THEN T.doc[i] = S.doc[i]
                                     ELSE T.tasks[i] = T.doc[i]}
           K == [j \in 0..N |-> Good(j)]
<1>1. N \in Nat /\ m \in 1..N /\ \A j \in 1..N : pending[j] \in Updater
    BY DEF TypeOK
<1>2. \A n \in (m + 1)..N : ~Merging(n)
    OBVIOUS
<1> HIDE DEF N
<1>3. S \in Good(0)
    BY <1>1
<1>4. ASSUME NEW j \in 1..N, NEW T \in Good(j - 1) PROVE Apply(T, pending[j]) \in Good(j)
  <2>1. PICK u \in Updater : u = pending[j]
    BY <1>1
  <2>2. PICK A \in State : A = Apply(T, u)
    BY ApplyType
  <2>3. T \in State
    OBVIOUS
  <2>4. /\ u.kind = "merge" => A.tasks = u.tasks /\ A.doc = T.doc
        /\ u.kind = "commit" =>
              /\ A.tasks = T.tasks
              /\ A.doc[i] = IF u.id = i /\ T.tasks[i] # NoTask THEN T.tasks[i] ELSE T.doc[i]
    BY <2>2, <2>3, ApplyTask
  <2>5. u.kind = "merge" \/ u.kind = "commit"
    BY DEF Updater
  <2>6. CASE j < m
    <3>1. T.doc[i] = S.doc[i]
        BY <1>1, <2>6
    <3>2. ~IsCommit(u, i)
        BY <1>1, <2>1, <2>6
    <3>3. A.doc[i] = S.doc[i]
        BY <2>4, <2>5, <3>1, <3>2 DEF IsCommit
    <3> QED BY <2>1, <2>2, <2>6, <3>3
  <2>7. CASE j = m
    <3>1. T.doc[i] = S.doc[i]
        BY <1>1, <2>7
    <3>2. u.kind = "merge" /\ u.tasks[i] = S.doc[i]
        BY <2>1, <2>7 DEF Merging
    <3>3. A.tasks[i] = A.doc[i]
        BY <2>4, <3>1, <3>2
    <3> QED BY <1>1, <2>1, <2>2, <2>7, <3>3
  <2>8. CASE j > m
    <3>1. T.tasks[i] = T.doc[i]
        BY <1>1, <2>8
    <3>2. u.kind = "commit"
        BY <1>1, <1>2, <2>1, <2>5, <2>8 DEF Merging
    <3>3. A.tasks[i] = A.doc[i]
        BY <2>4, <3>1, <3>2
    <3> QED BY <1>1, <2>1, <2>2, <2>8, <3>3
  <2> QED BY <1>1, <2>6, <2>7, <2>8
<1>5. \A j \in 0..N : Good(j) \subseteq State
    OBVIOUS
<1>6. Good(N) \subseteq {T \in State : T.tasks[i] = T.doc[i]}
    BY <1>1
<1> HIDE DEF Good
<1>7. K \in [0..N -> SUBSET State] /\ S \in K[0] /\ K[N] = Good(N)
    BY <1>1, <1>3, <1>5
<1>8. ASSUME NEW j \in 1..N, NEW T \in K[j - 1] PROVE Apply(T, pending[j]) \in K[j]
  <2>1. j - 1 \in 0..N /\ j \in 0..N
    BY <1>1
  <2> QED BY <1>4, <2>1
<1> HIDE DEF K
<1>9. Rendered(S) \in Good(N)
    BY <1>7, <1>8, RenderedIn DEF N
<1> QED BY <1>6, <1>9

LEMMA RenderedFollows ==
    ASSUME TypeOK, NEW S \in State, NEW i \in Ids, Follows(i),
           S.tasks[i] = tasks[i], S.doc[i] = doc[i]
    PROVE  Settled(Rendered(S).tasks[i], Rendered(S).doc[i], i)
<1>1. CASE /\ \A n \in 1..Len(pending) : ~Merging(n)
           /\ \/ Agree(tasks[i], doc[i])
              \/ i \in timer \union Waiting /\ Weak(tasks[i], doc[i])
    BY <1>1, RenderedNoMerge
<1>2. CASE \E m \in 1..Len(pending) :
              /\ Merging(m) /\ pending[m].tasks[i] = doc[i]
              /\ \A n \in (m + 1)..Len(pending) : ~Merging(n)
              /\ \A n \in 1..(m - 1) : ~IsCommit(pending[n], i)
  <2>1. Rendered(S).tasks[i] = Rendered(S).doc[i]
    BY <1>2, RenderedMerge
  <2> QED BY <2>1 DEF Settled, Agree
<1> QED BY <1>1, <1>2 DEF Follows

LEMMA SettledMoved ==
    ASSUME NEW t \in Tasks, NEW l, NEW i \in Ids, NEW y \in Task \union {NoTask},
           Settled(t[i], y, i)
    PROVE  Settled(Moved(t, l)[i], y, i)
<1>1. CASE Moved(t, l)[i] = t[i]
    BY <1>1
<1>2. CASE t[i] \in Task /\ Moved(t, l)[i] = [t[i] EXCEPT !.list = "default"]
  <2>1. PICK x \in Task : x = t[i]
    BY <1>2
  <2>2. PICK z : z = [x EXCEPT !.list = "default"]
    OBVIOUS
  <2>3. Moved(t, l)[i] = z /\ x # NoTask
    BY <1>2, <2>1, <2>2, NoTaskAssumption
  <2>4. z # NoTask
    BY <2>2, MovedTask
  <2>5. CASE Agree(x, y)
    <3>1. y \in Task
        BY <2>3, <2>5, NoTaskAssumption DEF Agree
    <3>2. z = [y EXCEPT !.list = "default"]
      <4>1. CASE x = y
        BY <2>2, <4>1
      <4>2. CASE x = [y EXCEPT !.list = "default"]
        BY <2>2, <3>1, <4>2 DEF Task
      <4> QED BY <2>5, <4>1, <4>2 DEF Agree
    <3> QED BY <2>3, <2>4, <3>1, <3>2, NoTaskAssumption DEF Settled, Agree
  <2>6. CASE i \in timer
    BY <2>3, <2>4, <2>6 DEF Settled, Weak
  <2> QED BY <2>1, <2>5, <2>6 DEF Settled
<1> QED BY <1>1, <1>2, MovedAs

LEMMA NextScreenInv == TypeOK /\ GoneInv /\ ScreenInv /\ [Next]_vars => ScreenInv'
<1> SUFFICES ASSUME TypeOK, GoneInv, ScreenInv, [Next]_vars PROVE ScreenInv'
    OBVIOUS
<1>1. ASSUME pending' = <<>>,
             \A k \in Ids \ raced' : \/ Agree(tasks'[k], doc'[k])
                                     \/ k \in timer' /\ Weak(tasks'[k], doc'[k])
      PROVE  ScreenInv'
    BY <1>1 DEF ScreenInv, Follows
<1>2. PICK S \in State : S = Rendered(Now)
    BY NowIsState, RenderedType
<1>3. ASSUME NEW k \in Ids \ raced PROVE Settled(S.tasks[k], S.doc[k], k)
  <2>1. PICK X \in State : X = Now
    BY NowIsState
  <2>2. X.tasks = tasks /\ X.doc = doc
    BY <2>1 DEF Now
  <2> QED BY <1>2, <2>1, <2>2, RenderedFollows DEF ScreenInv
<1>4. CASE Plain /\ tasks' = S.tasks
    BY <1>1, <1>2, <1>3, <1>4 DEF Plain, Settled
<1>5. CASE Plain /\ \E l \in Lists : tasks' = Moved(S.tasks, l)
  <2>1. PICK l \in Lists : tasks' = Moved(S.tasks, l)
    BY <1>5
  <2>2. PICK t \in Tasks : t = S.tasks
    BY DEF State
  <2>3. doc' = S.doc /\ timer' = timer /\ raced' = raced /\ pending' = <<>>
    BY <1>2, <1>5 DEF Plain
  <2>4. ASSUME NEW k \in Ids \ raced PROVE Settled(tasks'[k], doc'[k], k)
    <3>1. PICK y \in Task \union {NoTask} : y = S.doc[k]
        BY DEF State, Tasks
    <3>2. Settled(t[k], y, k)
        BY <1>3, <2>2, <3>1
    <3>3. Settled(Moved(t, l)[k], y, k)
        BY <3>2, SettledMoved
    <3> QED BY <2>1, <2>2, <2>3, <3>1, <3>3
  <2> QED BY <1>1, <2>3, <2>4 DEF Settled
<1>6. ASSUME NEW X \in State, NEW k \in Ids \ raced, X.tasks = tasks, X.doc[k] = doc[k]
      PROVE  Settled(Rendered(X).tasks[k], Rendered(X).doc[k], k)
    BY <1>6, RenderedFollows DEF ScreenInv
<1>7. ASSUME NEW i \in Ids, NEW text \in Texts, CommitNewTask(i, text) PROVE ScreenInv'
  <2>1. PICK x \in Task, X \in State, T \in State :
              /\ X.doc = [doc EXCEPT ![i] = x] /\ X.tasks = tasks /\ X.lists = lists
              /\ X.owed = owed /\ X.overtaken = overtaken
              /\ T = Rendered(X)
              /\ doc' = T.doc /\ tasks' = [T.tasks EXCEPT ![i] = x] /\ lists' = T.lists
              /\ owed' = T.owed /\ overtaken' = T.overtaken /\ pending' = <<>>
    BY <1>7, TaskAddedBy
  <2>2. timer' = timer /\ raced' = raced
    BY <1>7 DEF CommitNewTask, history
  <2>3. Nowhere(i)
    BY <1>7 DEF CommitNewTask, GoneInv
  <2>4. doc'[i] = x
    <3>1. X.tasks[i] = NoTask /\ X.doc[i] = x
        BY <2>1, <2>3 DEF Nowhere, TypeOK, Tasks
    <3> QED BY <2>1, <2>3, <3>1, RenderedAbsent DEF Nowhere
  <2>5. ASSUME NEW k \in Ids \ raced PROVE Settled(tasks'[k], doc'[k], k)
    <3>1. CASE k = i
      <4>1. tasks'[k] = x
        BY <2>1, <3>1 DEF State, Tasks
      <4> QED BY <2>4, <3>1, <4>1 DEF Settled, Agree
    <3>2. CASE k # i
      <4>1. tasks'[k] = T.tasks[k] /\ X.doc[k] = doc[k]
        BY <2>1, <3>2 DEF State, Tasks, TypeOK
      <4> QED BY <1>6, <2>1, <4>1
    <3> QED BY <3>1, <3>2
  <2> QED BY <1>1, <2>1, <2>2, <2>5 DEF Settled
<1>8. ASSUME NEW i \in Ids, CommitTaskEdit(i) PROVE ScreenInv'
  <2>1. /\ doc' = S.doc /\ pending' = <<>>
        /\ \/ tasks' = S.tasks
           \/ \E x \in Task : tasks' = [S.tasks EXCEPT ![i] = x]
    BY <1>2, <1>8, TaskEditedBy
  <2>2. timer' = timer \union {i} /\ raced' = raced
    BY <1>8 DEF CommitTaskEdit, updateTask, history
  <2>3. ASSUME NEW k \in Ids \ raced
        PROVE  \/ Agree(tasks'[k], doc'[k])
               \/ k \in timer' /\ Weak(tasks'[k], doc'[k])
    <3>1. CASE tasks'[k] = S.tasks[k]
        BY <1>3, <2>1, <2>2, <3>1 DEF Settled
    <3>2. CASE tasks'[k] # S.tasks[k]
      <4>1. PICK x \in Task : tasks' = [S.tasks EXCEPT ![i] = x]
        BY <2>1, <3>2
      <4>2. k = i /\ tasks'[k] = x
        BY <3>2, <4>1 DEF State, Tasks
      <4> QED BY <2>2, <4>2, NoTaskAssumption DEF Weak
    <3> QED BY <3>1, <3>2
  <2> QED BY <1>1, <2>1, <2>2, <2>3
<1>9. ASSUME NEW i \in Ids, Debounced(i) PROVE ScreenInv'
  <2>1. PICK c : c = [kind |-> "commit", id |-> i]
    OBVIOUS
  <2>2. /\ tasks' = tasks /\ timer' = timer \ {i}
        /\ \/ /\ pending = <<>> /\ pending' = <<>>
              /\ \/ tasks[i] = NoTask /\ doc' = doc /\ owed' = owed
                 \/ /\ tasks[i] # NoTask
                    /\ doc' = [doc EXCEPT ![i] = tasks[i]]
                    /\ owed' = [owed EXCEPT ![i] = IF tasks[i].text = @ THEN NoText ELSE @]
           \/ /\ doc' = doc /\ owed' = owed
              /\ Len(pending) < MaxPending
              /\ pending' = Append(pending, c)
    BY <1>9, <2>1, TaskDebouncedBy
  <2>3. raced' = raced
    BY <1>9 DEF Debounced, history
  <2>4. CASE /\ pending = <<>> /\ pending' = <<>>
             /\ \/ tasks[i] = NoTask /\ doc' = doc
                \/ tasks[i] # NoTask /\ doc' = [doc EXCEPT ![i] = tasks[i]]
    <3>1. ASSUME NEW k \in Ids \ raced PROVE Settled(tasks[k], doc[k], k)
      <4>1. Follows(k) /\ Waiting = {}
        BY <2>4 DEF ScreenInv, Waiting
      <4> QED BY <2>4, <4>1 DEF Follows, Settled
    <3>2. doc = [k \in Ids |-> doc[k]]
        BY DEF TypeOK, Tasks
    <3>3. ASSUME NEW k \in Ids \ raced
          PROVE  \/ Agree(tasks'[k], doc'[k])
                 \/ k \in timer' /\ Weak(tasks'[k], doc'[k])
      <4>1. CASE k = i
        <5>1. CASE tasks[i] = NoTask /\ doc' = doc
          <6>1. doc[i] = NoTask
            BY <3>1, <4>1, <5>1 DEF Settled, Agree, Weak
          <6> QED BY <2>2, <4>1, <5>1, <6>1 DEF Agree
        <5>2. CASE tasks[i] # NoTask /\ doc' = [doc EXCEPT ![i] = tasks[i]]
          <6>1. doc'[i] = tasks[i]
            BY <3>2, <5>2
          <6> QED BY <2>2, <4>1, <6>1 DEF Agree
        <5> QED BY <2>4, <5>1, <5>2
      <4>2. CASE k # i
        <5>1. doc'[k] = doc[k]
            BY <2>4, <3>2, <4>2
        <5> QED BY <2>2, <3>1, <4>2, <5>1 DEF Settled
      <4> QED BY <4>1, <4>2
    <3> QED BY <1>1, <2>3, <2>4, <3>3
  <2>5. CASE /\ doc' = doc
             /\ Len(pending) < MaxPending
             /\ pending' = Append(pending, c)
    <3>1. c \in Updater /\ IsCommit(c, i) /\ c.kind # "merge"
        BY <2>1 DEF Updater, IsCommit
    <3>2. /\ Len(pending') = Len(pending) + 1 /\ Len(pending) \in Nat
          /\ pending'[Len(pending')] = c
          /\ \A n \in 1..Len(pending) : pending'[n] = pending[n]
        BY <2>5, <3>1, Queued
    <3>3. Waiting \union {i} \subseteq Waiting'
      <4>1. i \in Waiting'
        BY <3>1, <3>2 DEF Waiting, IsCommit
      <4>2. ASSUME NEW k \in Waiting PROVE k \in Waiting'
        <5>1. PICK n \in 1..Len(pending) : IsCommit(pending[n], k)
            BY DEF Waiting, IsCommit
        <5>2. n \in 1..Len(pending') /\ IsCommit(pending'[n], k)
            BY <3>2, <5>1
        <5> QED BY <5>2 DEF Waiting, IsCommit
      <4> QED BY <4>1, <4>2
    <3>4. ASSUME NEW k \in Ids \ raced PROVE Follows(k)'
      <4>1. CASE /\ \A n \in 1..Len(pending) : ~Merging(n)
                 /\ \/ Agree(tasks[k], doc[k])
                    \/ k \in timer \union Waiting /\ Weak(tasks[k], doc[k])
        <5>1. \A n \in 1..Len(pending') : pending'[n].kind # "merge"
            BY <3>1, <3>2, <4>1 DEF Merging
        <5>2. k \in timer \union Waiting => k \in timer' \union Waiting'
            BY <2>2, <3>3
        <5>3. \/ Agree(tasks'[k], doc'[k])
              \/ k \in timer' \union Waiting' /\ Weak(tasks'[k], doc'[k])
            BY <2>2, <2>5, <4>1, <5>2
        <5> QED BY <5>1, <5>3 DEF Follows, Merging
      <4>2. CASE \E m \in 1..Len(pending) :
                    /\ Merging(m) /\ pending[m].tasks[k] = doc[k]
                    /\ \A n \in (m + 1)..Len(pending) : ~Merging(n)
                    /\ \A n \in 1..(m - 1) : ~IsCommit(pending[n], k)
        <5>1. PICK m \in 1..Len(pending) :
                    /\ Merging(m) /\ pending[m].tasks[k] = doc[k]
                    /\ \A n \in (m + 1)..Len(pending) : ~Merging(n)
                    /\ \A n \in 1..(m - 1) : ~IsCommit(pending[n], k)
            BY <4>2
        <5>2. /\ m \in 1..Len(pending') /\ pending'[m].kind = "merge"
              /\ pending'[m].tasks[k] = doc'[k]
            BY <2>5, <3>2, <5>1 DEF Merging
        <5>3. \A n \in (m + 1)..Len(pending') : pending'[n].kind # "merge"
          <6>1. ASSUME NEW n \in (m + 1)..Len(pending') PROVE pending'[n].kind # "merge"
            <7>1. CASE n = Len(pending')
                BY <3>1, <3>2, <7>1
            <7>2. CASE n # Len(pending')
              <8>1. n \in (m + 1)..Len(pending) /\ n \in 1..Len(pending)
                BY <3>2, <7>2
              <8> QED BY <3>2, <5>1, <8>1 DEF Merging
            <7> QED BY <7>1, <7>2
          <6> QED BY <6>1
        <5>4. \A n \in 1..(m - 1) : ~IsCommit(pending'[n], k)
          <6>1. ASSUME NEW n \in 1..(m - 1) PROVE ~IsCommit(pending'[n], k)
            <7>1. n \in 1..Len(pending)
                BY <3>2
            <7> QED BY <3>2, <5>1, <7>1
          <6> QED BY <6>1
        <5> QED BY <5>2, <5>3, <5>4 DEF Follows, Merging
      <4>3. Follows(k)
        BY DEF ScreenInv
      <4> QED BY <4>1, <4>2, <4>3 DEF Follows
    <3> QED BY <2>3, <3>4 DEF ScreenInv
  <2> QED BY <2>2, <2>4, <2>5
<1>10. ASSUME NEW i \in Ids, Toggle(i) PROVE ScreenInv'
  <2>1. /\ pending' = <<>>
        /\ \/ tasks' = S.tasks /\ doc' = S.doc
           \/ \E x \in Task :
                 tasks' = [S.tasks EXCEPT ![i] = x] /\ doc' = [S.doc EXCEPT ![i] = x]
    BY <1>2, <1>10, TaskToggledBy
  <2>2. timer' = timer /\ raced' = raced
    BY <1>10 DEF Toggle, history
  <2>3. CASE tasks' = S.tasks /\ doc' = S.doc
    BY <1>1, <1>3, <2>1, <2>2, <2>3 DEF Settled
  <2>4. ASSUME NEW x \in Task, tasks' = [S.tasks EXCEPT ![i] = x], doc' = [S.doc EXCEPT ![i] = x]
        PROVE  ScreenInv'
    <3>1. ASSUME NEW k \in Ids \ raced PROVE Settled(tasks'[k], doc'[k], k)
      <4>1. CASE k = i
        <5>1. tasks'[k] = x /\ doc'[k] = x
            BY <2>4, <4>1 DEF State, Tasks
        <5> QED BY <5>1 DEF Settled, Agree
      <4>2. CASE k # i
        <5>1. tasks'[k] = S.tasks[k] /\ doc'[k] = S.doc[k]
            BY <2>4, <4>2 DEF State, Tasks
        <5> QED BY <1>3, <5>1
      <4> QED BY <4>1, <4>2
    <3> QED BY <1>1, <2>1, <2>2, <3>1 DEF Settled
  <2> QED BY <2>1, <2>3, <2>4
<1>11. ASSUME NEW i \in Ids, Delete(i) PROVE ScreenInv'
  <2>1. PICK X \in State, T \in State :
              /\ X.doc = [doc EXCEPT ![i] = NoTask] /\ X.tasks = tasks /\ X.lists = lists
              /\ X.owed = owed /\ X.overtaken = overtaken
              /\ T = Rendered(X)
              /\ doc' = T.doc /\ tasks' = [T.tasks EXCEPT ![i] = NoTask] /\ lists' = T.lists
              /\ owed' = [T.owed EXCEPT ![i] = NoText] /\ overtaken' = T.overtaken
              /\ pending' = <<>>
    BY <1>11, TaskDeletedBy
  <2>2. timer' = timer /\ raced' = raced \union ({i} \intersect Waiting)
    BY <1>11 DEF Delete
  <2>3. ASSUME NEW k \in Ids \ raced' PROVE Settled(tasks'[k], doc'[k], k)
    <3>1. CASE k = i
      <4>1. i \notin Waiting
        BY <2>2, <3>1
      <4>2. tasks'[i] = NoTask /\ X.doc[i] = NoTask
        BY <2>1 DEF State, Tasks, TypeOK
      <4>3. T.doc[i] = NoTask
        BY <2>1, <4>1, <4>2, RenderedDoc
      <4> QED BY <2>1, <3>1, <4>2, <4>3 DEF Settled, Agree
    <3>2. CASE k # i
      <4>1. tasks'[k] = T.tasks[k] /\ X.doc[k] = doc[k] /\ k \notin raced
        BY <2>1, <2>2, <3>2 DEF State, Tasks, TypeOK
      <4> QED BY <1>6, <2>1, <4>1
    <3> QED BY <3>1, <3>2
  <2> QED BY <1>1, <2>1, <2>2, <2>3 DEF Settled
<1>12. ASSUME NEW d \in Tasks, NEW ls \in SUBSET Lists, Synced(d, ls) PROVE ScreenInv'
  <2>1. PICK u \in Updater : /\ u.kind = "merge" /\ u.tasks = d
                             /\ pending' = Append(pending, u) /\ Len(pending) < MaxPending
    BY <1>12, FrameQueued
  <2>2. /\ Len(pending') = Len(pending) + 1 /\ Len(pending) \in Nat
        /\ pending'[Len(pending')] = u
        /\ \A n \in 1..Len(pending) : pending'[n] = pending[n]
    BY <2>1, Queued
  <2>3. doc' = d /\ raced' = Waiting
    BY <1>12 DEF Synced
  <2>4. ASSUME NEW k \in Ids \ Waiting PROVE Follows(k)'
    <3>1. PICK m \in 1..Len(pending') : m = Len(pending')
        BY <2>2
    <3>2. pending'[m].kind = "merge" /\ pending'[m].tasks[k] = doc'[k]
        BY <2>1, <2>2, <2>3, <3>1
    <3>3. \A n \in (m + 1)..Len(pending') : pending'[n].kind # "merge"
        BY <2>2, <3>1
    <3>4. \A n \in 1..(m - 1) : ~IsCommit(pending'[n], k)
      <4>1. ASSUME NEW n \in 1..(m - 1) PROVE ~IsCommit(pending'[n], k)
        <5>1. n \in 1..Len(pending)
            BY <2>2, <3>1
        <5> QED BY <2>2, <5>1 DEF Waiting, IsCommit
      <4> QED BY <4>1
    <3> QED BY <3>2, <3>3, <3>4 DEF Follows, Merging
  <2> QED BY <2>3, <2>4 DEF ScreenInv
<1>13. CASE Reload
    BY <1>1, <1>13 DEF Reload, engineVars, Agree
<1>14. CASE UNCHANGED vars
  <2>1. Waiting' = Waiting /\ \A n : Merging(n)' <=> Merging(n)
    BY <1>14 DEF vars, Waiting, Merging
  <2>2. /\ pending' = pending /\ tasks' = tasks /\ doc' = doc /\ timer' = timer
        /\ raced' = raced
    BY <1>14 DEF vars, engineVars, shown, history
  <2>3. ASSUME NEW k \in Ids PROVE Follows(k)' <=> Follows(k)
    BY <2>1, <2>2 DEF Follows, Merging
  <2> QED BY <2>2, <2>3 DEF ScreenInv
<1>15. CASE Next
    BY <1>2, <1>4, <1>5, <1>7, <1>8, <1>9, <1>10, <1>11, <1>12, <1>13, <1>15, TaskSteps
<1> QED BY <1>14, <1>15

(* useVersaStore.ts:160-163,231-239,257-263: with nothing waiting, the screen  *)
(* shows the engine's tasks, but for the exceptions ScreenAgrees names.        *)
THEOREM ScreenFollows == Spec => []ScreenAgrees
<1>1. Init => GoneInv
    BY DEF Init, GoneInv, Nowhere
<1>2. Init => ScreenInv
  <2> SUFFICES ASSUME Init, NEW i \in Ids PROVE Follows(i)
    BY DEF ScreenInv
  <2>1. pending = <<>> /\ tasks = doc
    BY DEF Init
  <2> QED BY <2>1 DEF Follows, Agree
<1>3. ScreenInv => ScreenAgrees
  <2> SUFFICES ASSUME ScreenInv, pending = <<>>, NEW i \in Ids \ (timer \union raced)
               PROVE  Agree(tasks[i], doc[i])
    BY DEF ScreenAgrees, Agree
  <2>1. Follows(i) /\ Waiting = {}
    BY DEF ScreenInv, Waiting
  <2> QED BY <2>1 DEF Follows
<1> QED BY <1>1, <1>2, <1>3, TypeCorrect, NextGoneInv, NextScreenInv, PTL DEF Spec
===============================================================================
