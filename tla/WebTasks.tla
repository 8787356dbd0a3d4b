------------------------------- MODULE WebTasks -------------------------------
(* Tasks and lists on one page: the operations of                             *)
(* web-app/src/hooks/useVersaStore.ts, the handlers of                         *)
(* components/TaskList.tsx that call them, and frames from other devices.      *)
(* React runs the updaters that a click or a key queued before anything else   *)
(* happens, and with them all that were queued; those of timers and messages   *)
(* wait.  A click beside an input commits the input first.                     *)
EXTENDS Naturals, Sequences

CONSTANTS
    Ids,        \* tasks
    Lists,      \* lists beside "default"
    Texts,      \* what a task can say
    Blank,      \* an input that trims to nothing
    NoTask, NoText, NoId, NoList,
    MaxRemote,  \* bound: frames from other devices
    MaxPending  \* bound: updaters between two renders

ASSUME WebTasksAssumption ==
    /\ "default" \notin Lists
    /\ Blank \notin Texts /\ NoText \notin Texts
    /\ NoId \notin Ids /\ NoList \notin Lists
    /\ MaxRemote \in Nat /\ MaxPending \in Nat \ {0}

VARIABLES
    doc,        \* the engine's tasks
    docLists,   \* the engine's lists
    tasks,      \* React state
    lists,      \* React state
    pending,    \* updaters that wait for the next render
    timer,      \* tasks in debounceRef
    active,     \* activeListId
    editing, draft,     \* editingTaskId and taskDraft
    adding,             \* addingTask
    renaming,           \* renamingListId
    fresh,      \* ids nobody has drawn yet
    owed,       \* history: text entered for a task and not in the engine yet
    overtaken,  \* history: tasks whose text owed the engine's tasks replaced on the screen
    gone,       \* history: tasks deleted here while no updater for them waited
    raced,      \* history: tasks with an updater waiting when the engine changed
    takenAway,  \* history: lists that other devices deleted
    remote      \* frames received

engineVars == <<doc, docLists>>
shown      == <<tasks, lists>>
inputs     == <<active, editing, draft, adding, renaming>>
history    == <<gone, raced, takenAway>>
vars == <<engineVars, shown, pending, timer, inputs, fresh, owed, overtaken, history, remote>>

ListIds == Lists \union {"default"}
Task == [list: ListIds, text: Texts, done: {"yes", "no"}]
Tasks == [Ids -> Task \union {NoTask}]

(* undefined is no record of a task.                                          *)
ASSUME NoTaskAssumption == NoTask \notin Task

Updater ==
    [kind: {"commit"}, id: Ids] \union
    [kind: {"merge"}, tasks: Tasks, lists: SUBSET Lists]

TypeOK ==
    /\ doc \in Tasks /\ tasks \in Tasks
    /\ docLists \subseteq Lists /\ lists \subseteq Lists
    /\ pending \in Seq(Updater) /\ Len(pending) <= MaxPending
    /\ timer \subseteq Ids
    /\ active \in ListIds
    /\ editing \in Ids \union {NoId} /\ draft \in Texts \union {Blank}
    /\ adding \in {"yes", "no"} /\ renaming \in Lists \union {NoList}
    /\ fresh \subseteq Ids \union Lists
    /\ owed \in [Ids -> Texts \union {NoText}]
    /\ overtaken \subseteq Ids /\ gone \subseteq Ids /\ raced \subseteq Ids
    /\ takenAway \subseteq Lists
    /\ remote \in 0..MaxRemote

Init ==
    /\ doc = [i \in Ids |-> NoTask] /\ docLists = {}
    /\ tasks = doc /\ lists = {}
    /\ pending = <<>> /\ timer = {}
    /\ active = "default" /\ editing = NoId /\ draft = Blank
    /\ adding = "no" /\ renaming = NoList
    /\ fresh = Ids \union Lists
    /\ owed = [i \in Ids |-> NoText] /\ overtaken = {}
    /\ gone = {} /\ raced = {} /\ takenAway = {}
    /\ remote = 0

-----------------------------------------------------------------------------
(* Updaters, as functions on what the engine and the hook hold.               *)

Now == [doc |-> doc, tasks |-> tasks, lists |-> lists, owed |-> owed, overtaken |-> overtaken]

(* apply_task: the whole record, as the screen has it.                        *)
Publish(S, i) ==
    [S EXCEPT !.doc[i] = S.tasks[i],
              !.owed[i] = IF S.tasks[i].text = @ THEN NoText ELSE @]

(* Slip: the updater does not ask whether the task is still there.            *)
CommitBlindly(S, i) ==
    IF S.tasks[i] # NoTask THEN Publish(S, i)
    ELSE [S EXCEPT !.doc[i] = [list |-> "default", text |-> CHOOSE x \in Texts : TRUE,
                               done |-> "no"]]

(* What updateTask's timer queues.                                            *)
Commit(S, i) == IF S.tasks[i] = NoTask THEN S ELSE Publish(S, i)

(* What onmessage and the connect effect queue: the engine's tasks and lists  *)
(* as they were then.                                                         *)
Merge(S, u) ==
    [S EXCEPT !.tasks = u.tasks, !.lists = u.lists,
              !.overtaken = @ \union {i \in Ids : S.owed[i] # NoText}]

Apply(S, u) == IF u.kind = "commit" THEN Commit(S, u.id) ELSE Merge(S, u)

(* The queue, then what the event itself queued.                              *)
Rendered(S) ==
    LET after[n \in 0..Len(pending)] ==
          IF n = 0 THEN S ELSE Apply(after[n - 1], pending[n])
    IN after[Len(pending)]

Put(S) ==
    /\ doc' = S.doc /\ tasks' = S.tasks /\ lists' = S.lists
    /\ owed' = S.owed /\ overtaken' = S.overtaken
    /\ pending' = <<>>

Waiting == {i \in Ids : \E n \in 1..Len(pending) :
                            pending[n].kind = "commit" /\ pending[n].id = i}

Visible(i) == tasks[i] # NoTask /\ tasks[i].list = active

(* No input on the screen has the focus.                                      *)
NoInput ==
    /\ adding = "no"
    /\ editing # NoId => ~Visible(editing)
    /\ renaming \notin lists

-----------------------------------------------------------------------------
(* Tasks.                                                                     *)

StartAddTask ==
    /\ NoInput
    /\ adding' = "yes"
    /\ Put(Rendered(Now))
    /\ UNCHANGED <<docLists, timer, active, editing, draft, renaming, fresh, history, remote>>

addTask(i, text) ==
    LET new == [list |-> active, text |-> text, done |-> "no"]
        S == Rendered([Now EXCEPT !.doc[i] = new])
    IN Put([S EXCEPT !.tasks[i] = new])

CommitNewTask(i, text) ==
    /\ adding = "yes"
    /\ i \in fresh
    /\ adding' = "no" /\ fresh' = fresh \ {i}
    /\ addTask(i, text)
    /\ UNCHANGED <<docLists, timer, active, editing, draft, renaming, history, remote>>

(* Escape, or nothing entered.                                                *)
DropNewTask ==
    /\ adding = "yes"
    /\ adding' = "no"
    /\ Put(Rendered(Now))
    /\ UNCHANGED <<docLists, timer, active, editing, draft, renaming, fresh, history, remote>>

StartEditTask(i) ==
    /\ NoInput /\ Visible(i)
    /\ editing' = i /\ draft' = tasks[i].text
    /\ Put(Rendered(Now))
    /\ UNCHANGED <<docLists, timer, active, adding, renaming, fresh, history, remote>>

Type(text) ==
    /\ editing # NoId /\ Visible(editing)
    /\ text # draft
    /\ draft' = text
    /\ Put(Rendered(Now))
    /\ UNCHANGED <<docLists, timer, active, editing, adding, renaming, fresh, history, remote>>

(* The text is on the screen, a timer starts or starts again.                 *)
updateTask(i, text) ==
    /\ LET S == Rendered(Now)
       IN Put(IF S.tasks[i] = NoTask THEN S
              ELSE [S EXCEPT !.tasks[i].text = text, !.owed[i] = text,
                             !.overtaken = @ \ {i}])
    /\ timer' = timer \union {i}

(* Slip: an input that trims to nothing is not told apart.                    *)
CommitAnyEdit(i) ==
    /\ editing = i /\ Visible(i)
    /\ draft # tasks[i].text
    /\ editing' = NoId /\ draft' = Blank
    /\ updateTask(i, draft)
    /\ UNCHANGED <<docLists, active, adding, renaming, fresh, history, remote>>

(* The input may hold what the task said before the screen was replaced.      *)
CommitTaskEdit(i) ==
    /\ editing = i /\ Visible(i)
    /\ draft # Blank /\ draft # tasks[i].text
    /\ editing' = NoId /\ draft' = Blank
    /\ updateTask(i, draft)
    /\ UNCHANGED <<docLists, active, adding, renaming, fresh, history, remote>>

(* Escape, or nothing to commit.                                              *)
DropTaskEdit ==
    /\ editing # NoId /\ Visible(editing)
    /\ editing' = NoId /\ draft' = Blank
    /\ Put(Rendered(Now))
    /\ UNCHANGED <<docLists, timer, active, adding, renaming, fresh, history, remote>>

(* Slip: the timer's entry is deleted and its commit is not queued.           *)
ForgetEdit(i) ==
    /\ i \in timer
    /\ timer' = timer \ {i}
    /\ UNCHANGED <<engineVars, shown, pending, inputs, fresh, owed, overtaken, history, remote>>

(* updateTask's timer.  React may run the updater at once when no other waits. *)
Debounced(i) ==
    /\ i \in timer
    /\ timer' = timer \ {i}
    /\ \/ pending = <<>> /\ Put(Commit(Now, i))
       \/ /\ Len(pending) < MaxPending
          /\ pending' = Append(pending, [kind |-> "commit", id |-> i])
          /\ UNCHANGED <<doc, shown, owed, overtaken>>
    /\ UNCHANGED <<docLists, inputs, fresh, history, remote>>

Toggled(r) == [r EXCEPT !.done = IF @ = "yes" THEN "no" ELSE "yes"]

(* Slip: the engine gets the task of the last render, not the updater's.      *)
ToggleStale(i) ==
    /\ NoInput /\ Visible(i)
    /\ LET S == Rendered(Now)
       IN Put(IF S.tasks[i] = NoTask THEN S
              ELSE [Publish(S, i) EXCEPT !.tasks[i] = Toggled(@), !.doc[i] = Toggled(tasks[i])])
    /\ UNCHANGED <<docLists, timer, inputs, fresh, history, remote>>

Toggle(i) ==
    /\ NoInput /\ Visible(i)
    /\ LET S == Rendered(Now)
       IN Put(IF S.tasks[i] = NoTask THEN S
              ELSE Publish([S EXCEPT !.tasks[i] = Toggled(@)], i))
    /\ UNCHANGED <<docLists, timer, inputs, fresh, history, remote>>

Delete(i) ==
    /\ NoInput /\ Visible(i)
    /\ LET S == Rendered([Now EXCEPT !.doc[i] = NoTask])
       IN Put([S EXCEPT !.tasks[i] = NoTask, !.owed[i] = NoText])
    /\ gone' = IF i \in Waiting THEN gone ELSE gone \union {i}
    /\ raced' = raced \union ({i} \intersect Waiting)
    /\ UNCHANGED <<docLists, timer, inputs, fresh, takenAway, remote>>

-----------------------------------------------------------------------------
(* Lists.                                                                     *)

SelectList(l) ==
    /\ NoInput
    /\ l \in lists \union {"default"} /\ l # active
    /\ active' = l
    /\ Put(Rendered(Now))
    /\ UNCHANGED <<docLists, timer, editing, draft, adding, renaming, fresh, history, remote>>

addList(l) ==
    /\ docLists' = docLists \union {l}
    /\ LET S == Rendered(Now) IN Put([S EXCEPT !.lists = @ \union {l}])

(* The engine gets the list under its name, whether it still has it or not.   *)
renameList(l) ==
    /\ docLists' = docLists \union {l}
    /\ Put(Rendered(Now))

(* The tasks of the list move on the screen, not in the engine.               *)
deleteList(l) ==
    /\ docLists' = docLists \ {l}
    /\ LET S == Rendered(Now)
       IN Put([S EXCEPT !.lists = @ \ {l},
                        !.tasks = [i \in Ids |-> IF @[i] # NoTask /\ @[i].list = l
                                                 THEN [@[i] EXCEPT !.list = "default"] ELSE @[i]]])

(* The button beside a list.                                                  *)
Deletable(l) == l \in lists /\ l # renaming

(* The new list is active and being renamed.                                  *)
AddList(l) ==
    /\ NoInput
    /\ l \in fresh
    /\ fresh' = fresh \ {l}
    /\ addList(l)
    /\ active' = l /\ renaming' = l
    /\ UNCHANGED <<timer, editing, draft, adding, history, remote>>

StartRenameList(l) ==
    /\ NoInput
    /\ l \in lists
    /\ renaming' = l
    /\ Put(Rendered(Now))
    /\ UNCHANGED <<docLists, timer, active, editing, draft, adding, fresh, history, remote>>

(* With nothing entered, or Escape, the list keeps its name.                  *)
CommitListRename ==
    /\ renaming \in lists
    /\ renaming' = NoList
    /\ renameList(renaming) \/ (Put(Rendered(Now)) /\ UNCHANGED docLists)
    /\ UNCHANGED <<timer, active, editing, draft, adding, fresh, history, remote>>

(* Slip: the deleted list stays active.                                       *)
DeleteShownList(l) ==
    /\ NoInput
    /\ Deletable(l)
    /\ deleteList(l)
    /\ UNCHANGED <<timer, inputs, fresh, history, remote>>

(* The engine is there when a list is on the screen: what follows the awaits  *)
(* runs in the task of the click, before any timer, frame or other click.     *)
DeleteList(l) ==
    /\ NoInput
    /\ Deletable(l)
    /\ deleteList(l)
    /\ active' = IF active = l THEN "default" ELSE active
    /\ UNCHANGED <<timer, editing, draft, adding, renaming, fresh, history, remote>>

-----------------------------------------------------------------------------
(* Other devices, React and the browser.                                      *)

(* onmessage: the engine merges a frame - whose record may win or lose, whole  *)
(* - and its tasks and lists are queued for the screen.                       *)
Receive(d, ls) ==
    /\ remote < MaxRemote /\ Len(pending) < MaxPending
    /\ remote' = remote + 1
    /\ doc' = d /\ docLists' = ls
    /\ pending' = Append(pending, [kind |-> "merge", tasks |-> d, lists |-> ls])
    /\ fresh' = fresh \ ({i \in Ids : d[i] # NoTask} \union ls)
    /\ gone' = {i \in gone : d[i] = NoTask}
    /\ raced' = Waiting
    /\ takenAway' = takenAway \union (docLists \ ls)
    /\ UNCHANGED <<shown, timer, inputs, owed, overtaken>>

(* The connect effect runs again - a retry, an open after a retry, a renewed  *)
(* token - and queues what the engine holds for the screen.  The snapshot it  *)
(* merges first is the engine's own.                                          *)
Resync ==
    /\ Len(pending) < MaxPending
    /\ pending' = Append(pending, [kind |-> "merge", tasks |-> doc, lists |-> docLists])
    /\ raced' = Waiting
    /\ UNCHANGED <<engineVars, shown, timer, inputs, fresh, owed, overtaken, gone, takenAway,
                   remote>>

Frames ==
    {<<doc, docLists>>} \union
    {<<[doc EXCEPT ![i] = r], docLists>> : i \in Ids, r \in Task \union {NoTask}} \union
    {<<doc, ls>> : ls \in SUBSET Lists}

Render ==
    /\ pending # <<>>
    /\ Put(Rendered(Now))
    /\ UNCHANGED <<docLists, timer, inputs, fresh, history, remote>>

(* The page is loaded anew from the snapshot, which every operation saved.    *)
Reload ==
    /\ tasks' = doc /\ lists' = docLists
    /\ pending' = <<>> /\ timer' = {}
    /\ active' = "default" /\ editing' = NoId /\ draft' = Blank
    /\ adding' = "no" /\ renaming' = NoList
    /\ owed' = [i \in Ids |-> NoText] /\ overtaken' = {}
    /\ raced' = {}
    /\ UNCHANGED <<engineVars, fresh, gone, takenAway, remote>>

Next ==
    \/ StartAddTask \/ DropNewTask \/ DropTaskEdit \/ CommitListRename \/ Render \/ Reload
    \/ \E i \in Ids :
          \/ StartEditTask(i) \/ CommitTaskEdit(i) \/ Debounced(i) \/ Toggle(i) \/ Delete(i)
          \/ \E text \in Texts : CommitNewTask(i, text)
    \/ \E text \in Texts \union {Blank} : Type(text)
    \/ \E l \in ListIds : SelectList(l)
    \/ \E l \in Lists : AddList(l) \/ StartRenameList(l) \/ DeleteList(l)
    \/ \E f \in Frames : Receive(f[1], f[2])
    \/ Resync

Spec == Init /\ [][Next]_vars

-----------------------------------------------------------------------------
(* Properties.                                                                *)

(* useVersaStore.ts:219-241 with 100-103,160-163: whatever is typed, toggled  *)
(* or deleted while the debounce runs, a text that was entered reaches the     *)
(* engine, unless a frame or a re-run of the connect effect put the engine's   *)
(* tasks on the screen before the task's timer read it there.                  *)
TypedUnlessOvertaken ==
    \A i \in Ids : owed[i] # NoText => i \in timer \union Waiting \union overtaken

(* README.md:22: "two devices editing the same field concurrently both have   *)
(* their edits preserved": a text that was entered reaches the engine.        *)
EditsPreserved ==
    \A i \in Ids : owed[i] # NoText => i \in timer \union Waiting

(* useVersaStore.ts:160-163,231-239,257-263: with nothing waiting, the screen *)
(* shows the engine's task, but for a text whose timer runs, the list of a    *)
(* task whose list was deleted, and a task whose updater ran too late.        *)
ScreenAgrees ==
    pending = <<>> =>
        \A i \in Ids \ (timer \union raced) :
            \/ tasks[i] = doc[i]
            \/ tasks[i] # NoTask /\ doc[i] # NoTask /\ tasks[i] = [doc[i] EXCEPT !.list = "default"]

(* useVersaStore.ts:232-233: no timer brings a task back that was deleted     *)
(* here, except one whose updater was waiting already.                        *)
DeletedStaysDeleted == \A i \in gone : doc[i] = NoTask

(* TaskList.tsx:66-77 with useVersaStore.ts:100-103,160-163,291-296: the list  *)
(* on the screen exists, unless another device deleted it, whatever lists were *)
(* queued for the screen before one was added or deleted here.                 *)
ActiveListExists == active \in lists \union takenAway \union {"default"}
=============================================================================
