-------------------------------- MODULE Smw --------------------------------
(***************************************************************************)
(* The cooperative scheduler of libs/smw.c: a fixed table of task slots,    *)
(* g_smw.tasks, swept from the first slot to the last by every call of      *)
(* smw_work.  A slot is free when both of its pointers are NULL; creating   *)
(* and destroying a task always writes the two together, so a slot is       *)
(* modelled by its context alone.                                           *)
(*                                                                          *)
(* The module defines the operations the other modules call, and SmwSpec,   *)
(* which is what the scheduler promises to its users whatever the           *)
(* callbacks are, as long as a callback creates at most one task and        *)
(* destroys no task but its own.  Module WeatherServer is checked to        *)
(* implement SmwSpec.                                                       *)
(***************************************************************************)
EXTENDS Pointers, Integers

CONSTANTS
  MaxTasks,   \* smw_max_tasks, the length of g_smw.tasks (10 in the code)
  Contexts    \* the objects that register themselves as a task

ASSUME SmwAssumption ==
  /\ MaxTasks \in Nat \ {0}
  /\ NULL \notin Contexts
  /\ NULL \notin Int

VARIABLES
  tasks,      \* g_smw.tasks: the context registered in each slot, or NULL
  cursor      \* the loop index i of smw_work; MaxTasks when no sweep runs

smwVars == <<tasks, cursor>>

Slots == 0 .. MaxTasks - 1

FreeSlots == {i \in Slots : tasks[i] = NULL}

Registered == {tasks[i] : i \in Slots} \ {NULL}

(***************************************************************************)
(* smw_create_task(ctx) returns t: the first free slot, which now holds     *)
(* ctx, or NULL when the table is full.  The caller learns of a full table  *)
(* from that NULL only.                                                     *)
(***************************************************************************)
CreateTask(ctx, t) ==
  \/ /\ FreeSlots = {}
     /\ t = NULL
     /\ tasks' = tasks
  \/ /\ t \in FreeSlots
     /\ \A j \in FreeSlots : t <= j
     /\ tasks' = [tasks EXCEPT ![t] = ctx]

(* Mutant: the comparison with the address of the slot is missing.          *)
DestroyTask_First(t) ==
  tasks' = [i \in Slots |-> IF i = 0 THEN NULL ELSE tasks[i]]

(* smw_destroy_task(t), t the pointer that smw_create_task returned.        *)
DestroyTask(t) ==
  tasks' = [i \in Slots |-> IF i = t THEN NULL ELSE tasks[i]]

(* smw_dispose, and the state smw_init leaves behind.                       *)
ClearTasks == tasks' = [i \in Slots |-> NULL]

(***************************************************************************)
(* One iteration of the loop of smw_work.                                   *)
(***************************************************************************)
BeginSmwWork ==
  /\ cursor = MaxTasks
  /\ cursor' = 0

SkipFreeSlot ==
  /\ cursor \in Slots
  /\ tasks[cursor] = NULL
  /\ cursor' = cursor + 1
  /\ tasks' = tasks

(* The callback of ctx is being called; the caller says what it does.       *)
Calls(ctx) ==
  /\ cursor \in Slots
  /\ tasks[cursor] = ctx
  /\ cursor' = cursor + 1

-----------------------------------------------------------------------------
(***************************************************************************)
(* The abstract scheduler.                                                  *)
(***************************************************************************)
SmwInit ==
  /\ tasks = [i \in Slots |-> NULL]
  /\ cursor = MaxTasks

(* Tasks registered before the main loop starts, or between two sweeps.     *)
Register ==
  /\ cursor = MaxTasks
  /\ \E ctx \in Contexts \ Registered, t \in Slots : CreateTask(ctx, t)
  /\ UNCHANGED cursor

(* smw_getTaskCount() > 0 is the condition of the main loop.                *)
Sweep ==
  /\ Registered # {}
  /\ BeginSmwWork
  /\ tasks' = tasks

CallTask ==
  \E ctx \in Contexts :
    /\ Calls(ctx)
    /\ \/ tasks' = tasks
       \/ \E new \in Contexts \ Registered, t \in Slots : CreateTask(new, t)
       \/ DestroyTask(cursor)

DisposeAll ==
  /\ cursor = MaxTasks
  /\ ClearTasks
  /\ UNCHANGED cursor

SmwNext ==
  \/ Register
  \/ Sweep
  \/ SkipFreeSlot
  \/ CallTask
  \/ DisposeAll

SmwSafety == SmwInit /\ [][SmwNext]_smwVars

(* smw_work is a loop with no way out, so a sweep that began goes on, and   *)
(* main starts the next one.                                                *)
SmwSpec ==
  /\ SmwSafety
  /\ WF_smwVars(Sweep \/ SkipFreeSlot \/ CallTask)

-----------------------------------------------------------------------------
(* Types: the table holds contexts, and the loop index stays in the table.  *)
SmwTypeOK ==
  /\ tasks \in [Slots -> Contexts \cup {NULL}]
  /\ cursor \in 0 .. MaxTasks

(* A context never occupies two slots of the table, however registrations,  *)
(* destructions and the reuse of freed slots interleave with the sweep: an  *)
(* object is called back at most once per sweep of smw_work.                *)
OneSlotPerContext ==
  \A i, j \in Slots : tasks[i] = tasks[j] /\ tasks[i] # NULL => i = j

=============================================================================
