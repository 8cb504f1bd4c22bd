------------------------------- MODULE Shell --------------------------------
(***************************************************************************)
(* The commands of kernel/src/shell.rs that change state, with what they   *)
(* call: test_task of kernel/src/task.rs, the switch of context.S, and the *)
(* memory of kernel/src/memory.rs, which is the buddy allocator.           *)
(***************************************************************************)
EXTENDS BuddyBlock

CONSTANT CTX_LEN  \* size_of::<CtxData>()

ASSUME CtxAssumption == CTX_LEN \in Nat \ {0}

VARIABLES words,      \* what each unit of memory holds
          pc,         \* where the command that runs is
          quit,       \* the argument of test_task
          level, index,  \* the loops of cmd_test_dyn_seq
          ctx_ptr, ctx_locked,  \* CTX_PTR and its lock
          current,    \* whose stack the processor is on
          saved,      \* rflags.IF in the contexts `main` and `this`
          IF_flag     \* rflags.IF

heap == vars  \* MEMORY_DATA
task == <<ctx_ptr, ctx_locked, current, saved, IF_flag>>
shell_vars == <<heap, words, pc, quit, level, index, task>>

\* The length of the blocks of a level, and the allocation of such a block.
Size(l) == UNIT_SIZE * Pow2[l]

\* Fault seed: the place of the next block.
SeqBlockLate(l, i) == [addr |-> DATA + Size(l) * (i + 1), len |-> Size(l)]

SeqBlock(l, i) == [addr |-> DATA + Size(l) * i, len |-> Size(l)]
CtxBlock(addr) == [addr |-> addr, len |-> AlignedLen(CTX_LEN)]

Filled(a, what) == [u \in DOMAIN words |-> IF u \in Units(a) THEN what ELSE words[u]]

ShellInit ==
  /\ Init
  /\ words = [u \in 0 .. info.units - 1 |-> "old"]
  /\ pc = "prompt" /\ quit = FALSE
  /\ level = 0 /\ index = 0
  /\ ctx_ptr = 0 /\ ctx_locked = FALSE
  /\ current = "main"
  /\ saved = [main |-> FALSE, task |-> FALSE]
  /\ IF_flag = TRUE

-----------------------------------------------------------------------------

\* The lines that lead to a command with an effect, and one that does not:
\* help, tick, printpage, printmmap, meminfo, a name not found, or nothing.
Lines == {"testtask", "testtask_quit", "testdynseq", "testdynran", "report"}

input_line(line) ==
  /\ pc = "prompt"
  /\ pc' = CASE line \in {"testtask", "testtask_quit"} -> "lock"
             [] line = "testdynseq" -> "level"
             [] line = "testdynran" -> "todo"
             [] OTHER -> "report"
  /\ quit' = (line = "testtask_quit")
  /\ level' = 0 /\ index' = 0
  /\ UNCHANGED <<heap, words, task>>

Goto(from, to) == pc = from /\ pc' = to /\ UNCHANGED <<heap, words, quit, level, index, task>>

\* A command that only prints is through; cmd_test_dyn_ran panics.
Report == Goto("report", "prompt")
cmd_test_dyn_ran == Goto("todo", "panic_todo")

\* cmd_test_dyn_seq: the head of the loop over the levels.
SeqLevel ==
  /\ pc = "level"
  /\ pc' = IF level = info.levels THEN "prompt" ELSE IF used # 0 THEN "panic_108" ELSE "alloc"
  /\ index' = 0
  /\ UNCHANGED <<heap, words, quit, level, task>>

\* One block is allocated and filled; without one the command gives up.
SeqAlloc ==
  /\ pc = "alloc" /\ index < Blocks(level)
  /\ alloc(Size(level))
  /\ IF ret'.addr = 0
     THEN pc' = "prompt" /\ UNCHANGED <<words, index>>
     ELSE words' = Filled(ret', "pattern") /\ index' = index + 1 /\ UNCHANGED pc
  /\ UNCHANGED <<quit, level, task>>

SeqAllocated ==
  /\ pc = "alloc" /\ index = Blocks(level)
  /\ pc' = IF used = (data_len(info) \div Size(level)) * Size(level)
           THEN "free" ELSE "panic_132"
  /\ index' = 0
  /\ UNCHANGED <<heap, words, quit, level, task>>

\* One block is returned, by its place in the data area.
SeqFree ==
  /\ pc = "free" /\ index < Blocks(level)
  /\ LET a == SeqBlock(level, index) IN dealloc(a, a.addr, a.len)
  /\ index' = index + 1
  /\ pc' = IF failed' THEN "panic_dealloc" ELSE pc
  /\ UNCHANGED <<words, quit, level, task>>

SeqFreed ==
  /\ pc = "free" /\ index = Blocks(level)
  /\ pc' = IF used = 0 THEN "level" ELSE "panic_142"
  /\ level' = level + 1
  /\ UNCHANGED <<heap, words, quit, index, task>>

-----------------------------------------------------------------------------

\* test_task: CTX_PTR.lock(); a spin lock, which waits while it is taken.
Lock ==
  /\ pc = "lock" /\ ~ ctx_locked
  /\ ctx_locked' = TRUE
  /\ pc' = IF quit THEN "quit" ELSE "enter"
  /\ UNCHANGED <<heap, words, quit, level, index, ctx_ptr, current, saved, IF_flag>>

\* Fault seed: the pointer outlives the memory.
QuitKeeps == ctx_ptr

\* The pointer after --quit.
QuitPtr == 0

Quit ==
  /\ pc = "quit"
  /\ IF ctx_ptr = 0 THEN UNCHANGED <<heap, ctx_ptr>>
     ELSE /\ dealloc(CtxBlock(ctx_ptr), ctx_ptr, CTX_LEN)
          /\ ctx_ptr' = QuitPtr
  /\ pc' = IF failed' THEN "panic_dealloc" ELSE "unlock"
  /\ UNCHANGED <<words, quit, level, index, ctx_locked, current, saved, IF_flag>>

\* The first testtask allocates and fills in the context of task_main.
Create ==
  /\ pc = "enter" /\ ctx_ptr = 0
  /\ alloc(CTX_LEN)
  /\ IF ret'.addr = 0
     THEN pc' = "panic_unwrap" /\ UNCHANGED <<words, ctx_ptr, saved>>
     ELSE /\ words' = Filled(ret', "context")
          /\ saved' = [saved EXCEPT !.task = IF_flag]
          /\ ctx_ptr' = ret'.addr
          /\ pc' = "switch"
  /\ UNCHANGED <<quit, level, index, ctx_locked, current, IF_flag>>

Enter == ctx_ptr # 0 /\ Goto("enter", "switch")

\* Fault seed: interrupts stay on while the context is saved.
FlagKept == IF_flag

\* cli of switch_context.
Cli == FALSE

\* switch_context up to `restore context`: rflags are saved, then masked, and
\* rsp leaves the stack it was on.
Save(from) ==
  /\ saved' = [saved EXCEPT ![from] = IF_flag]
  /\ IF_flag' = Cli
  /\ current' = "none"

\* The rest of it: iretq takes rsp and rflags together.
Restore(to) ==
  /\ current' = to
  /\ IF_flag' = saved[to]
  /\ UNCHANGED saved

\* One leg of a switch, at `from` in a command.
Leg(from, to, switch) ==
  /\ pc = from
  /\ pc' = to
  /\ switch
  /\ UNCHANGED <<heap, words, quit, level, index, ctx_ptr, ctx_locked>>

SaveMain == Leg("switch", "restore_task", Save("main"))
RestoreTask == Leg("restore_task", "task", Restore("task"))

\* task_main prints and switches back.
SaveTask == Leg("task", "restore_main", Save("task"))
RestoreMain == Leg("restore_main", "unlock", Restore("main"))

\* Fault seed: the guard is not dropped.
GuardLeaks == ctx_locked

\* The guard of CTX_PTR goes out of scope.
GuardDropped == FALSE

Unlock ==
  /\ pc = "unlock"
  /\ pc' = "prompt"
  /\ ctx_locked' = GuardDropped
  /\ UNCHANGED <<heap, words, quit, level, index, ctx_ptr, current, saved, IF_flag>>

test_task == Lock \/ Quit \/ Create \/ Enter \/ SaveMain \/ RestoreTask \/ SaveTask \/ RestoreMain \/ Unlock
cmd_test_dyn_seq == SeqLevel \/ SeqAlloc \/ SeqAllocated \/ SeqFree \/ SeqFreed

Run == Report \/ cmd_test_dyn_ran \/ test_task \/ cmd_test_dyn_seq

ShellNext == Run \/ \E line \in Lines : input_line(line)

ShellSpec == ShellInit /\ [][ShellNext]_shell_vars /\ WF_shell_vars(Run)

-----------------------------------------------------------------------------

Panics == {"panic_108", "panic_132", "panic_142", "panic_dealloc", "panic_unwrap", "panic_todo"}

\* Whenever interrupts are on, rsp is on a stack that is there: the kernel's,
\* or the one inside the task's live allocation.  switch_context never takes
\* an interrupt between two stacks, and no command runs the task on memory
\* that was returned.
InterruptsFindStack ==
  IF_flag => \/ current = "main"
             \/ (current = "task" /\ CtxBlock(ctx_ptr) \in live)

\* As long as CTX_PTR is set it points to a live allocation that still holds
\* the task's context: no other command's writes reach it, and the next
\* testtask resumes what the last one left.
TaskIntact ==
  ctx_ptr # 0 => /\ CtxBlock(ctx_ptr) \in live
                 /\ \A u \in Units(CtxBlock(ctx_ptr)) : words[u] = "context"

\* testdynseq finds every block of every level and returns all of them, on
\* any number of units: it never gives up, its later asserts hold, and no
\* dealloc refuses; what it starts with may only be the task's allocation.
SeqConsistent ==
  /\ pc \notin {"panic_132", "panic_142", "panic_dealloc", "panic_unwrap"}
  /\ pc = "panic_108" => ctx_ptr # 0
  /\ pc = "prompt" => live = {CtxBlock(p) : p \in {ctx_ptr} \ {0}}

\* Every line that is entered is answered: the command returns to the prompt
\* with interrupts on, or panics; in particular CTX_PTR is never found locked.
CommandsReturn == [](pc # "prompt" => <>(pc \in Panics \/ (pc = "prompt" /\ IF_flag)))

=============================================================================
