------------------------------ MODULE TaskMem ------------------------------
(***************************************************************************)
(* The memory of a task (kernel/task.c) on the page allocator: the kernel  *)
(* stack, the two page tables and the pages of stack and image that fork   *)
(* takes one by one, and their release, by fork itself when it fails, by   *)
(* exec when it cannot load the image, or by system_killer.                *)
(*                                                                         *)
(* A client of PageAlloc is a task_struct; the thread that works for it is *)
(* the forking one and later the releasing one.  Any of these threads may  *)
(* be preempted between two calls of the page allocator.                   *)
(***************************************************************************)
EXTENDS PageAlloc, Sequences

CONSTANTS
  Users,       \* the tasks made with PROCESS_TYPE_USER
  StackPages,  \* page_nr(PROCESS_STACK_SIZE)
  ImagePages   \* page_nr(PROCESS_IMAGE_SIZE)

ASSUME TaskMemAssumption ==
  /\ Users \subseteq Clients
  /\ StackPages \in Nat \ {0} /\ ImagePages \in Nat \ {0}
  /\ 1 \in Counts

VARIABLES
  pc,      \* the place that gets the next page of the task, or its stage
  mem,     \* for each place the pages it holds, in the order of the list
  todo,    \* the places that are to be released, in this order
  walk,    \* the page list_for_each stands on and has freed, 0 if none
  stale    \* tasks whose walk stands on a page that init_pages has reset

taskVars == <<pc, mem, todo, walk, stale>>
tmVars == <<pageVars, taskVars>>

\* stack_origin is a pointer, the others are the lists of mm_struct.
Tables == <<"stack_list", "elf_list">>
Lists == <<"elf_stack_list", "elf_image_list">> \o Tables
Places == {"stack_origin"} \cup {Lists[i] : i \in DOMAIN Lists}

\* How many pages a place is filled with.  One page table is enough for the
\* stack and one for the image.
Size == [l \in Places |-> IF l = "elf_stack_list" THEN StackPages
                          ELSE IF l = "elf_image_list" THEN ImagePages
                          ELSE 1]

PagesOf(t) == UNION {{mem[t][l][i] : i \in DOMAIN mem[t][l]} : l \in Places}

\* Every task_struct is new: the first thing alloc_memory_for_task asks for is
\* the kernel stack.
TaskMemInit ==
  /\ PageInit
  /\ pc = [t \in Clients |-> "stack_origin"]
  /\ mem = [t \in Clients |-> [l \in Places |-> <<>>]]
  /\ todo = [t \in Clients |-> <<>>]
  /\ walk = [t \in Clients |-> 0]
  /\ stale = {}

-----------------------------------------------------------------------------
(* fork_new_task *)

\* get_free_page finds a page for the place that is being filled.
GetPage(t) ==
  /\ pc[t] \in Places
  /\ GetFreePages(t, 1)
  /\ UNCHANGED taskVars

\* Where the allocation goes on when a place is full.
After(t, l) ==
  CASE l = "stack_origin"   -> IF t \in Users THEN "stack_list" ELSE "made"
    [] l = "stack_list"     -> "elf_list"
    [] l = "elf_list"       -> "check"
    [] l = "elf_stack_list" -> "elf_image_list"
    [] l = "elf_image_list" -> "made"

\* Mutant of LinkPage: the page is mapped and not put on its list.
LinkPage_unlisted(t) ==
  LET l == pc[t]
  IN  /\ l \in Places
      /\ InitPages(t)
      /\ mem' = [mem EXCEPT ![t][l] = IF l = "elf_image_list" THEN @
                                      ELSE Append(@, pending[t][1])]
      /\ pc' = [pc EXCEPT ![t] = IF Len(mem[t][l]) + 1 >= Size[l]
                                 THEN After(t, l) ELSE l]
      /\ stale' = stale \cup {u \in Clients : walk[u] = pending[t][1]}
      /\ UNCHANGED <<todo, walk>>

\* init_pages resets the list node of the page, whoever still stands on it;
\* then the page is entered in the page table and goes to the end of its list.
LinkPage(t) ==
  LET l == pc[t]
  IN  /\ l \in Places
      /\ InitPages(t)
      /\ mem' = [mem EXCEPT ![t][l] = Append(@, pending[t][1])]
      /\ pc' = [pc EXCEPT ![t] = IF Len(mem[t][l]) + 1 = Size[l]
                                 THEN After(t, l) ELSE l]
      /\ stale' = stale \cup {u \in Clients : walk[u] = pending[t][1]}
      /\ UNCHANGED <<todo, walk>>

\* alloc_memory_and_map looks at mm_free_page before it takes pages, and that
\* is no reservation.  If they are too few it returns without giving back the
\* page tables; its caller gives back the kernel stack.
CheckFree(t) ==
  /\ pc[t] = "check"
  /\ IF free_pages >= StackPages + ImagePages
     THEN /\ pc' = [pc EXCEPT ![t] = "elf_stack_list"]
          /\ UNCHANGED todo
     ELSE /\ pc' = [pc EXCEPT ![t] = "refused"]
          /\ todo' = [todo EXCEPT ![t] = <<"stack_origin">>]
  /\ UNCHANGED <<pageVars, mem, walk, stale>>

\* Mutant of OnNoMemory: alloc_page_table gives back the tables of its own
\* loop only.
OnNoMemory_inner(l) ==
  CASE l = "stack_origin" -> <<>>
    [] l \in {"stack_list", "elf_list"} -> <<"elf_list", "stack_origin">>
    [] OTHER -> Lists \o <<"stack_origin", "stack_origin">>

\* What is released when get_free_page returns NULL: nothing if it was the
\* kernel stack; by the label error of alloc_page_table the tables, by the
\* label out of alloc_memory_and_map everything, and then by the label error
\* of alloc_memory_for_task the kernel stack, in the second case once more.
OnNoMemory(l) ==
  CASE l = "stack_origin" -> <<>>
    [] l \in {"stack_list", "elf_list"} -> Tables \o <<"stack_origin">>
    [] OTHER -> Lists \o <<"stack_origin", "stack_origin">>

\* get_free_page returns NULL.
NoFreePage ==
  free_pages < 1 \/ (SearchEnds(1) /\ find_continous_pages(1) = 0)

NoMemory(t) ==
  /\ pc[t] \in Places
  /\ pending[t] = None
  /\ NoFreePage
  /\ pc' = [pc EXCEPT ![t] = "release"]
  /\ todo' = [todo EXCEPT ![t] = OnNoMemory(pc[t])]
  /\ UNCHANGED <<pageVars, mem, walk, stale>>

-----------------------------------------------------------------------------
(* release_task_memory *)

\* release_task, called by kill_task in system_killer, or by do_exec when it
\* could not open or load the file for the task it has just made.
ReleaseTask(t) ==
  /\ pc[t] = "made"
  /\ pc' = [pc EXCEPT ![t] = "release"]
  /\ todo' = [todo EXCEPT ![t] = IF t \in Users THEN Lists \o <<"stack_origin">>
                                 ELSE <<"stack_origin">>]
  /\ UNCHANGED <<pageVars, mem, walk, stale>>

\* Mutant of FreePage: the search always goes back to the page.
FreePage_back(t, p) ==
  LET n == IF page[p].header THEN page[p].count ELSE 0
  IN  /\ page_map' = page_map \ Block(p, n)
      /\ free_pages' = free_pages + n
      /\ bm_current' = p
      /\ blocks' = [blocks EXCEPT ![t] = @ \ {<<p, n>>}]
      /\ UNCHANGED <<page, pending>>

\* Mutant of FreePage: the zone does not get the page back.
FreePage_uncounted(t, p) ==
  LET n == IF page[p].header THEN page[p].count ELSE 0
  IN  /\ page_map' = page_map \ Block(p, n)
      /\ bm_current' = IF bm_current = p + n THEN p ELSE bm_current
      /\ blocks' = [blocks EXCEPT ![t] = @ \ {<<p, n>>}]
      /\ UNCHANGED <<page, pending, free_pages>>

\* free_pages(p).  Nothing here says that p is a page of t.
FreePage(t, p) ==
  LET n == IF page[p].header THEN page[p].count ELSE 0
  IN  /\ page_map' = page_map \ Block(p, n)
      /\ free_pages' = free_pages + n
      /\ bm_current' = IF bm_current = p + n THEN p ELSE bm_current
      /\ blocks' = [blocks EXCEPT ![t] = @ \ {<<p, n>>}]
      /\ UNCHANGED <<page, pending>>

\* Where in todo are the places that hold anything: a walk of an empty list ends
\* at once, and release_kernel_stack does nothing without a stack.
Left(t) == {i \in DOMAIN todo[t] : mem[t][todo[t][i]] # <<>>}

\* The place that is being released.
Current(t) == todo[t][CHOOSE i \in Left(t) : \A j \in Left(t) : i <= j]

\* _release_task_memory: list_del and free_pages of the node at the cursor.
FreeNode(t) ==
  /\ walk[t] = 0
  /\ Left(t) # {} /\ Current(t) # "stack_origin"
  /\ LET l == Current(t)
     IN  /\ FreePage(t, Head(mem[t][l]))
         /\ mem' = [mem EXCEPT ![t][l] = Tail(@)]
         /\ walk' = [walk EXCEPT ![t] = Head(mem[t][l])]
  /\ UNCHANGED <<pc, todo, stale>>

\* list_for_each reads list->next of the node that has been freed.
NextNode(t) ==
  /\ walk[t] # 0
  /\ walk' = [walk EXCEPT ![t] = 0]
  /\ UNCHANGED <<pageVars, pc, mem, todo, stale>>

\* Mutant of ReleaseKernelStack: stack_origin is not cleared.
ReleaseKernelStack_again(t) ==
  /\ walk[t] = 0
  /\ Left(t) # {} /\ Current(t) = "stack_origin"
  /\ FreePage(t, Head(mem[t]["stack_origin"]))
  /\ UNCHANGED <<pc, mem, todo, walk, stale>>

\* release_kernel_stack.
ReleaseKernelStack(t) ==
  /\ walk[t] = 0
  /\ Left(t) # {} /\ Current(t) = "stack_origin"
  /\ FreePage(t, Head(mem[t]["stack_origin"]))
  /\ mem' = [mem EXCEPT ![t]["stack_origin"] = <<>>]
  /\ UNCHANGED <<pc, todo, walk, stale>>

-----------------------------------------------------------------------------
\* A walk that stands on a reset node goes on in the list of another task, or
\* for ever on the node itself, and frees what it meets: the instance ends
\* there.
TaskMemNext ==
  /\ stale = {}
  /\ \E t \in Clients :
        \/ GetPage(t) \/ LinkPage(t) \/ CheckFree(t) \/ NoMemory(t)
        \/ ReleaseTask(t) \/ FreeNode(t) \/ NextNode(t) \/ ReleaseKernelStack(t)

TaskMemSpec == TaskMemInit /\ [][TaskMemNext]_tmVars

-----------------------------------------------------------------------------
(* Properties *)

\* The lists of a task and the page allocator agree at every moment on what
\* the task has: no page is on two lists, none is on a list and free, and none
\* is taken and on no list, however forks and releases interleave.
OwnsWhatItLists ==
  \A t \in Clients :
     /\ blocks[t] = {<<p, 1>> : p \in PagesOf(t)}
     /\ \A l, k \in Places : \A i \in DOMAIN mem[t][l] : \A j \in DOMAIN mem[t][k] :
           mem[t][l][i] = mem[t][k][j] => l = k /\ i = j

\* alloc_memory_for_task either gives the task all its pages, or the failed
\* task keeps nothing, at whichever page memory ran out; and a released task
\* keeps nothing.  There is one exception: when alloc_memory_and_map finds too
\* few pages free, both page tables stay taken, and only they.
EndsWhole ==
  \A t \in Clients : Left(t) = {} /\ walk[t] = 0 =>
     /\ pc[t] = "made" => \A l \in Places :
           Len(mem[t][l]) = IF t \in Users \/ l = "stack_origin" THEN Size[l] ELSE 0
     /\ pc[t] = "release" => blocks[t] = {}
     /\ pc[t] = "refused" => \A l \in Places :
           Len(mem[t][l]) = IF l \in {"stack_list", "elf_list"} THEN 1 ELSE 0

\* Tasks use the page allocator as PageAlloc allows: no page is freed twice,
\* or by a task that does not have it, also when fork releases the kernel stack
\* on both of its error paths.  So what is proved of PageAlloc holds here.
UsesPagesAsAllowed == PageSpec

\* task.c, on release_task_pages: "release task memeory which allocated for
\* task image".  The loop reads the next node from a page it has freed; it
\* stays on the list of its task only if nobody is given the page in between.
WalkReadsOwnNode == stale = {}

=============================================================================
