-------------------------------- MODULE Exec --------------------------------
(***************************************************************************)
(* From a directory on the build machine to the image of a process:        *)
(* genramdisk packs the directory, ramdisk.c opens and reads its files,    *)
(* elf.c parses one, do_exec (kernel/task.c) copies its sections into the  *)
(* pages of a process page by page and puts the arguments into the first   *)
(* of them, and fork copies the pages.                                     *)
(*                                                                         *)
(* Memory is counted in words and is linear, as the kernel sees it: the    *)
(* page f is the words f * PageSize and on.  A word is a pair, so that it  *)
(* tells where it comes from: <<file, k>> is word k of a file.  The image  *)
(* of a process is a list of pages, in the order its allocation found them. *)
(* What a process itself writes is left out.                               *)
(***************************************************************************)
EXTENDS Integers, Sequences, SequencesExt, FiniteSets

CONSTANTS
  Tasks,         \* the processes
  PageSize,      \* words in a page
  ImagePages,    \* pages of an image (PROCESS_IMAGE_SIZE)
  Placements,    \* lists of pages an image may be given
  MAX_ARGV,
  Directories,   \* the directories the ramdisk may be made of
  Argvs,         \* the argument vectors a caller passes
  HeaderSize,    \* words of the ramdisk header and of a file header
  FileAlign,     \* words a file on the disk is rounded up to
  MaxCalls       \* calls of exec (bound)

\* What a file is: with a name, a length in words, and what its ELF headers say.
Sections == [addr : Nat, offset : Nat, size : Nat, bss : BOOLEAN]

Files == [name : STRING \ {""}, size : Nat, readable : BOOLEAN, elf : BOOLEAN,
          secs : Seq(Sections)]

\* What a caller passes: a string of a word, whether it fills the word, and
\* where in its image the caller has it, -1 if it is not there.
Args == [word : STRING \X Nat, full : BOOLEAN,
         from : -1 .. ImagePages * PageSize - 1]

\* The first n numbers of a sequence in all.
Total(s, n) ==
  LET sum[i \in 0 .. n] == IF i = 0 THEN 0 ELSE sum[i - 1] + s[i]
  IN  sum[n]

SumSizes(secs) == Total([i \in DOMAIN secs |-> secs[i].size], Len(secs))

\* The table and the words of the arguments fit into a page.
ASSUME ExecAssumption ==
  /\ PageSize \in Nat \ {0} /\ ImagePages \in Nat \ {0} /\ MaxCalls \in Nat
  /\ MAX_ARGV \in Nat \ {0} /\ 2 * MAX_ARGV < PageSize
  /\ HeaderSize \in Nat /\ FileAlign \in Nat \ {0}
  /\ IsFiniteSet(Tasks)
  /\ \A l \in Placements :
       /\ l \in Seq(0 .. ImagePages * Cardinality(Tasks))
       /\ Len(l) = ImagePages /\ IsInjective(l)
  /\ \A argv \in Argvs : argv \in Seq(Args)

Extent(s) == s.addr .. s.addr + s.size - 1

\* A directory has a name once.  Programs are linked for the image they get, with
\* sections that do not overlap: nothing in the code looks for the end of the
\* image.
ASSUME ProgramAssumption ==
  \A d \in Directories :
    /\ d \in Seq(Files)
    /\ \A i, j \in DOMAIN d : d[i].name = d[j].name => i = j
    /\ \A i \in DOMAIN d :
         /\ \A k \in DOMAIN d[i].secs :
              /\ d[i].secs[k].addr + d[i].secs[k].size <= ImagePages * PageSize
              /\ \A n \in DOMAIN d[i].secs \ {k} :
                   Extent(d[i].secs[k]) \cap Extent(d[i].secs[n]) = {}
         /\ SumSizes(d[i].secs) + PageSize <= ImagePages * PageSize

VARIABLES
  disk,      \* the ramdisk: its file headers and its words
  mem,       \* the words of the pages
  img,       \* elf_image_list of a process, <<>> if there is no process
  elf_size,  \* mm_struct.elf_size
  argc,      \* r0 of a process that starts
  call,      \* the exec a process is in
  heap,      \* live objects of do_exec by kind
  calls,     \* calls of exec so far
  was        \* history: the program and arguments of a process, processes
             \* that fork has copied a part of, loads so far

execVars == <<disk, mem, img, elf_size, argc, call, heap, calls, was>>

Junk == <<"junk", 0>>
Zero == <<"zero", 0>>
Nul == <<"nul", 0>>

NoHead == [name |-> "", base |-> 0, size |-> 0]

Idle == [at |-> "idle", name |-> "", file |-> NoHead, secs |-> <<>>,
         nr |-> 0, argv |-> <<>>, kernel |-> FALSE]

Kinds == {"file", "header", "str", "elf", "section"}

-----------------------------------------------------------------------------
(* genramdisk.c and ramdisk.c *)

RoundUp(n) == ((n + FileAlign - 1) \div FileAlign) * FileAlign

\* Where the data of the i-th file goes: behind as many headers as the directory
\* has entries, whether they can be opened or not.
Base(d, ok, i) ==
  HeaderSize * (1 + Len(d)) + Total([k \in DOMAIN ok |-> RoundUp(ok[k].size)], i - 1)

\* The files that can be opened, in the order of the directory.
Opened(d) ==
  LET open[i \in 0 .. Len(d)] ==
        IF i = 0 THEN <<>>
        ELSE IF d[i].readable THEN Append(open[i - 1], d[i]) ELSE open[i - 1]
  IN  open[Len(d)]

\* A file that cannot be opened is passed over but counted, so that as many
\* headers at the end are left blank (the buffer is fresh memory).
gen_ramdisk(d) ==
  LET ok == Opened(d)
      At(p) == {i \in DOMAIN ok : p \in Base(d, ok, i) .. Base(d, ok, i) + ok[i].size - 1}
      size == Base(d, ok, Len(ok) + 1)
  IN  [head |-> [i \in DOMAIN d |->
                   IF i <= Len(ok)
                   THEN [name |-> ok[i].name, base |-> Base(d, ok, i), size |-> ok[i].size]
                   ELSE NoHead],
       word |-> [p \in 0 .. size |->
                   IF At(p) = {} THEN <<"pad", 0>>
                   ELSE LET i == CHOOSE x \in At(p) : \A y \in At(p) : y <= x
                        IN  <<ok[i].name, p - Base(d, ok, i)>>],
       files |-> ToSet(ok)]

\* What an ELF file says of itself, by its name.
Elf(name) == CHOOSE f \in disk.files : f.name = name

\* The first header with the name, {} if there is none.
Lookup(name) ==
  LET hits == {i \in DOMAIN disk.head : disk.head[i].name = name}
  IN  IF hits = {} THEN {} ELSE {disk.head[CHOOSE i \in hits : \A k \in hits : i <= k]}

\* ramdisk_seek and ramdisk_read: word k from an offset, as long as the file goes.
Read(file, offset, k) ==
  IF offset + k < file.size THEN {disk.word[file.base + offset + k]} ELSE {}

-----------------------------------------------------------------------------
(* Memory *)

\* The kernel's address of a user address (both from the start of the image).
Kva(l, a) == l[1 + (a \div PageSize)] * PageSize + (a % PageSize)

Peek(t, a) == mem[Kva(img[t], a)]

Words(l) == {Kva(l, a) : a \in 0 .. ImagePages * PageSize - 1}

Alive(t) == img[t] # <<>>

\* A list of pages that no process has.
Free(l) == \A u \in Tasks : ToSet(img[u]) \cap ToSet(l) = {}

page_nr(n) == (n + PageSize - 1) \div PageSize

\* Mutant of Place: the offset in the first page is not subtracted.
Place_first(l, s, w) ==
  LET i == s.addr \div PageSize
      j == s.addr % PageSize
      first == IF s.size >= PageSize THEN PageSize ELSE s.size
  IN  IF w < first THEN l[i + 1] * PageSize + j + w
      ELSE l[i + 2 + ((w - first) \div PageSize)] * PageSize
             + ((w - first) % PageSize)

\* load_elf_section: where word w of a section is written.  The first piece ends
\* with the page if the section is a page long or longer, and is the whole of it
\* otherwise, even if that goes on behind the page; the pieces that follow start
\* a page each.
Place(l, s, w) ==
  LET i == s.addr \div PageSize
      j == s.addr % PageSize
      first == IF s.size >= PageSize THEN PageSize - j ELSE s.size
  IN  IF w < first THEN l[i + 1] * PageSize + j + w
      ELSE l[i + 2 + ((w - first) \div PageSize)] * PageSize
             + ((w - first) % PageSize)

\* A file that ends within a section leaves the rest of it as it was.
Loaded(l, file, s) ==
  [p \in DOMAIN mem |->
     LET ws == {w \in 0 .. s.size - 1 : Place(l, s, w) = p}
         new == IF s.bss THEN {Zero}
                ELSE UNION {Read(file, s.offset, w) : w \in ws}
     IN  IF ws # {} /\ new # {} THEN CHOOSE x \in new : TRUE ELSE mem[p]]

\* setup_task_argv: the table of pointers, then the strings.  A string of whole
\* words ends with a word of its own, which the next string is put over.  The
\* words are read from where the caller has them, after the new image is there.
Strings(t, argv) ==
  [i \in 1 .. IF Len(argv) < MAX_ARGV THEN Len(argv) ELSE MAX_ARGV |->
     IF argv[i].from = -1 THEN argv[i].word ELSE Peek(t, argv[i].from)]

\* Mutant of Arguments: the strings begin at the second word of the table.
Arguments_low(l, strings, argv) ==
  LET n == Len(strings)
      base == l[1] * PageSize
  IN  [p \in DOMAIN mem |->
         CASE p - base \in 0 .. n - 1 -> <<"ptr", 1 + p - base>>
           [] p - base - 1 \in 0 .. n - 1 -> strings[p - base]
           [] OTHER -> mem[p]]

Arguments(l, strings, argv) ==
  LET n == Len(strings)
      base == l[1] * PageSize
  IN  [p \in DOMAIN mem |->
         CASE p - base \in 0 .. n - 1 -> <<"ptr", MAX_ARGV + p - base>>
           [] p - base - MAX_ARGV \in 0 .. n - 1 ->
                strings[1 + p - base - MAX_ARGV]
           [] n > 0 /\ argv[n].full /\ p - base = MAX_ARGV + n -> Nul
           [] OTHER -> mem[p]]

\* Mutant of Copied: source and target are swapped.
Copied_back(old, new, size) ==
  [p \in DOMAIN mem |->
     LET as == {a \in 0 .. page_nr(size + PageSize) * PageSize - 1 : Kva(old, a) = p}
     IN  IF as = {} THEN mem[p] ELSE mem[Kva(new, CHOOSE a \in as : TRUE)]]

\* copy_process_memory: as many pages of the image as the sections are long in
\* all, and one for the arguments.
Copied(old, new, size) ==
  [p \in DOMAIN mem |->
     LET as == {a \in 0 .. page_nr(size + PageSize) * PageSize - 1 : Kva(new, a) = p}
     IN  IF as = {} THEN mem[p] ELSE mem[Kva(old, CHOOSE a \in as : TRUE)]]

-----------------------------------------------------------------------------
(* do_exec *)

ExecInit ==
  /\ disk \in {gen_ramdisk(d) : d \in Directories}
  /\ mem = [p \in 0 .. (1 + ImagePages * Cardinality(Tasks)) * PageSize - 1 |-> Junk]
  /\ img = [t \in Tasks |-> <<>>]
  /\ elf_size = [t \in Tasks |-> 0]
  /\ argc = [t \in Tasks |-> 0]
  /\ call = [t \in Tasks |-> Idle]
  /\ heap = [k \in Kinds |-> 0]
  /\ calls = 0
  /\ was = [prog |-> [t \in Tasks |-> ""], argv |-> [t \in Tasks |-> <<>>],
            short |-> {}, loaded |-> {}]

\* The names callers ask for, one of them of no file.
Names == {"none"} \cup {f.name : f \in UNION {ToSet(d) : d \in Directories}}

Begin(t, name, argv, kernel) ==
  /\ calls < MaxCalls
  /\ calls' = calls + 1
  /\ call' = [call EXCEPT ![t] = [Idle EXCEPT !.at = "open", !.name = name,
                                              !.argv = argv, !.kernel = kernel]]

\* A kernel thread: fork_new_task makes the process.
KernelExec(t, name, argv) ==
  /\ ~Alive(t)
  /\ \A i \in DOMAIN argv : argv[i].from = -1
  /\ \E l \in Placements : Free(l) /\ img' = [img EXCEPT ![t] = l]
  /\ Begin(t, name, argv, TRUE)
  /\ was' = [was EXCEPT !.prog[t] = "", !.short = @ \ {t}]
  /\ UNCHANGED <<disk, mem, elf_size, argc, heap>>

\* A process: the image it has will be overwritten.
UserExec(t, name, argv) ==
  /\ Alive(t) /\ call[t].at = "idle"
  /\ Begin(t, name, [i \in DOMAIN argv |->
                       IF argv[i].from = -1 THEN argv[i]
                       ELSE [argv[i] EXCEPT !.word = Peek(t, argv[i].from)]], FALSE)
  /\ UNCHANGED <<disk, mem, img, elf_size, argc, heap, was>>

\* The end of do_exec with an error: a process made for the call is released,
\* a process that called goes on.
Failed(t) ==
  /\ call' = [call EXCEPT ![t] = Idle]
  /\ img' = IF call[t].kernel THEN [img EXCEPT ![t] = <<>>] ELSE img

Take(ks) == [k \in Kinds |-> IF k \in ks THEN heap[k] + 1 ELSE heap[k]]

Give(ks) == [k \in Kinds |-> IF k \in ks THEN heap[k] - 1 ELSE heap[k]]

\* fs_open: no such file, or no memory for it.
OpenFails(t) ==
  /\ call[t].at = "open"
  /\ Failed(t)
  /\ UNCHANGED <<disk, mem, elf_size, argc, heap, calls, was>>

Open(t) ==
  /\ call[t].at = "open"
  /\ \E h \in Lookup(call[t].name) :
       call' = [call EXCEPT ![t].at = "header", ![t].file = h]
  /\ heap' = Take({"file"})
  /\ UNCHANGED <<disk, mem, img, elf_size, argc, calls, was>>

\* get_elf_info: not an ELF file, or no memory for the section headers.
HeaderFails(t) ==
  /\ call[t].at = "header"
  /\ Failed(t)
  /\ UNCHANGED <<disk, mem, elf_size, argc, heap, calls, was>>

Header(t) ==
  /\ call[t].at = "header"
  /\ Elf(call[t].name).elf
  /\ heap' = Take({"header"})
  /\ call' = [call EXCEPT ![t].at = "str"]
  /\ UNCHANGED <<disk, mem, img, elf_size, argc, calls, was>>

StrFails(t) ==
  /\ call[t].at = "str"
  /\ heap' = Give({"header"})
  /\ Failed(t)
  /\ UNCHANGED <<disk, mem, elf_size, argc, calls, was>>

Str(t) ==
  /\ call[t].at = "str"
  /\ heap' = Take({"str"})
  /\ call' = [call EXCEPT ![t].at = "parse"]
  /\ UNCHANGED <<disk, mem, img, elf_size, argc, calls, was>>

\* Mutant of ParseFails: the way out of a failed section allocation frees the
\* headers only.
ParseFails_str(t) ==
  /\ call[t].at = "parse"
  /\ heap' = Give({"header"})
  /\ Failed(t)
  /\ UNCHANGED <<disk, mem, elf_size, argc, calls, was>>

\* No memory for the elf_file or for one of its sections, or nothing to load:
\* what there is of it is released, then the two buffers.
ParseFails(t) ==
  /\ call[t].at = "parse"
  /\ heap' = Give({"header", "str"})
  /\ Failed(t)
  /\ UNCHANGED <<disk, mem, elf_size, argc, calls, was>>

\* The sections to be loaded, in the order of the file; load_elf_image begins.
Parse(t) ==
  LET secs == Elf(call[t].name).secs
  IN  /\ call[t].at = "parse"
      /\ SumSizes(secs) > 0
      /\ heap' = [Give({"header", "str"}) EXCEPT !["elf"] = @ + 1,
                                                 !["section"] = @ + Len(secs)]
      /\ call' = [call EXCEPT ![t].at = "load", ![t].secs = secs, ![t].nr = Len(secs)]
      /\ elf_size' = [elf_size EXCEPT ![t] = 0]
      /\ UNCHANGED <<disk, mem, img, argc, calls, was>>

ReleaseElf(t) == [heap EXCEPT !["elf"] = @ - 1, !["section"] = @ - call[t].nr]

Bad(s) == s.addr < PageSize \/ s.size = 0

LoadSection(t) ==
  LET s == Head(call[t].secs)
  IN  /\ call[t].at = "load" /\ call[t].secs # <<>> /\ ~Bad(s)
      /\ mem' = Loaded(img[t], call[t].file, s)
      /\ elf_size' = [elf_size EXCEPT ![t] = @ + s.size]
      /\ call' = [call EXCEPT ![t].secs = Tail(@)]
      /\ was' = [was EXCEPT !.prog[t] = "",
                            !.loaded = @ \cup {<<call[t].name, img[t]>>}]
      /\ UNCHANGED <<disk, img, argc, heap, calls>>

\* A section below the first page of the program, or of no size, ends the load.
\* The sections before it stay where they are, and a process that called returns
\* into what is left of its image.
LoadFails(t) ==
  /\ call[t].at = "load" /\ call[t].secs # <<>> /\ Bad(Head(call[t].secs))
  /\ heap' = ReleaseElf(t)
  /\ Failed(t)
  /\ UNCHANGED <<disk, mem, elf_size, argc, calls, was>>

\* init_pt_regs counts all the arguments; setup_task_argv; the elf_file is
\* released, and ramdisk_close, which frees a file that is not there, keeps the
\* file.
Finish(t) ==
  LET argv == call[t].argv
  IN  /\ call[t].at = "load" /\ call[t].secs = <<>>
      /\ mem' = Arguments(img[t], Strings(t, argv), argv)
      /\ argc' = [argc EXCEPT ![t] = Len(argv)]
      /\ heap' = ReleaseElf(t)
      /\ call' = [call EXCEPT ![t] = Idle]
      /\ was' = [was EXCEPT !.prog[t] = call[t].name, !.argv[t] = argv,
                            !.short = @ \ {t}]
      /\ UNCHANGED <<disk, img, elf_size, calls>>

\* The pages fork copies hold less than the program: it has gaps, which elf_size
\* does not count, or elf_size has been cleared by a load that then failed at once
\* and left the image as it was.
Short(t) ==
  \/ t \in was.short
  \/ /\ was.prog[t] # ""
     /\ \E i \in DOMAIN Elf(was.prog[t]).secs :
          LET s == Elf(was.prog[t]).secs[i]
          IN  s.addr + s.size > page_nr(elf_size[t] + PageSize) * PageSize

\* do_fork of a process: init_mm_struct and copy_process.
Fork(t, u) ==
  /\ Alive(t) /\ call[t].at = "idle" /\ ~Alive(u)
  /\ \E l \in Placements :
       /\ Free(l)
       /\ img' = [img EXCEPT ![u] = l]
       /\ mem' = Copied(img[t], l, elf_size[t])
  /\ elf_size' = [elf_size EXCEPT ![u] = elf_size[t]]
  /\ argc' = [argc EXCEPT ![u] = argc[t]]
  /\ was' = [was EXCEPT !.prog[u] = was.prog[t], !.argv[u] = was.argv[t],
                        !.short = IF Short(t) THEN @ \cup {u} ELSE @ \ {u}]
  /\ UNCHANGED <<disk, call, heap, calls>>

\* release_task, when the process has been killed.
Exit(t) ==
  /\ Alive(t) /\ call[t].at = "idle"
  /\ img' = [img EXCEPT ![t] = <<>>]
  /\ UNCHANGED <<disk, mem, elf_size, argc, call, heap, calls, was>>

ExecNext ==
  \E t \in Tasks :
    \/ \E name \in Names, argv \in Argvs :
         KernelExec(t, name, argv) \/ UserExec(t, name, argv)
    \/ Open(t) \/ OpenFails(t) \/ Header(t) \/ HeaderFails(t)
    \/ Str(t) \/ StrFails(t) \/ Parse(t) \/ ParseFails(t)
    \/ LoadSection(t) \/ LoadFails(t) \/ Finish(t)
    \/ \E u \in Tasks : Fork(t, u)
    \/ Exit(t)

ExecSpec == ExecInit /\ [][ExecNext]_execVars

-----------------------------------------------------------------------------
(* Properties *)

\* A section shorter than a page that goes on in the next one.
Crosses(s) == s.size < PageSize /\ (s.addr % PageSize) + s.size > PageSize

\* No load so far has written behind a page: none had such a section, or the
\* pages of the list were neighbours, as they are if the process is given a run
\* of free pages.
NoOverrun ==
  \A x \in was.loaded :
    \/ \A i \in DOMAIN Elf(x[1]).secs : ~Crosses(Elf(x[1]).secs[i])
    \/ \A i \in 1 .. ImagePages - 1 : x[2][i + 1] = x[2][i] + 1

Running(t) == Alive(t) /\ call[t].at = "idle" /\ was.prog[t] # ""

\* A process runs what is in its file: every word of every section is where it
\* was linked to, through gen_ramdisk, open, seek, the pieces of
\* load_elf_section and any number of forks, whatever pages it was given and
\* whatever other processes have loaded.  Known exceptions: a load that has
\* written behind a page, and a child that fork has copied a part of only.
ImageIsTheFile ==
  NoOverrun => \A t \in Tasks :
    Running(t) /\ t \notin was.short =>
      LET f == Elf(was.prog[t])
      IN  \A i \in DOMAIN f.secs : \A w \in 0 .. f.secs[i].size - 1 :
            LET s == f.secs[i]
            IN  s.bss \/ s.offset + w < f.size =>
                  Peek(t, s.addr + w) =
                    IF s.bss THEN Zero ELSE <<f.name, s.offset + w>>

\* A process finds its arguments: argc is the number of them, the table points
\* to them and each ends where it should.  Known exceptions: a caller's string
\* in the image that is loaded over, a string of whole words that is not the
\* last, and more than MAX_ARGV arguments.
ArgumentsArrive ==
  NoOverrun => \A t \in Tasks :
    Running(t) /\ Len(was.argv[t]) <= MAX_ARGV =>
      LET argv == was.argv[t]
          secs == Elf(was.prog[t]).secs
          Covered(a) == \E i \in DOMAIN secs : a \in Extent(secs[i])
      IN  /\ argc[t] = Len(argv)
          /\ \A i \in DOMAIN argv :
               ~Covered(argv[i].from) /\ (argv[i].full => i = Len(argv)) =>
                 /\ Peek(t, i - 1) = <<"ptr", MAX_ARGV + i - 1>>
                 /\ Peek(t, MAX_ARGV + i - 1) = argv[i].word
                 /\ argv[i].full => Peek(t, MAX_ARGV + i) = Nul

\* Whatever way do_exec ends, of the objects it has allocated only the file is
\* left, which ramdisk_close never frees.
OnlyTheFileIsLeft ==
  (\A t \in Tasks : call[t].at = "idle") => \A k \in Kinds \ {"file"} : heap[k] = 0

\* exec and fork of one process never write to the pages of another, unless a
\* load writes behind a page.
OthersUntouched ==
  [][NoOverrun' => \A u \in Tasks :
       Alive(u) /\ img'[u] = img[u] /\ call[u].at = "idle" /\ call'[u].at = "idle"
         => \A p \in Words(img[u]) : mem'[p] = mem[p]]_execVars

=============================================================================
