---------------------------- MODULE RawStructures ----------------------------
(***************************************************************************)
(* The parts that depend on no task of the kernel: the bitmap of the run   *)
(* queue, the memory pools, the memory managers, and the libraries and     *)
(* services around the kernel.  A behaviour is one of one of them;         *)
(* raw_malloc.c uses raw_page.c, the shell's table of commands completes   *)
(* lines in the line editor.                                               *)
(***************************************************************************)
EXTENDS BitSearch, RawPools, RawHeap, RawMalloc, RawTlsf, RawFrame, RawSlab,
        RawFifo, SerialFifo, RbTree, RawStm, RawProcess, RawIdleEvent, RawActive, RawWorkQueue,
        Cli

CONSTANT Parts  \* the parts that a run looks at

KernelParts == {"bitmap", "blocks", "bytes"}
ManagerParts == {"heap", "pages", "malloc", "tlsf", "frames", "slab"}
ServiceParts == {"fifo", "serial", "tree", "machine", "threads", "idle", "line", "shell"}
TaskParts == {"actors", "work"}

ASSUME PartsAssumption ==
  Parts \subseteq KernelParts \cup ManagerParts \cup ServiceParts \cup TaskParts

VARIABLE part   \* the part in use

kernelvars == <<bitvars, blockvars, bytevars>>
managervars == <<heap, pages, arena, tlsf, framevars, slab>>
servicevars == <<fifo, serial, tree, stm, proto, idle, line, shell>>
taskvars == <<active, work>>
vars == <<part, kernelvars, managervars, servicevars, taskvars>>

Init ==
  /\ part \in Parts
  /\ BitInit /\ raw_block_pool_create /\ raw_byte_pool_create
  /\ IF part = "heap" THEN HeapInit ELSE heap = mem_1_init
  /\ IF part = "pages" THEN PageInit ELSE pages = init_page_table(Min(PageEnds))
  /\ IF part = "frames" THEN FrameInit ELSE zones = <<>> /\ owned = <<>>
  /\ raw_malloc_init /\ init_memory_pool /\ slab_cache_init
  /\ part # "bitmap" => beyond = {}
  /\ IF part = "fifo" THEN FifoInit ELSE fifo = fifo_init(FALSE)
  /\ IF part = "threads" THEN ProcessInit ELSE proto = process_init(CHOOSE c \in Casts : TRUE)
  /\ IF part = "line" THEN LineInit ELSE line = hist_init(CHOOSE s \in Sessions : TRUE)
  /\ IF part = "actors" THEN ActiveInit ELSE active = active_object_create(CHOOSE x \in Troupes : TRUE)
  /\ SerialInit /\ TreeInit /\ StmInit /\ IdleInit /\ WorkInit /\ ShellInit
  /\ part # "machine" => ~stm.flat

KernelNext ==
  \/ part = "bitmap" /\ BitNext /\ UNCHANGED <<blockvars, bytevars>>
  \/ part = "blocks" /\ BlockNext /\ UNCHANGED <<bitvars, bytevars>>
  \/ part = "bytes" /\ ByteNext /\ UNCHANGED <<bitvars, blockvars>>

ManagerNext ==
  \/ part = "heap" /\ HeapNext /\ UNCHANGED <<pages, arena, tlsf, framevars, slab>>
  \/ part = "pages" /\ PageNext /\ UNCHANGED <<heap, arena, tlsf, framevars, slab>>
  \/ part = "malloc" /\ MallocNext /\ UNCHANGED <<heap, tlsf, framevars, slab>>
  \/ part = "tlsf" /\ TlsfNext /\ UNCHANGED <<heap, pages, arena, framevars, slab>>
  \/ part = "frames" /\ FrameNext /\ UNCHANGED <<heap, pages, arena, tlsf, slab>>
  \/ part = "slab" /\ SlabNext /\ UNCHANGED <<heap, pages, arena, tlsf, framevars>>

ServiceNext ==
  \/ part = "fifo" /\ FifoNext /\ UNCHANGED <<serial, tree, stm, proto, idle, line, shell>>
  \/ part = "serial" /\ SerialNext /\ UNCHANGED <<fifo, tree, stm, proto, idle, line, shell>>
  \/ part = "tree" /\ TreeNext /\ UNCHANGED <<fifo, serial, stm, proto, idle, line, shell>>
  \/ part = "machine" /\ StmNext /\ UNCHANGED <<fifo, serial, tree, proto, idle, line, shell>>
  \/ part = "threads" /\ ProcessNext /\ UNCHANGED <<fifo, serial, tree, stm, idle, line, shell>>
  \/ part = "idle" /\ IdleNext /\ UNCHANGED <<fifo, serial, tree, stm, proto, line, shell>>
  \/ part = "line" /\ LineNext /\ UNCHANGED <<fifo, serial, tree, stm, proto, idle, shell>>
  \/ part = "shell" /\ ShellNext /\ UNCHANGED <<fifo, serial, tree, stm, proto, idle, line>>

TaskNext ==
  \/ part = "actors" /\ ActiveNext /\ UNCHANGED work
  \/ part = "work" /\ WorkNext /\ UNCHANGED active

Next ==
  /\ UNCHANGED part
  /\ \/ KernelNext /\ UNCHANGED <<managervars, servicevars, taskvars>>
     \/ ManagerNext /\ UNCHANGED <<kernelvars, servicevars, taskvars>>
     \/ ServiceNext /\ UNCHANGED <<kernelvars, managervars, taskvars>>
     \/ TaskNext /\ UNCHANGED <<kernelvars, managervars, servicevars>>

Spec == Init /\ [][Next]_vars

(* What tells the states of a part from each other. *)
View ==
  <<part, CASE part = "bitmap"  -> bitvars
            [] part = "blocks"  -> blockvars
            [] part = "bytes"   -> bytevars
            [] part = "heap"    -> heap
            [] part = "pages"   -> pages
            [] part = "malloc"  -> <<pages, arena>>
            [] part = "tlsf"    -> tlsf
            [] part = "frames"  -> framevars
            [] part = "slab"    -> slab
            [] part = "fifo"    -> fifo
            [] part = "serial"  -> serial
            [] part = "tree"    -> tree
            [] part = "machine" -> stm
            [] part = "threads" -> ProcessView
            [] part = "idle"    -> IdleView
            [] part = "line"    -> line
            [] part = "shell"   -> shell
            [] part = "actors"  -> active
            [] part = "work"    -> WorkView>>

-----------------------------------------------------------------------------

(* The search finds the next bit that is set, wherever it starts.          *)
SearchIsExact == part = "bitmap" => SearchFindsNext







(* The terminal shows the line that will be run, the history has the lines *)
(* before; an empty line runs only what may be repeated, and what the user *)
(* protects by quotes or escapes reaches the command as it is.             *)
ConsoleExact ==
  CASE part = "line"  -> ScreenShowsLine /\ HistoryInOrder
    [] part = "shell" -> RepeatsOnlyRepeatable /\ ProtectionHolds /\ HelpListsAll
    [] OTHER          -> TRUE
=============================================================================
