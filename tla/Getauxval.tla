------------------------------ MODULE Getauxval ------------------------------
(***************************************************************************)
(* The polyfill of getauxval, in x86_64/glibc_2_16.s, with the functions   *)
(* which are called when the library is loaded and unloaded.               *)
(*                                                                         *)
(* The auxiliary vector of the process is on its stack, where only         *)
(* getauxval_init can find it.  A thread which calls getauxval earlier, or *)
(* after getauxval_fini, reads /proc/self/auxv into a page of its own, and *)
(* tries to make that page the one which all threads use.                  *)
(*                                                                         *)
(* Every system call and every access to getauxval_base_ptr is a step.  A  *)
(* call which is interrupted is repeated at once, and is not a step.       *)
(***************************************************************************)
EXTENDS Integers, Sequences

CONSTANTS
  Threads,
  Auxv,      \* the keys of the auxiliary vector, in order
  AuxKeys,   \* the keys which getauxval is asked for
  Capacity,  \* the entries for which a page has room (4080 bytes in the code)
  Blocks,    \* the pages which mmap can return
  Null,      \* the null pointer
  Vector,    \* the address of the auxiliary vector, marked with a bit
  MaxCalls   \* bound: the calls of all threads

ASSUME AuxvAssumption ==
  /\ Auxv \in Seq(AuxKeys)
  /\ Capacity \in Nat \ {0} /\ MaxCalls \in Nat
  /\ Null \notin Blocks /\ Vector \notin Blocks /\ Null # Vector

VARIABLES
  base,     \* getauxval_base_ptr
  mapped,   \* the pages which are mapped
  filled,   \* the entries which have been read into each
  loader,   \* "start", "running" after getauxval_init, "munmap" in
            \* getauxval_fini, and "done"
  taken,    \* the page which getauxval_fini is to unmap
  pc,       \* what each thread does
  mem,      \* r8: the page of a thread
  ptr,      \* rax: the vector in which a thread looks
  fd,       \* whether a thread has /proc/self/auxv open
  want,     \* the key asked for
  answer,   \* "found" or "missing", with errno
  failed,   \* whether a system call has failed in this call (history)
  calls     \* the calls of all threads

vars == <<base, mapped, filled, loader, taken, pc, mem, ptr, fd, want, answer, failed, calls>>
shared == <<base, mapped, filled, loader, taken>>

Least(m, n) == IF m < n THEN m ELSE n

\* What there is to read, and what of it fits.
Limit == Least(Len(Auxv), Capacity)

KeysUpTo(n) == {Auxv[i] : i \in 1..n}

Init ==
  /\ base = Null /\ mapped = {} /\ filled = [b \in Blocks |-> 0]
  /\ loader = "start" /\ taken = Null
  /\ pc = [t \in Threads |-> "idle"]
  /\ mem = [t \in Threads |-> Null] /\ ptr = [t \in Threads |-> Null]
  /\ fd = [t \in Threads |-> FALSE]
  /\ want \in [Threads -> AuxKeys] /\ answer = [t \in Threads |-> "none"]
  /\ failed = [t \in Threads |-> FALSE]
  /\ calls = 0

Goto(t, step) == pc' = [pc EXCEPT ![t] = step]
Answer(t, a) == answer' = [answer EXCEPT ![t] = a] /\ Goto(t, "idle")
Fail(t) == failed' = [failed EXCEPT ![t] = TRUE]

Call(t) ==
  /\ pc[t] = "idle" /\ calls < MaxCalls
  /\ \E k \in AuxKeys : want' = [want EXCEPT ![t] = k]
  /\ calls' = calls + 1
  /\ failed' = [failed EXCEPT ![t] = FALSE]
  /\ answer' = [answer EXCEPT ![t] = "none"]
  /\ Goto(t, "top")
  /\ UNCHANGED <<shared, mem, ptr, fd>>

\* top
Top(t) ==
  /\ pc[t] = "top"
  /\ ptr' = [ptr EXCEPT ![t] = base]
  /\ Goto(t, IF base = Null THEN "mmap" ELSE "loop")
  /\ UNCHANGED <<shared, mem, fd, want, answer, failed, calls>>

\* loop: a page ends with an entry that is zero, and it is a fault to read one
\* which is not mapped.
Loop(t) ==
  /\ pc[t] = "loop"
  /\ IF ptr[t] \in Blocks \ mapped
     THEN Goto(t, "fault") /\ UNCHANGED answer
     ELSE LET n == IF ptr[t] = Vector THEN Len(Auxv) ELSE filled[ptr[t]]
          IN Answer(t, IF want[t] \in KeysUpTo(n) THEN "found" ELSE "missing")
  /\ UNCHANGED <<shared, mem, ptr, fd, want, failed, calls>>

\* try_mmap
Mmap(t) ==
  /\ pc[t] = "mmap"
  /\ \E b \in Blocks \ mapped :
       /\ mapped' = mapped \cup {b} /\ filled' = [filled EXCEPT ![b] = 0]
       /\ mem' = [mem EXCEPT ![t] = b]
  /\ Goto(t, "open")
  /\ UNCHANGED <<base, loader, taken, ptr, fd, want, answer, failed, calls>>

MmapFails(t) ==
  /\ pc[t] = "mmap"
  /\ Answer(t, "missing") /\ Fail(t)
  /\ UNCHANGED <<shared, mem, ptr, fd, want, calls>>

\* try_open
Open(t) ==
  /\ pc[t] = "open"
  /\ fd' = [fd EXCEPT ![t] = TRUE] /\ Goto(t, "read")
  /\ UNCHANGED <<shared, mem, ptr, want, answer, failed, calls>>

OpenFails(t) ==
  /\ pc[t] = "open"
  /\ Goto(t, "munmap_missing") /\ Fail(t)
  /\ UNCHANGED <<shared, mem, ptr, fd, want, answer, calls>>

\* try_read: there may be less than was asked for.
Read(t) ==
  /\ pc[t] = "read"
  /\ \E n \in 1..(Limit - filled[mem[t]]) : filled' = [filled EXCEPT ![mem[t]] = @ + n]
  /\ UNCHANGED <<base, mapped, loader, taken, pc, mem, ptr, fd, want, answer, failed, calls>>

\* Variant: the first read is the last one.
ReadComplete_Short(t) ==
  /\ pc[t] = "read" /\ filled[mem[t]] > 0
  /\ fd' = [fd EXCEPT ![t] = FALSE] /\ Goto(t, "publish")
  /\ UNCHANGED <<shared, mem, ptr, want, answer, failed, calls>>

\* read_complete: nothing is left to be read, or no room for it; the file is closed.
ReadComplete(t) ==
  /\ pc[t] = "read" /\ filled[mem[t]] = Limit
  /\ fd' = [fd EXCEPT ![t] = FALSE] /\ Goto(t, "publish")
  /\ UNCHANGED <<shared, mem, ptr, want, answer, failed, calls>>

\* "The read failed for some reason; close the fd, unmap the memory"
ReadFails(t) ==
  /\ pc[t] = "read" /\ filled[mem[t]] < Capacity
  /\ fd' = [fd EXCEPT ![t] = FALSE] /\ Goto(t, "munmap_missing") /\ Fail(t)
  /\ UNCHANGED <<shared, mem, ptr, want, answer, calls>>

\* munmap_then_not_found
MunmapMissing(t) ==
  /\ pc[t] = "munmap_missing"
  /\ mapped' = mapped \ {mem[t]} /\ mem' = [mem EXCEPT ![t] = Null]
  /\ Answer(t, "missing")
  /\ UNCHANGED <<base, filled, loader, taken, ptr, fd, want, failed, calls>>

\* Variants: the pointer is stored without comparing; it is compared with what
\* close has returned; the page is unmapped in any case.
Publish_Store(t) ==
  /\ pc[t] = "publish"
  /\ base' = mem[t] /\ mem' = [mem EXCEPT ![t] = Null] /\ Goto(t, "top")
  /\ UNCHANGED <<mapped, filled, loader, taken, ptr, fd, want, answer, failed, calls>>
Publish_StaleRax(t) ==
  /\ pc[t] = "publish"
  /\ Goto(t, "munmap_top")
  /\ UNCHANGED <<shared, mem, ptr, fd, want, answer, failed, calls>>
Publish_FallsThrough(t) ==
  /\ pc[t] = "publish"
  /\ base' = IF base = Null THEN mem[t] ELSE base
  /\ Goto(t, "munmap_top")
  /\ UNCHANGED <<mapped, filled, loader, taken, mem, ptr, fd, want, answer, failed, calls>>

\* lock cmpxchg
Publish(t) ==
  /\ pc[t] = "publish"
  /\ IF base = Null
     THEN base' = mem[t] /\ mem' = [mem EXCEPT ![t] = Null] /\ Goto(t, "top")
     ELSE Goto(t, "munmap_top") /\ UNCHANGED <<base, mem>>
  /\ UNCHANGED <<mapped, filled, loader, taken, ptr, fd, want, answer, failed, calls>>

\* "The cmpxchg failed, so free our memory and try again."
MunmapTop(t) ==
  /\ pc[t] = "munmap_top"
  /\ mapped' = mapped \ {mem[t]} /\ mem' = [mem EXCEPT ![t] = Null]
  /\ Goto(t, "top")
  /\ UNCHANGED <<base, filled, loader, taken, ptr, fd, want, answer, failed, calls>>

-----------------------------------------------------------------------------
threads == <<pc, mem, ptr, fd, want, answer, failed, calls>>

\* getauxval_init
AuxvInit ==
  /\ loader = "start" /\ loader' = "running"
  /\ base' = IF base = Null THEN Vector ELSE base
  /\ UNCHANGED <<mapped, filled, taken, threads>>

\* getauxval_fini: "rdi == NULL? Could happen if getauxval_init never ran."
AuxvFini ==
  /\ loader \in {"start", "running"}
  /\ base' = Null
  /\ IF base \in Blocks THEN loader' = "munmap" /\ taken' = base
                        ELSE loader' = "done" /\ UNCHANGED taken
  /\ UNCHANGED <<mapped, filled, threads>>

AuxvFiniMunmap ==
  /\ loader = "munmap" /\ loader' = "done"
  /\ mapped' = mapped \ {taken} /\ taken' = Null
  /\ UNCHANGED <<base, filled, threads>>

Step(t) ==
  \/ Top(t) \/ Loop(t) \/ Mmap(t) \/ MmapFails(t) \/ Open(t) \/ OpenFails(t)
  \/ Read(t) \/ ReadComplete(t) \/ ReadFails(t) \/ MunmapMissing(t)
  \/ Publish(t) \/ MunmapTop(t)

Next ==
  \/ \E t \in Threads : Call(t) \/ Step(t)
  \/ AuxvInit \/ AuxvFini \/ AuxvFiniMunmap

Spec == Init /\ [][Next]_vars /\ \A t \in Threads : WF_vars(Step(t))

-----------------------------------------------------------------------------
(* Properties.                                                              *)

Steps == {"idle", "top", "loop", "mmap", "open", "read", "munmap_missing", "publish",
          "munmap_top", "fault"}

TypeOK ==
  /\ base \in Blocks \cup {Null, Vector} /\ mapped \subseteq Blocks
  /\ filled \in [Blocks -> 0..Limit]
  /\ loader \in {"start", "running", "munmap", "done"} /\ taken \in Blocks \cup {Null}
  /\ pc \in [Threads -> Steps]
  /\ mem \in [Threads -> Blocks \cup {Null}]
  /\ ptr \in [Threads -> Blocks \cup {Null, Vector}]
  /\ fd \in [Threads -> BOOLEAN] /\ want \in [Threads -> AuxKeys]
  /\ answer \in [Threads -> {"none", "found", "missing"}]
  /\ failed \in [Threads -> BOOLEAN] /\ calls \in 0..MaxCalls

\* A thread which has a page that is its own.
Holding(t) == pc[t] \in {"open", "read", "munmap_missing", "publish", "munmap_top"}

\* The page which all threads use, and those which threads and getauxval_fini are
\* about to unmap, are mapped, and are different pages.
BaseMapped == base \in Blocks => base \in mapped
HeldApart ==
  /\ \A t \in Threads : Holding(t) => mem[t] \in mapped /\ mem[t] # base
  /\ \A t, u \in Threads : Holding(t) /\ Holding(u) /\ t # u => mem[t] # mem[u]
TakenApart ==
  loader = "munmap" =>
    taken \in mapped /\ taken # base /\ \A t \in Threads : Holding(t) => mem[t] # taken

\* A page which is mapped is one of these.
NothingLost ==
  \A b \in mapped : \/ b = base
                    \/ loader = "munmap" /\ b = taken
                    \/ \E t \in Threads : Holding(t) /\ mem[t] = b
FilesClosed == \A t \in Threads : fd[t] => pc[t] = "read"

\* Whichever system calls fail and whoever wins the race, a page is neither lost
\* nor unmapped twice: a page which is mapped is the one all threads use, or
\* belongs to one thread or to getauxval_fini, which will unmap it; no one else
\* does.  A file is open only while a thread reads it.
Owned == BaseMapped /\ HeldApart /\ TakenApart /\ NothingLost /\ FilesClosed

\* Until the library is unloaded, no thread reads a page which is not mapped, and
\* all of them look into the same one.
ReadsMapped ==
  loader \in {"start", "running"} =>
    \A t \in Threads :
      /\ pc[t] # "fault"
      /\ pc[t] = "loop" => ptr[t] = base /\ base # Null

\* Until the library is unloaded, the answer is right: what is in the vector is
\* found, unless a system call has failed or there is no room for it, and nothing
\* else is.
AnswerRight ==
  loader \in {"start", "running"} =>
    \A t \in Threads :
      /\ answer[t] = "found" => want[t] \in KeysUpTo(Len(Auxv))
      /\ answer[t] = "missing" /\ ~ failed[t] => want[t] \notin KeysUpTo(Limit)

\* A call returns, however often it loses the race.
Answered == \A t \in Threads : pc[t] = "top" ~> pc[t] \in {"idle", "fault"}
=============================================================================
