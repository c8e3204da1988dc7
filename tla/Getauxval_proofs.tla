-------------------------- MODULE Getauxval_proofs --------------------------
(***************************************************************************)
(* Proofs about Getauxval, for any number of threads, any vector and any   *)
(* size of a page: pages have one owner each, no thread reads a page which *)
(* is not mapped before the library is unloaded, and answers are right.    *)
(***************************************************************************)
EXTENDS Getauxval, TLAPS

LEMMA LimitType == Len(Auxv) \in Nat /\ Limit \in 0..Len(Auxv) /\ Limit \in Nat
BY AuxvAssumption DEF Limit, Least

-----------------------------------------------------------------------------
(* Types.                                                                   *)

LEMMA InitType == Init => TypeOK
BY LimitType, AuxvAssumption DEF Init, TypeOK, Steps

\* A thread which has a page that is its own has a page at all.
LEMMA TypeStep == TypeOK /\ Owned /\ [Next]_vars => TypeOK'
<1> SUFFICES ASSUME TypeOK, Owned, [Next]_vars PROVE TypeOK'
  OBVIOUS
<1> USE DEF TypeOK, Steps, Goto, Answer, Fail, shared
<1>1. ASSUME NEW t \in Threads, Call(t) PROVE TypeOK'
  BY <1>1, AuxvAssumption DEF Call
<1>2. ASSUME NEW t \in Threads, Top(t) PROVE TypeOK'
  BY <1>2 DEF Top
<1>3. ASSUME NEW t \in Threads, Loop(t) PROVE TypeOK'
  BY <1>3 DEF Loop
<1>4. ASSUME NEW t \in Threads, Mmap(t) PROVE TypeOK'
  BY <1>4, LimitType DEF Mmap
<1>5. ASSUME NEW t \in Threads, MmapFails(t) PROVE TypeOK'
  BY <1>5 DEF MmapFails
<1>6. ASSUME NEW t \in Threads, Open(t) PROVE TypeOK'
  BY <1>6 DEF Open
<1>7. ASSUME NEW t \in Threads, OpenFails(t) PROVE TypeOK'
  BY <1>7 DEF OpenFails
<1>8. ASSUME NEW t \in Threads, Read(t) PROVE TypeOK'
  <2>1. mem[t] \in Blocks BY <1>8 DEF Read, Owned, HeldApart, Holding
  <2>2. PICK n \in 1..(Limit - filled[mem[t]]) :
          filled' = [filled EXCEPT ![mem[t]] = @ + n]
    BY <1>8 DEF Read
  <2>3. filled[mem[t]] + n \in 0..Limit BY <2>1, LimitType
  <2>4. filled' \in [Blocks -> 0..Limit] BY <2>2, <2>3
  <2>5. QED BY <1>8, <2>4 DEF Read
<1>9. ASSUME NEW t \in Threads, ReadComplete(t) PROVE TypeOK'
  BY <1>9 DEF ReadComplete
<1>10. ASSUME NEW t \in Threads, ReadFails(t) PROVE TypeOK'
  BY <1>10 DEF ReadFails
<1>11. ASSUME NEW t \in Threads, MunmapMissing(t) PROVE TypeOK'
  BY <1>11 DEF MunmapMissing
<1>12. ASSUME NEW t \in Threads, Publish(t) PROVE TypeOK'
  BY <1>12 DEF Publish
<1>13. ASSUME NEW t \in Threads, MunmapTop(t) PROVE TypeOK'
  BY <1>13 DEF MunmapTop
<1>14. CASE AuxvInit BY <1>14 DEF AuxvInit, threads
<1>15. CASE AuxvFini BY <1>15 DEF AuxvFini, threads
<1>16. CASE AuxvFiniMunmap BY <1>16 DEF AuxvFiniMunmap, threads
<1>17. CASE UNCHANGED vars BY <1>17 DEF vars
<1>18. QED
  BY <1>1, <1>2, <1>3, <1>4, <1>5, <1>6, <1>7, <1>8, <1>9, <1>10, <1>11, <1>12, <1>13,
     <1>14, <1>15, <1>16, <1>17 DEF Next, Step

-----------------------------------------------------------------------------
(* Pages have one owner each.                                               *)

OwnedInv == TypeOK /\ Owned /\ ReadsMapped

\* A step of t which gives no page to anyone.
Quiet(t) ==
  /\ UNCHANGED <<base, mapped, loader, taken, mem>>
  /\ \A u \in Threads : Holding(u)' <=> Holding(u)
  /\ \A u \in Threads \ {t} : pc'[u] = pc[u] /\ ptr'[u] = ptr[u] /\ fd'[u] = fd[u]
  /\ fd'[t] => pc'[t] = "read"
  /\ loader \in {"start", "running"} =>
       pc'[t] # "fault" /\ (pc'[t] = "loop" => ptr'[t] = base /\ base # Null)

LEMMA QuietPreserves ==
  ASSUME NEW t \in Threads, Owned, ReadsMapped, Quiet(t)
  PROVE  Owned' /\ ReadsMapped'
<1> USE DEF Quiet
<1>1. BaseMapped' BY DEF Owned, BaseMapped
<1>2. HeldApart' BY DEF Owned, HeldApart
<1>3. TakenApart' BY DEF Owned, TakenApart
<1>4. NothingLost' BY DEF Owned, NothingLost
<1>5. FilesClosed' BY DEF Owned, FilesClosed
<1>6. ReadsMapped' BY DEF ReadsMapped
<1>7. QED BY <1>1, <1>2, <1>3, <1>4, <1>5, <1>6 DEF Owned

LEMMA QuietSteps ==
  ASSUME NEW t \in Threads, OwnedInv,
         \/ Call(t) \/ Top(t) \/ Loop(t) \/ MmapFails(t) \/ Open(t) \/ OpenFails(t)
         \/ Read(t) \/ ReadComplete(t) \/ ReadFails(t)
  PROVE  Quiet(t)
<1> USE DEF OwnedInv, TypeOK, Quiet, Holding, Goto, Answer, Fail, shared
<1>0. FilesClosed BY DEF Owned
<1>1. CASE Call(t) BY <1>0, <1>1 DEF Call, FilesClosed
<1>2. CASE Top(t) BY <1>0, <1>2 DEF Top, FilesClosed
<1>3. CASE Loop(t)
  <2>1. loader \in {"start", "running"} => ptr[t] \notin Blocks \ mapped
    BY <1>3 DEF Loop, ReadsMapped, Owned, BaseMapped
  <2>2. pc'[t] \in {"fault", "idle"} /\ pc[t] = "loop"
        /\ (pc'[t] = "fault" => ptr[t] \in Blocks \ mapped)
    BY <1>3 DEF Loop
  <2>3. \A u \in Threads \ {t} : pc'[u] = pc[u]
    BY <1>3 DEF Loop
  <2>4. ~ Holding(t)' /\ ~ Holding(t) BY <2>2
  <2>5. \A u \in Threads : Holding(u)' <=> Holding(u) BY <2>3, <2>4
  <2>6. UNCHANGED <<base, mapped, loader, taken, mem, fd, ptr>> BY <1>3 DEF Loop
  <2>7. ~ fd[t] BY <1>0, <2>2 DEF FilesClosed
  <2>8. QED BY <2>1, <2>2, <2>3, <2>5, <2>6, <2>7
<1>4. CASE MmapFails(t) BY <1>0, <1>4 DEF MmapFails, FilesClosed
<1>5. CASE Open(t) BY <1>0, <1>5 DEF Open, FilesClosed
<1>6. CASE OpenFails(t) BY <1>0, <1>6 DEF OpenFails, FilesClosed
<1>7. CASE Read(t) BY <1>0, <1>7 DEF Read, FilesClosed
<1>8. CASE ReadComplete(t) BY <1>0, <1>8 DEF ReadComplete, FilesClosed
<1>9. CASE ReadFails(t) BY <1>0, <1>9 DEF ReadFails, FilesClosed
<1>10. QED BY <1>1, <1>2, <1>3, <1>4, <1>5, <1>6, <1>7, <1>8, <1>9

\* A page that mmap returns is no one's.
LEMMA MmapStep ==
  ASSUME NEW t \in Threads, OwnedInv, Mmap(t)
  PROVE  Owned' /\ ReadsMapped'
<1> USE DEF OwnedInv, Goto
<1>1. PICK b \in Blocks \ mapped : mapped' = mapped \cup {b} /\ mem' = [mem EXCEPT ![t] = b]
  BY DEF Mmap
<1>2. /\ pc[t] = "mmap" /\ pc' = [pc EXCEPT ![t] = "open"]
      /\ UNCHANGED <<base, loader, taken, ptr, fd>>
  BY DEF Mmap
<1>3. /\ ~ Holding(t) /\ Holding(t)' /\ mem'[t] = b
      /\ \A u \in Threads \ {t} : (Holding(u)' <=> Holding(u)) /\ mem'[u] = mem[u]
  BY <1>1, <1>2 DEF Holding, TypeOK
<1>4. BaseMapped' /\ b # base BY <1>1, <1>2 DEF Owned, BaseMapped
<1>5. HeldApart'
  <2>1. (\A u \in Threads : Holding(u) => mem[u] \in mapped /\ mem[u] # base)'
    BY <1>1, <1>2, <1>3, <1>4 DEF Owned, HeldApart
  <2>2. (\A u, w \in Threads : Holding(u) /\ Holding(w) /\ u # w => mem[u] # mem[w])'
    BY <1>1, <1>3 DEF Owned, HeldApart
  <2>3. QED BY <2>1, <2>2 DEF HeldApart
<1>6. TakenApart' BY <1>1, <1>2, <1>3 DEF Owned, TakenApart
<1>7. NothingLost'
  <2> SUFFICES ASSUME NEW c \in mapped'
               PROVE  (\/ c = base
                       \/ loader = "munmap" /\ c = taken
                       \/ \E u \in Threads : Holding(u) /\ mem[u] = c)'
    BY DEF NothingLost
  <2>1. CASE c = b BY <2>1, <1>3
  <2>2. CASE c \in mapped BY <2>2, <1>2, <1>3 DEF Owned, NothingLost
  <2>3. QED BY <2>1, <2>2, <1>1
<1>8. FilesClosed' BY <1>2 DEF Owned, FilesClosed, TypeOK
<1>9. ReadsMapped' BY <1>2 DEF ReadsMapped, TypeOK
<1>10. QED BY <1>4, <1>5, <1>6, <1>7, <1>8, <1>9 DEF Owned

\* A thread gives up its page, and no one else has it.
LEMMA MunmapStep ==
  ASSUME NEW t \in Threads, OwnedInv, MunmapMissing(t) \/ MunmapTop(t)
  PROVE  Owned' /\ ReadsMapped'
<1> USE DEF OwnedInv, Goto, Answer
<1>1. /\ pc[t] \in {"munmap_missing", "munmap_top"} /\ mapped' = mapped \ {mem[t]}
      /\ mem' = [mem EXCEPT ![t] = Null]
      /\ pc' = [pc EXCEPT ![t] = "idle"] \/ pc' = [pc EXCEPT ![t] = "top"]
      /\ UNCHANGED <<base, loader, taken, ptr, fd>>
  BY DEF MunmapMissing, MunmapTop
<1>2. Holding(t) /\ mem[t] \in mapped /\ mem[t] # base BY <1>1 DEF Holding, Owned, HeldApart
<1>3. /\ ~ Holding(t)'
      /\ \A u \in Threads \ {t} : (Holding(u)' <=> Holding(u)) /\ mem'[u] = mem[u]
  BY <1>1 DEF Holding, TypeOK
<1>4. \A u \in Threads \ {t} : Holding(u) => mem[u] # mem[t]
  BY <1>2 DEF Owned, HeldApart
<1>5. BaseMapped' BY <1>1, <1>2 DEF Owned, BaseMapped
<1>6. HeldApart'
  <2>1. (\A u \in Threads : Holding(u) => mem[u] \in mapped /\ mem[u] # base)'
    BY <1>1, <1>3, <1>4 DEF Owned, HeldApart
  <2>2. (\A u, w \in Threads : Holding(u) /\ Holding(w) /\ u # w => mem[u] # mem[w])'
    BY <1>3 DEF Owned, HeldApart
  <2>3. QED BY <2>1, <2>2 DEF HeldApart
<1>7. TakenApart' BY <1>1, <1>2, <1>3 DEF Owned, TakenApart
<1>8. NothingLost' BY <1>1, <1>3 DEF Owned, NothingLost
<1>9. FilesClosed' BY <1>1 DEF Owned, FilesClosed, TypeOK
<1>10. ReadsMapped' BY <1>1 DEF ReadsMapped, TypeOK
<1>11. QED BY <1>5, <1>6, <1>7, <1>8, <1>9, <1>10 DEF Owned

\* The page which a thread publishes becomes that of all, or stays its own.
LEMMA PublishStep ==
  ASSUME NEW t \in Threads, OwnedInv, Publish(t)
  PROVE  Owned' /\ ReadsMapped'
<1> USE DEF OwnedInv, Goto
<1>1. pc[t] = "publish" /\ UNCHANGED <<mapped, loader, taken, ptr, fd>> BY DEF Publish
<1>2. Holding(t) /\ mem[t] \in mapped /\ mem[t] # base /\ mem[t] \in Blocks
  BY <1>1 DEF Holding, Owned, HeldApart, TypeOK
<1>3. ~ fd[t] BY <1>1 DEF Owned, FilesClosed
<1>4. CASE base = Null
  <2>1. /\ base' = mem[t] /\ mem' = [mem EXCEPT ![t] = Null]
        /\ pc' = [pc EXCEPT ![t] = "top"]
    BY <1>4 DEF Publish
  <2>2. /\ ~ Holding(t)'
        /\ \A u \in Threads \ {t} : (Holding(u)' <=> Holding(u)) /\ mem'[u] = mem[u]
    BY <2>1 DEF Holding, TypeOK
  <2>3. \A u \in Threads \ {t} : Holding(u) => mem[u] # mem[t]
    BY <1>2 DEF Owned, HeldApart
  <2>4. BaseMapped' BY <1>1, <1>2, <2>1 DEF BaseMapped
  <2>5. HeldApart'
    <3>1. (\A u \in Threads : Holding(u) => mem[u] \in mapped /\ mem[u] # base)'
      BY <1>1, <2>1, <2>2, <2>3 DEF Owned, HeldApart
    <3>2. (\A u, w \in Threads : Holding(u) /\ Holding(w) /\ u # w => mem[u] # mem[w])'
      BY <2>2 DEF Owned, HeldApart
    <3>3. QED BY <3>1, <3>2 DEF HeldApart
  <2>6. TakenApart' BY <1>1, <1>2, <2>1, <2>2 DEF Owned, TakenApart
  <2>7. base \notin mapped BY <1>4, AuxvAssumption DEF TypeOK
  <2>8. NothingLost' BY <1>1, <2>1, <2>2, <2>7 DEF Owned, NothingLost
  <2>9. FilesClosed' BY <1>1, <1>3, <2>1 DEF Owned, FilesClosed, TypeOK
  <2>10. ReadsMapped' BY <1>1, <1>4, <2>1 DEF ReadsMapped, TypeOK
  <2>11. QED BY <2>4, <2>5, <2>6, <2>8, <2>9, <2>10 DEF Owned
<1>5. CASE base # Null
  <2>1. pc' = [pc EXCEPT ![t] = "munmap_top"] /\ UNCHANGED <<base, mem>>
    BY <1>5 DEF Publish
  <2>2. Quiet(t) BY <1>1, <1>2, <1>3, <2>1 DEF Quiet, Holding, TypeOK
  <2>3. QED BY <2>2, QuietPreserves
<1>6. QED BY <1>4, <1>5

\* The library is loaded and unloaded.
LEMMA LoaderStep ==
  ASSUME OwnedInv, AuxvInit \/ AuxvFini \/ AuxvFiniMunmap
  PROVE  Owned' /\ ReadsMapped'
<1> USE AuxvAssumption DEF OwnedInv, threads
<1>1. UNCHANGED <<pc, mem, ptr, fd>> BY DEF AuxvInit, AuxvFini, AuxvFiniMunmap
<1>2. \A u \in Threads : Holding(u)' <=> Holding(u) BY <1>1 DEF Holding
<1>3. FilesClosed' BY <1>1 DEF Owned, FilesClosed
<1>4. CASE AuxvInit
  <2>1. /\ loader = "start" /\ loader' = "running" /\ UNCHANGED <<mapped, taken>>
        /\ base' = base \/ (base = Null /\ base' = Vector)
    BY <1>4 DEF AuxvInit
  <2>2. BaseMapped' BY <2>1 DEF Owned, BaseMapped
  <2>3. \A u \in Threads : Holding(u) => mem[u] \in Blocks
    BY DEF Owned, HeldApart, TypeOK
  <2>4. HeldApart' BY <1>1, <1>2, <2>1, <2>3 DEF Owned, HeldApart
  <2>5. TakenApart' BY <2>1 DEF TakenApart
  <2>6. Null \notin mapped BY DEF TypeOK
  <2>7. NothingLost' BY <1>1, <1>2, <2>1, <2>6 DEF Owned, NothingLost
  <2>8. ReadsMapped' BY <1>1, <2>1 DEF ReadsMapped
  <2>9. QED BY <1>3, <2>2, <2>4, <2>5, <2>7, <2>8 DEF Owned
<1>5. CASE AuxvFini
  <2>1. /\ loader \in {"start", "running"} /\ base' = Null /\ UNCHANGED mapped
        /\ base \in Blocks => loader' = "munmap" /\ taken' = base
        /\ base \notin Blocks => loader' = "done" /\ taken' = taken
    BY <1>5 DEF AuxvFini
  <2>2. BaseMapped' BY <2>1 DEF BaseMapped
  <2>3. HeldApart'
    <3>1. \A u \in Threads : Holding(u) => mem[u] \in Blocks
      BY DEF Owned, HeldApart, TypeOK
    <3>2. QED BY <1>1, <1>2, <2>1, <3>1 DEF Owned, HeldApart
  <2>4. TakenApart'
    <3>1. CASE base \in Blocks
      BY <1>1, <1>2, <2>1, <3>1 DEF Owned, BaseMapped, HeldApart, TakenApart
    <3>2. CASE base \notin Blocks BY <2>1, <3>2 DEF TakenApart
    <3>3. QED BY <3>1, <3>2
  <2>5. NothingLost'
    <3>1. base \notin Blocks => base \notin mapped BY DEF TypeOK
    <3>2. loader # "munmap" BY <2>1
    <3>3. QED BY <1>1, <1>2, <2>1, <3>1, <3>2 DEF Owned, NothingLost
  <2>6. ReadsMapped' BY <2>1 DEF ReadsMapped
  <2>7. QED BY <1>3, <2>2, <2>3, <2>4, <2>5, <2>6 DEF Owned
<1>6. CASE AuxvFiniMunmap
  <2>1. /\ loader = "munmap" /\ loader' = "done" /\ mapped' = mapped \ {taken}
        /\ UNCHANGED base
    BY <1>6 DEF AuxvFiniMunmap
  <2>2. taken # base /\ \A u \in Threads : Holding(u) => mem[u] # taken
    BY <2>1 DEF Owned, TakenApart
  <2>3. BaseMapped' BY <2>1, <2>2 DEF Owned, BaseMapped
  <2>4. HeldApart' BY <1>1, <1>2, <2>1, <2>2 DEF Owned, HeldApart
  <2>5. TakenApart' BY <2>1 DEF TakenApart
  <2>6. NothingLost' BY <1>1, <1>2, <2>1 DEF Owned, NothingLost
  <2>7. ReadsMapped' BY <2>1 DEF ReadsMapped
  <2>8. QED BY <1>3, <2>3, <2>4, <2>5, <2>6, <2>7 DEF Owned
<1>7. QED BY <1>4, <1>5, <1>6

LEMMA OwnedInit == Init => OwnedInv
<1> SUFFICES ASSUME Init PROVE OwnedInv
  OBVIOUS
<1>1. TypeOK BY InitType
<1>2. Owned
  BY AuxvAssumption
  DEF Init, Owned, BaseMapped, HeldApart, TakenApart, NothingLost, FilesClosed, Holding
<1>3. ReadsMapped BY DEF Init, ReadsMapped
<1>4. QED BY <1>1, <1>2, <1>3 DEF OwnedInv

LEMMA OwnedStep == OwnedInv /\ [Next]_vars => OwnedInv'
<1> SUFFICES ASSUME OwnedInv, [Next]_vars PROVE OwnedInv'
  OBVIOUS
<1>1. TypeOK' BY TypeStep DEF OwnedInv
<1>2. ASSUME NEW t \in Threads, Call(t) \/ Step(t)
      PROVE  Owned' /\ ReadsMapped'
  <2>1. CASE \/ Call(t) \/ Top(t) \/ Loop(t) \/ MmapFails(t) \/ Open(t) \/ OpenFails(t)
             \/ Read(t) \/ ReadComplete(t) \/ ReadFails(t)
    <3>1. Quiet(t) BY <2>1, QuietSteps
    <3>2. QED BY <3>1, QuietPreserves DEF OwnedInv
  <2>2. CASE Mmap(t) BY <2>2, MmapStep
  <2>3. CASE MunmapMissing(t) \/ MunmapTop(t) BY <2>3, MunmapStep
  <2>4. CASE Publish(t) BY <2>4, PublishStep
  <2>5. QED BY <1>2, <2>1, <2>2, <2>3, <2>4 DEF Step
<1>3. CASE AuxvInit \/ AuxvFini \/ AuxvFiniMunmap BY <1>1, <1>3, LoaderStep DEF OwnedInv
<1>4. CASE UNCHANGED vars
  <2> USE <1>4 DEF OwnedInv, vars
  <2>1. \A u \in Threads : Holding(u)' <=> Holding(u) BY DEF Holding
  <2>2. BaseMapped' /\ HeldApart' /\ TakenApart'
    BY <2>1 DEF Owned, BaseMapped, HeldApart, TakenApart
  <2>3. NothingLost' /\ FilesClosed' BY <2>1 DEF Owned, NothingLost, FilesClosed
  <2>4. ReadsMapped' BY DEF ReadsMapped
  <2>5. QED BY <1>1, <2>2, <2>3, <2>4 DEF Owned
<1>5. QED BY <1>1, <1>2, <1>3, <1>4 DEF Next, OwnedInv

LEMMA OwnedAlways == Spec => []OwnedInv
<1>1. QED BY OwnedInit, OwnedStep, PTL DEF Spec

\* The state is well-typed; no more than there is, and than there is room for, is
\* read into a page.
THEOREM TypeCorrect == Spec => []TypeOK
<1>1. OwnedInv => TypeOK BY DEF OwnedInv
<1>2. QED BY <1>1, OwnedAlways, PTL

\* For any number of threads, whichever system calls fail: each page which
\* is mapped has exactly one owner, who will unmap it.
THEOREM OwnedCorrect == Spec => []Owned
<1>1. OwnedInv => Owned BY DEF OwnedInv
<1>2. QED BY <1>1, OwnedAlways, PTL

\* No thread reads a page which is not mapped, until getauxval_fini is called.
THEOREM ReadsMappedCorrect == Spec => []ReadsMapped
<1>1. OwnedInv => ReadsMapped BY DEF OwnedInv
<1>2. QED BY <1>1, OwnedAlways, PTL

-----------------------------------------------------------------------------
(* Answers are right.                                                       *)

\* A page which is, or is about to be, that of all threads has all that can be
\* read; and a thread which gives up has had a system call fail.
SharedWhole == base \in Blocks => filled[base] = Limit
ReadWhole == \A t \in Threads : pc[t] \in {"publish", "munmap_top"} => filled[mem[t]] = Limit
GivenUp == \A t \in Threads : pc[t] = "munmap_missing" => failed[t]

Whole == SharedWhole /\ ReadWhole /\ GivenUp

AnswerInv == OwnedInv /\ Whole /\ AnswerRight

LEMMA MoreKeys ==
  ASSUME NEW m \in Nat, NEW n \in Nat, m <= n
  PROVE  KeysUpTo(m) \subseteq KeysUpTo(n)
BY DEF KeysUpTo

\* Reading fills a page which no one else uses yet.
LEMMA WholeFilled ==
  ASSUME NEW t \in Threads, OwnedInv, Whole, Mmap(t) \/ Read(t)
  PROVE  Whole'
<1> USE DEF OwnedInv, TypeOK, Goto
<1>1. PICK b \in Blocks :
        /\ b # base
        /\ \A u \in Threads \ {t} : Holding(u) => mem[u] # b
        /\ \A c \in Blocks \ {b} : filled'[c] = filled[c]
        /\ \A u \in Threads \ {t} : mem'[u] = mem[u]
  <2>1. CASE Mmap(t)
    <3>1. PICK b \in Blocks \ mapped : /\ filled' = [filled EXCEPT ![b] = 0]
                                       /\ mem' = [mem EXCEPT ![t] = b]
      BY <2>1 DEF Mmap
    <3>2. b # base /\ \A u \in Threads : Holding(u) => mem[u] # b
      BY DEF Owned, BaseMapped, HeldApart
    <3>3. QED BY <3>1, <3>2
  <2>2. CASE Read(t)
    <3>1. Holding(t) BY <2>2 DEF Read, Holding
    <3>2. /\ mem[t] \in Blocks /\ mem[t] # base
          /\ \A u \in Threads \ {t} : Holding(u) => mem[u] # mem[t]
      BY <3>1 DEF Owned, HeldApart
    <3>3. mem' = mem /\ \A c \in Blocks \ {mem[t]} : filled'[c] = filled[c]
      BY <2>2, <3>2 DEF Read
    <3>4. QED BY <3>2, <3>3
  <2>3. QED BY <2>1, <2>2
<1>2. base' = base /\ failed' = failed BY DEF Mmap, Read
<1>3. /\ pc'[t] \in {"open", "read"}
      /\ \A u \in Threads \ {t} : pc'[u] = pc[u]
  BY DEF Mmap, Read
<1>4. SharedWhole' BY <1>1, <1>2 DEF Whole, SharedWhole
<1>5. ReadWhole'
  <2> SUFFICES ASSUME NEW u \in Threads, pc'[u] \in {"publish", "munmap_top"}
               PROVE  filled'[mem'[u]] = Limit
    BY DEF ReadWhole
  <2>1. u # t /\ pc[u] = pc'[u] BY <1>3
  <2>2. Holding(u) BY <2>1 DEF Holding
  <2>3. mem[u] \in Blocks \ {b} /\ mem'[u] = mem[u]
    BY <1>1, <2>1, <2>2 DEF Owned, HeldApart
  <2>4. QED BY <1>1, <2>1, <2>3 DEF Whole, ReadWhole
<1>6. GivenUp' BY <1>2, <1>3 DEF Whole, GivenUp
<1>7. QED BY <1>4, <1>5, <1>6 DEF Whole

LEMMA WholeStep ==
  ASSUME OwnedInv, Whole, [Next]_vars
  PROVE  Whole'
<1> USE DEF OwnedInv, TypeOK, Goto, Answer, Fail, shared, threads, Whole, SharedWhole, ReadWhole,
            GivenUp
<1>1. ASSUME NEW t \in Threads, Call(t) PROVE Whole' BY <1>1 DEF Call
<1>2. ASSUME NEW t \in Threads, Top(t) PROVE Whole' BY <1>2 DEF Top
<1>3. ASSUME NEW t \in Threads, Loop(t) PROVE Whole' BY <1>3 DEF Loop
<1>4. ASSUME NEW t \in Threads, Mmap(t) \/ Read(t) PROVE Whole' BY <1>4, WholeFilled
<1>5. ASSUME NEW t \in Threads, MmapFails(t) PROVE Whole' BY <1>5 DEF MmapFails
<1>6. ASSUME NEW t \in Threads, Open(t) PROVE Whole' BY <1>6 DEF Open
<1>7. ASSUME NEW t \in Threads, OpenFails(t) PROVE Whole' BY <1>7 DEF OpenFails
<1>8. ASSUME NEW t \in Threads, ReadComplete(t) PROVE Whole' BY <1>8 DEF ReadComplete
<1>9. ASSUME NEW t \in Threads, ReadFails(t) PROVE Whole' BY <1>9 DEF ReadFails
<1>10. ASSUME NEW t \in Threads, MunmapMissing(t) PROVE Whole' BY <1>10 DEF MunmapMissing
<1>11. ASSUME NEW t \in Threads, Publish(t) PROVE Whole' BY <1>11 DEF Publish
<1>12. ASSUME NEW t \in Threads, MunmapTop(t) PROVE Whole' BY <1>12 DEF MunmapTop
<1>13. CASE AuxvInit BY <1>13, AuxvAssumption DEF AuxvInit
<1>14. CASE AuxvFini BY <1>14, AuxvAssumption DEF AuxvFini
<1>15. CASE AuxvFiniMunmap BY <1>15 DEF AuxvFiniMunmap
<1>16. CASE UNCHANGED vars BY <1>16 DEF vars
<1>17. QED
  BY <1>1, <1>2, <1>3, <1>4, <1>5, <1>6, <1>7, <1>8, <1>9, <1>10, <1>11, <1>12, <1>13,
     <1>14, <1>15, <1>16 DEF Next, Step

\* Until the library is unloaded a thread looks into the whole vector, or into
\* all that there is room for.
LEMMA LoopRight ==
  ASSUME NEW t \in Threads, AnswerInv, Loop(t)
  PROVE  AnswerRight'
<1> USE DEF AnswerInv, OwnedInv, TypeOK, Goto, Answer, shared
<1>1. UNCHANGED <<loader, failed, want>> BY DEF Loop
<1>2. \A u \in Threads \ {t} : answer'[u] = answer[u] BY DEF Loop
<1> SUFFICES ASSUME loader \in {"start", "running"}
             PROVE  /\ answer'[t] = "found" => want[t] \in KeysUpTo(Len(Auxv))
                    /\ answer'[t] = "missing" => want[t] \notin KeysUpTo(Limit)
  BY <1>1, <1>2 DEF AnswerRight
<1>3. ptr[t] = base /\ base # Null /\ ptr[t] \notin Blocks \ mapped
  BY DEF Loop, ReadsMapped, Owned, BaseMapped
<1> DEFINE n == IF ptr[t] = Vector THEN Len(Auxv) ELSE filled[ptr[t]]
<1>4. answer'[t] = IF want[t] \in KeysUpTo(n) THEN "found" ELSE "missing"
  BY <1>3 DEF Loop
<1>5. n = Len(Auxv) \/ n = Limit BY <1>3 DEF Whole, SharedWhole
<1>6. KeysUpTo(Limit) \subseteq KeysUpTo(n) /\ KeysUpTo(n) \subseteq KeysUpTo(Len(Auxv))
  <2>1. Limit <= Len(Auxv) BY LimitType
  <2> HIDE DEF n
  <2>2. KeysUpTo(Limit) \subseteq KeysUpTo(Len(Auxv)) BY <2>1, LimitType, MoreKeys
  <2>3. QED BY <1>5, <2>2
<1> HIDE DEF n
<1>7. QED BY <1>4, <1>6

LEMMA AnswerStep ==
  ASSUME AnswerInv, [Next]_vars
  PROVE  AnswerRight'
<1> USE DEF AnswerInv, OwnedInv, TypeOK, Goto, Answer, Fail, shared, threads, AnswerRight
<1>1. ASSUME NEW t \in Threads, Call(t) PROVE AnswerRight' BY <1>1 DEF Call
<1>2. ASSUME NEW t \in Threads, Top(t) PROVE AnswerRight' BY <1>2 DEF Top
<1>3. ASSUME NEW t \in Threads, Loop(t) PROVE AnswerRight' BY <1>3, LoopRight
<1>4. ASSUME NEW t \in Threads, Mmap(t) PROVE AnswerRight' BY <1>4 DEF Mmap
<1>5. ASSUME NEW t \in Threads, MmapFails(t) PROVE AnswerRight' BY <1>5 DEF MmapFails
<1>6. ASSUME NEW t \in Threads, Open(t) PROVE AnswerRight' BY <1>6 DEF Open
<1>7. ASSUME NEW t \in Threads, OpenFails(t) PROVE AnswerRight' BY <1>7 DEF OpenFails
<1>8. ASSUME NEW t \in Threads, Read(t) PROVE AnswerRight' BY <1>8 DEF Read
<1>9. ASSUME NEW t \in Threads, ReadComplete(t) PROVE AnswerRight' BY <1>9 DEF ReadComplete
<1>10. ASSUME NEW t \in Threads, ReadFails(t) PROVE AnswerRight' BY <1>10 DEF ReadFails
<1>11. ASSUME NEW t \in Threads, MunmapMissing(t) PROVE AnswerRight'
  <2>1. failed[t] BY <1>11 DEF MunmapMissing, Whole, GivenUp
  <2>2. QED BY <1>11, <2>1 DEF MunmapMissing
<1>12. ASSUME NEW t \in Threads, Publish(t) PROVE AnswerRight' BY <1>12 DEF Publish
<1>13. ASSUME NEW t \in Threads, MunmapTop(t) PROVE AnswerRight' BY <1>13 DEF MunmapTop
<1>14. CASE AuxvInit BY <1>14 DEF AuxvInit
<1>15. CASE AuxvFini BY <1>15 DEF AuxvFini
<1>16. CASE AuxvFiniMunmap BY <1>16 DEF AuxvFiniMunmap
<1>17. CASE UNCHANGED vars BY <1>17 DEF vars
<1>18. QED
  BY <1>1, <1>2, <1>3, <1>4, <1>5, <1>6, <1>7, <1>8, <1>9, <1>10, <1>11, <1>12, <1>13,
     <1>14, <1>15, <1>16, <1>17 DEF Next, Step

\* Before the library is unloaded, however many threads race for the page and
\* however little each read returns: what is in the vector is found, if no system
\* call has failed and the page has room for it, and nothing else is.
THEOREM AnswerRightCorrect == Spec => []AnswerRight
<1>1. Init => AnswerInv
  <2> SUFFICES ASSUME Init PROVE AnswerInv
    OBVIOUS
  <2>1. Whole BY AuxvAssumption DEF Init, Whole, SharedWhole, ReadWhole, GivenUp
  <2>2. AnswerRight BY DEF Init, AnswerRight
  <2>3. QED BY <2>1, <2>2, OwnedInit DEF AnswerInv
<1>2. AnswerInv /\ [Next]_vars => AnswerInv'
  BY OwnedStep, WholeStep, AnswerStep DEF AnswerInv
<1>3. AnswerInv => AnswerRight BY DEF AnswerInv
<1>4. QED BY <1>1, <1>2, <1>3, PTL DEF Spec
=============================================================================
