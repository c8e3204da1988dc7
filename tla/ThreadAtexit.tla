---------------------------- MODULE ThreadAtexit ----------------------------
(***************************************************************************)
(* The polyfill of __cxa_thread_atexit_impl (atexit.s of x86_64 and of     *)
(* aarch64): destructors of thread_local variables, for a libc which does  *)
(* not have the function.                                                  *)
(*                                                                         *)
(* The first registration of the process makes a pthread key and publishes *)
(* it with a compare-and-exchange; the threads which are late delete their *)
(* own.  The value of the key is a list of nodes with room for NodeSize    *)
(* functions each, the newest first.  A thread which ends runs the list as *)
(* the destructor of the key; one which calls exit runs it in a handler    *)
(* that was registered with __cxa_atexit.  A function can register others. *)
(*                                                                         *)
(* The threads, pthread keys and exit handlers are those of glibc, as the  *)
(* code uses them.                                                         *)
(***************************************************************************)
EXTENDS Naturals, Sequences

CONSTANTS
  Threads,
  Keys,        \* the pthread keys of the process
  NoKey,
  NoThread,
  NodeSize,    \* functions in a node (7 in the code)
  Iterations,  \* PTHREAD_DESTRUCTOR_ITERATIONS
  MaxRegs      \* bound: the registrations of a thread

ASSUME AtexitAssumption ==
  /\ NoKey \notin Keys /\ NoThread \notin Threads
  /\ NodeSize \in Nat \ {0} /\ Iterations \in Nat \ {0} /\ MaxRegs \in Nat

VARIABLES
  key,         \* __cxa_thread_atexit_impl_2_18_pthread_key
  live,        \* the keys which have been created, and not deleted
  handlers,    \* calls of atexit_dtor which exit has to make
  exiting,     \* the thread which has called exit
  ended,       \* FALSE, or how the process has ended
  pc,          \* what each thread does
  mine,        \* the key a thread has created
  value,       \* pthread_getspecific of key
  detached,    \* the nodes which pthread_key_dtor has yet to clean up
  rounds,      \* the calls of the key's destructor
  back,        \* what a thread does after the registration
  registered,  \* the registrations of a thread: 1..registered[t] (history)
  during,      \* the round of destructors in which each was made (history)
  ran          \* the registrations which have been run, in order (history)

vars == <<key, live, handlers, exiting, ended, pc, mine, value, detached, rounds, back,
          registered, during, ran>>

Steps == {"idle", "create", "publish", "delete", "handler", "node", "exiting", "exit",
          "cleanup", "call", "gone"}

Init ==
  /\ key = NoKey /\ live = {} /\ handlers = 0
  /\ exiting = NoThread /\ ended = "no"
  /\ pc = [t \in Threads |-> "idle"]
  /\ mine = [t \in Threads |-> NoKey]
  /\ value = [t \in Threads |-> << >>]
  /\ detached = [t \in Threads |-> << >>]
  /\ rounds = [t \in Threads |-> 0]
  /\ back = [t \in Threads |-> "idle"]
  /\ registered = [t \in Threads |-> 0]
  /\ during = [t \in Threads |-> << >>]
  /\ ran = [t \in Threads |-> << >>]

Goto(t, step) == pc' = [pc EXCEPT ![t] = step]

-----------------------------------------------------------------------------
(* our_impl                                                                 *)

\* The round that thread t is in, 0 before it ends.  What exit runs counts as the last
\* one: nothing comes after it.
Pass(t) == IF exiting = t THEN Iterations ELSE rounds[t]

\* got_node: the function is the newest of the first node.
Add(t, nodes) ==
  /\ value' = [value EXCEPT ![t] = <<Append(nodes[1], registered[t] + 1)>> \o Tail(nodes)]
  /\ registered' = [registered EXCEPT ![t] = @ + 1]
  /\ during' = [during EXCEPT ![t] = Append(@, Pass(t))]

\* The program registers a function, in the midst of a destructor or not.  What
\* follows the load of the key concerns the thread only.
Register(t) ==
  /\ pc[t] \in {"idle", "call"} /\ registered[t] < MaxRegs
  /\ IF key # NoKey /\ value[t] # << >> /\ Len(value[t][1]) < NodeSize
     THEN Add(t, value[t]) /\ UNCHANGED <<pc, back>>
     ELSE /\ Goto(t, IF key = NoKey THEN "create" ELSE "node")
          /\ back' = [back EXCEPT ![t] = pc[t]]
          /\ UNCHANGED <<value, registered, during>>
  /\ UNCHANGED <<key, live, handlers, exiting, ended, mine, detached, rounds, ran>>

\* need_key: pthread_key_create
CreateKey(t) ==
  /\ pc[t] = "create"
  /\ \E k \in Keys \ live : live' = live \cup {k} /\ mine' = [mine EXCEPT ![t] = k]
  /\ Goto(t, "publish")
  /\ UNCHANGED <<key, handlers, exiting, ended, value, detached, rounds, back,
                 registered, during, ran>>

\* Variant: the thread which is late registers a handler as well.
Publish_BothRegister(t) ==
  /\ pc[t] = "publish" /\ Goto(t, "handler")
  /\ key' = IF key = NoKey THEN mine[t] ELSE key
  /\ UNCHANGED <<live, handlers, exiting, ended, mine, value, detached, rounds, back,
                 registered, during, ran>>

\* lock cmpxchg
Publish(t) ==
  /\ pc[t] = "publish"
  /\ IF key = NoKey THEN key' = mine[t] /\ Goto(t, "handler")
                    ELSE Goto(t, "delete") /\ UNCHANGED key
  /\ UNCHANGED <<live, handlers, exiting, ended, mine, value, detached, rounds, back,
                 registered, during, ran>>

\* Variant: the key that is deleted is the one in the variable.
DeleteKey_Published(t) ==
  /\ pc[t] = "delete"
  /\ live' = live \ {key} /\ mine' = [mine EXCEPT ![t] = NoKey]
  /\ Goto(t, "node")
  /\ UNCHANGED <<key, handlers, exiting, ended, value, detached, rounds, back,
                 registered, during, ran>>

\* pthread_key_delete
DeleteKey(t) ==
  /\ pc[t] = "delete"
  /\ live' = live \ {mine[t]} /\ mine' = [mine EXCEPT ![t] = NoKey]
  /\ Goto(t, "node")
  /\ UNCHANGED <<key, handlers, exiting, ended, value, detached, rounds, back,
                 registered, during, ran>>

\* cmpxchg_was_ok: __cxa_atexit
RegisterHandler(t) ==
  /\ pc[t] = "handler"
  /\ handlers' = handlers + 1 /\ mine' = [mine EXCEPT ![t] = NoKey]
  /\ Goto(t, "node")
  /\ UNCHANGED <<key, live, exiting, ended, value, detached, rounds, back,
                 registered, during, ran>>

\* need_new_node: malloc and pthread_setspecific
NewNode(t) ==
  /\ pc[t] = "node"
  /\ Add(t, <<<< >>>> \o value[t])
  /\ Goto(t, back[t])
  /\ UNCHANGED <<key, live, handlers, exiting, ended, mine, detached, rounds, back, ran>>

\* err: there is no key, or no memory.
Fatal(t) ==
  /\ pc[t] \in {"create", "node"}
  /\ ended' = "fatal"
  /\ UNCHANGED <<key, live, handlers, exiting, pc, mine, value, detached, rounds, back,
                 registered, during, ran>>

-----------------------------------------------------------------------------
(* The ends of threads and of the process.                                  *)

ThreadExit(t) ==
  /\ pc[t] = "idle" /\ Goto(t, "exiting")
  /\ UNCHANGED <<key, live, handlers, exiting, ended, mine, value, detached, rounds, back,
                 registered, during, ran>>

\* One round of the destructors of a thread's keys, of those whose value is not
\* NULL; there are only so many.
KeyRound(t) ==
  /\ pc[t] = "exiting"
  /\ IF value[t] # << >> /\ rounds[t] < Iterations
     THEN /\ detached' = [detached EXCEPT ![t] = value[t]]
          /\ value' = [value EXCEPT ![t] = << >>]
          /\ rounds' = [rounds EXCEPT ![t] = @ + 1]
          /\ Goto(t, "cleanup")
     ELSE Goto(t, "gone") /\ UNCHANGED <<value, detached, rounds>>
  /\ UNCHANGED <<key, live, handlers, exiting, ended, mine, back, registered, during, ran>>

Exit(t) ==
  /\ pc[t] = "idle" /\ exiting = NoThread
  /\ exiting' = t /\ Goto(t, "exit")
  /\ UNCHANGED <<key, live, handlers, ended, mine, value, detached, rounds, back,
                 registered, during, ran>>

\* Variant: the list stays the value of the key while it is run.
ExitHandler_StillSet(t) ==
  /\ pc[t] = "exit"
  /\ IF handlers = 0
     THEN ended' = "exit" /\ UNCHANGED <<handlers, pc, detached>>
     ELSE /\ handlers' = handlers - 1
          /\ IF value[t] = << >> THEN UNCHANGED <<pc, detached>>
             ELSE detached' = [detached EXCEPT ![t] = value[t]] /\ Goto(t, "cleanup")
          /\ UNCHANGED ended
  /\ UNCHANGED <<key, live, exiting, mine, value, rounds, back, registered, during, ran>>

\* Variant: exit does not forget the handlers it calls.
ExitHandler_Again(t) ==
  /\ pc[t] = "exit"
  /\ IF handlers = 0
     THEN ended' = "exit" /\ UNCHANGED <<pc, value, detached>>
     ELSE /\ IF value[t] = << >> THEN UNCHANGED <<pc, value, detached>>
             ELSE /\ detached' = [detached EXCEPT ![t] = value[t]]
                  /\ value' = [value EXCEPT ![t] = << >>]
                  /\ Goto(t, "cleanup")
          /\ UNCHANGED ended
  /\ UNCHANGED <<key, live, handlers, exiting, mine, rounds, back, registered, during, ran>>

\* atexit_dtor, and pthread_key_dtor, which detaches the list.
ExitHandler(t) ==
  /\ pc[t] = "exit"
  /\ IF handlers = 0
     THEN ended' = "exit" /\ UNCHANGED <<handlers, pc, value, detached>>
     ELSE /\ handlers' = handlers - 1
          /\ IF value[t] = << >> THEN UNCHANGED <<pc, value, detached>>
             ELSE /\ detached' = [detached EXCEPT ![t] = value[t]]
                  /\ value' = [value EXCEPT ![t] = << >>]
                  /\ Goto(t, "cleanup")
          /\ UNCHANGED ended
  /\ UNCHANGED <<key, live, exiting, mine, rounds, back, registered, during, ran>>

\* Variant: the functions of a node are called from its start.
Call_Oldest(t) ==
  /\ pc[t] = "cleanup" /\ detached[t] # << >> /\ detached[t][1] # << >>
  /\ LET node == detached[t][1] IN
     /\ ran' = [ran EXCEPT ![t] = Append(@, node[1])]
     /\ detached' = [detached EXCEPT ![t][1] = Tail(node)]
  /\ Goto(t, "call")
  /\ UNCHANGED <<key, live, handlers, exiting, ended, mine, value, rounds, back,
                 registered, during>>

\* cleanup_node, next_fn: the newest function is called.
Call(t) ==
  /\ pc[t] = "cleanup" /\ detached[t] # << >> /\ detached[t][1] # << >>
  /\ LET node == detached[t][1] IN
     /\ ran' = [ran EXCEPT ![t] = Append(@, node[Len(node)])]
     /\ detached' = [detached EXCEPT ![t][1] = SubSeq(node, 1, Len(node) - 1)]
  /\ Goto(t, "call")
  /\ UNCHANGED <<key, live, handlers, exiting, ended, mine, value, rounds, back,
                 registered, during>>

Return(t) ==
  /\ pc[t] = "call" /\ Goto(t, "cleanup")
  /\ UNCHANGED <<key, live, handlers, exiting, ended, mine, value, detached, rounds, back,
                 registered, during, ran>>

\* Variant: pthread_key_dtor takes the list from the key when it has been run, and
\* not before.
FreeNode_LateReset(t) ==
  /\ pc[t] = "cleanup" /\ detached[t] # << >> /\ detached[t][1] = << >>
  /\ detached' = [detached EXCEPT ![t] = Tail(@)]
  /\ IF Len(detached[t]) = 1
     THEN /\ Goto(t, IF exiting = t THEN "exit" ELSE "exiting")
          /\ value' = [value EXCEPT ![t] = << >>]
     ELSE UNCHANGED <<pc, value>>
  /\ UNCHANGED <<key, live, handlers, exiting, ended, mine, rounds, back,
                 registered, during, ran>>

\* next_node: an empty node is freed.
FreeNode(t) ==
  /\ pc[t] = "cleanup" /\ detached[t] # << >> /\ detached[t][1] = << >>
  /\ detached' = [detached EXCEPT ![t] = Tail(@)]
  /\ IF Len(detached[t]) = 1
     THEN Goto(t, IF exiting = t THEN "exit" ELSE "exiting")
     ELSE UNCHANGED pc
  /\ UNCHANGED <<key, live, handlers, exiting, ended, mine, value, rounds, back,
                 registered, during, ran>>

\* What a thread has to do by itself.
Step(t) ==
  /\ ended = "no"
  /\ \/ CreateKey(t) \/ Publish(t) \/ DeleteKey(t) \/ RegisterHandler(t) \/ NewNode(t)
     \/ KeyRound(t) \/ ExitHandler(t) \/ Call(t) \/ Return(t) \/ FreeNode(t)

\* What the program decides, and what can fail.
Program(t) ==
  ended = "no" /\ (Register(t) \/ ThreadExit(t) \/ Exit(t) \/ Fatal(t))

Next == \E t \in Threads : Step(t) \/ Program(t)

Spec == Init /\ [][Next]_vars /\ \A t \in Threads : WF_vars(Step(t))

-----------------------------------------------------------------------------
(* Properties.                                                              *)

TypeOK ==
  /\ key \in Keys \cup {NoKey} /\ live \subseteq Keys /\ handlers \in Nat
  /\ exiting \in Threads \cup {NoThread} /\ ended \in {"no", "exit", "fatal"}
  /\ pc \in [Threads -> Steps] /\ mine \in [Threads -> Keys \cup {NoKey}]
  /\ value \in [Threads -> Seq(Seq(Nat))] /\ detached \in [Threads -> Seq(Seq(Nat))]
  /\ rounds \in [Threads -> 0..Iterations] /\ back \in [Threads -> {"idle", "call"}]
  /\ registered \in [Threads -> 0..MaxRegs] /\ ran \in [Threads -> Seq(Nat)]
  /\ during \in [Threads -> Seq(0..Iterations)]

\* A thread which has created a key that is not, or not yet, that of the process.
Creating(t) == pc[t] \in {"publish", "delete"}

\* However many threads register their first functions at the same time: the key
\* of the process exists, no thread is about to delete it, and every other key
\* belongs to the one thread that will delete it or publish it.
KeyValid ==
  /\ key # NoKey => key \in live
  /\ \A t \in Threads : Creating(t) => mine[t] \in live /\ mine[t] # key
  /\ \A t, u \in Threads : Creating(t) /\ Creating(u) /\ t # u => mine[t] # mine[u]
  /\ \A k \in live : k = key \/ \E t \in Threads : Creating(t) /\ mine[t] = k

\* The key is never replaced: the lists which are its values would be lost.
KeyStable == [][key # NoKey => key' = key]_vars

\* "One thread also needs to register an atexit function": exactly one does.
OneHandler ==
  LET due == {t \in Threads : pc[t] = "handler"} IN
  /\ \A t, u \in due : t = u
  /\ key = NoKey => handlers = 0 /\ due = {}
  /\ handlers <= 1 /\ (due # {} => handlers = 0)
  /\ key # NoKey /\ exiting = NoThread /\ due = {} => handlers = 1

\* The functions in a list of nodes.
Functions(nodes) == UNION {{nodes[i][j] : j \in DOMAIN nodes[i]} : i \in DOMAIN nodes}
Ran(t) == {ran[t][i] : i \in DOMAIN ran[t]}

\* Each registration is in the list, in the list which is being run, or has been
\* run: it is not lost, and it is not run twice.
Accounted ==
  \A t \in Threads :
    /\ Functions(value[t]) \cup Functions(detached[t]) \cup Ran(t) = 1..registered[t]
    /\ Ran(t) \cap (Functions(value[t]) \cup Functions(detached[t])) = {}
    /\ Functions(value[t]) \cap Functions(detached[t]) = {}
    /\ \A i, j \in DOMAIN ran[t] : i # j => ran[t][i] # ran[t][j]

\* Of a list the newest function is called first, whatever its node.
NewestFirst ==
  [][\A t \in Threads : Call(t) =>
       \A f \in Functions(detached[t]) : f <= ran'[t][Len(ran'[t])]]_vars

\* What thread t has registered, except during the last round of destructors, or while
\* exit was running what there was.
Due(t) == {f \in 1..registered[t] : during[t][f] < Iterations}

\* A thread which has ended has run all its functions, however many they are, and those
\* which these have registered, round after round: only what the last round has
\* registered is lost.
ThreadEndRuns == \A t \in Threads : pc[t] = "gone" => Due(t) \subseteq Ran(t)

\* A thread which has called exit has run all its functions, unless the thread which is
\* to register the handler has not come to it.
ExitRuns ==
  ended = "exit" /\ (\A t \in Threads : pc[t] # "handler") =>
    Due(exiting) \subseteq Ran(exiting)

\* Whatever is registered is run, by the end of a thread or by exit, whatever else is
\* registered and by whom while it is run.
AllRun == ThreadEndRuns /\ ExitRuns

\* "One thread also needs to register an atexit function", so that exit runs the
\* functions of the thread which calls it: whatever the other threads are doing.
ExitRunsAlways == ended = "exit" => Due(exiting) \subseteq Ran(exiting)

\* Threads end, and so does exit.
Terminates ==
  /\ \A t \in Threads : pc[t] = "exiting" ~> pc[t] = "gone" \/ ended # "no"
  /\ exiting # NoThread ~> ended # "no"
=============================================================================
