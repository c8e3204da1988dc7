------------------------- MODULE ThreadAtexit_proofs -------------------------
(***************************************************************************)
(* Proofs about ThreadAtexit, for any number of threads and of keys, any   *)
(* size of a node and any number of rounds.                                *)
(*                                                                         *)
(* First the key and the handler: the key of the process is published once *)
(* and stays valid, keys which are not published are deleted, and the exit *)
(* handler is registered once.  The nodes do not matter for this, and IInv *)
(* is about the key, the handler and the steps of the threads.             *)
(*                                                                         *)
(* Then the lists of functions: OwnInv says what a list is at each step of *)
(* its thread, which no other thread's step concerns, ProcessInv what exit *)
(* finds, and DuringInv in which round what is in a list was registered.   *)
(* What becomes of every registration follows from the three.              *)
(***************************************************************************)
EXTENDS ThreadAtexit, TLAPS

KeyTypes ==
  /\ handlers \in Nat
  /\ pc \in [Threads -> Steps]
  /\ back \in [Threads -> {"idle", "call"}]
  /\ mine \in [Threads -> Keys \cup {NoKey}]
  /\ live \subseteq Keys

\* A thread is at the loop of exit only if it has called exit.
ExitingExits == \A t \in Threads : pc[t] = "exit" => exiting = t

IInv == KeyTypes /\ KeyValid /\ OneHandler /\ ExitingExits

\* A step of t which concerns neither the key, nor the handlers, nor exit.
Elsewhere == Steps \ {"publish", "delete", "handler", "exit"}
Aside(t) ==
  /\ UNCHANGED <<key, live, handlers, mine, exiting>>
  /\ \A u \in Threads \ {t} : pc'[u] = pc[u]
  /\ pc[t] \in Elsewhere /\ pc'[t] \in Elsewhere
  /\ pc' \in [Threads -> Steps] /\ back' \in [Threads -> {"idle", "call"}]

LEMMA AsidePreserves ==
  ASSUME NEW t \in Threads, IInv, Aside(t)
  PROVE  IInv'
<1>1. KeyTypes' BY DEF IInv, KeyTypes, Aside
<1>2. \A u \in Threads : /\ Creating(u)' <=> Creating(u)
                         /\ pc'[u] = "handler" <=> pc[u] = "handler"
                         /\ pc'[u] = "exit" <=> pc[u] = "exit"
  BY DEF Aside, Creating, Elsewhere
<1>3. KeyValid' BY <1>2 DEF IInv, KeyValid, Aside
<1>4. OneHandler' BY <1>2 DEF IInv, OneHandler, Aside
<1>5. ExitingExits' BY <1>2 DEF IInv, ExitingExits, Aside
<1>6. QED BY <1>1, <1>3, <1>4, <1>5 DEF IInv

LEMMA InitInv == Init => IInv
BY DEF Init, IInv, KeyTypes, KeyValid, OneHandler, ExitingExits, Creating, Steps

\* What a thread does with its list.
LEMMA ListSteps ==
  ASSUME NEW t \in Threads, IInv,
         \/ Register(t) \/ NewNode(t) \/ KeyRound(t) \/ Call(t) \/ Return(t) \/ ThreadExit(t)
  PROVE  IInv'
<1> USE DEF Goto, Steps
<1>0. KeyTypes BY DEF IInv
<1>1. CASE Register(t)
  <2>1. Aside(t) BY <1>0, <1>1 DEF KeyTypes, Register, Add, Aside, Elsewhere
  <2>2. QED BY <2>1, AsidePreserves
<1>2. CASE NewNode(t)
  <2>1. Aside(t) BY <1>0, <1>2 DEF KeyTypes, NewNode, Add, Aside, Elsewhere
  <2>2. QED BY <2>1, AsidePreserves
<1>3. CASE KeyRound(t)
  <2>1. Aside(t) BY <1>0, <1>3 DEF KeyTypes, KeyRound, Aside, Elsewhere
  <2>2. QED BY <2>1, AsidePreserves
<1>4. CASE Call(t)
  <2>1. Aside(t) BY <1>0, <1>4 DEF KeyTypes, Call, Aside, Elsewhere
  <2>2. QED BY <2>1, AsidePreserves
<1>5. CASE Return(t)
  <2>1. Aside(t) BY <1>0, <1>5 DEF KeyTypes, Return, Aside, Elsewhere
  <2>2. QED BY <2>1, AsidePreserves
<1>6. CASE ThreadExit(t)
  <2>1. Aside(t) BY <1>0, <1>6 DEF KeyTypes, ThreadExit, Aside, Elsewhere
  <2>2. QED BY <2>1, AsidePreserves
<1>7. QED BY <1>1, <1>2, <1>3, <1>4, <1>5, <1>6

\* The steps of making the key: one per line of the protocol.
LEMMA CreateKeyStep == ASSUME NEW t \in Threads, IInv, CreateKey(t) PROVE IInv'
<1> USE DEF IInv, Goto
<1>1. PICK k \in Keys \ live : live' = live \cup {k} /\ mine' = [mine EXCEPT ![t] = k]
  BY DEF CreateKey
<1>2. pc[t] = "create" /\ pc' = [pc EXCEPT ![t] = "publish"]
  BY DEF CreateKey
<1>3. UNCHANGED <<key, handlers, exiting, back>> BY DEF CreateKey
<1>4. KeyTypes' BY <1>1, <1>2, <1>3 DEF KeyTypes, Steps
<1>5. /\ Creating(t)' /\ mine'[t] = k
      /\ \A u \in Threads \ {t} : (Creating(u)' <=> Creating(u)) /\ mine'[u] = mine[u]
      /\ ~Creating(t)
  BY <1>1, <1>2 DEF Creating, KeyTypes
<1>6. KeyValid'
  <2> USE <1>1, <1>3, <1>5 DEF KeyValid
  <2>1. k # key BY AtexitAssumption DEF KeyTypes
  <2>2. (key # NoKey => key \in live)' OBVIOUS
  <2>3. (\A u \in Threads : Creating(u) => mine[u] \in live /\ mine[u] # key)' BY <2>1
  <2>4. (\A u, v \in Threads : Creating(u) /\ Creating(v) /\ u # v => mine[u] # mine[v])'
    OBVIOUS
  <2>5. (\A l \in live : l = key \/ \E u \in Threads : Creating(u) /\ mine[u] = l)'
    <3> SUFFICES ASSUME NEW l \in live'
                 PROVE  l = key' \/ \E u \in Threads : Creating(u)' /\ mine'[u] = l
      OBVIOUS
    <3>1. CASE l = k OBVIOUS
    <3>2. ASSUME l \in live, l # key PROVE \E u \in Threads : Creating(u)' /\ mine'[u] = l
      BY <3>2
    <3>3. QED BY <3>1, <3>2
  <2>6. QED BY <2>2, <2>3, <2>4, <2>5
<1>7. OneHandler' BY <1>2, <1>3 DEF OneHandler, KeyTypes
<1>8. ExitingExits' BY <1>2, <1>3 DEF ExitingExits, KeyTypes
<1>9. QED BY <1>4, <1>6, <1>7, <1>8

LEMMA PublishStep == ASSUME NEW t \in Threads, IInv, Publish(t) PROVE IInv'
<1> USE DEF IInv, Goto
<1>1. pc[t] = "publish" /\ UNCHANGED <<live, handlers, exiting, mine, back>> BY DEF Publish
<1>2. Creating(t) /\ mine[t] \in live BY <1>1 DEF KeyValid, Creating
<1>3. CASE key = NoKey
  <2>1. key' = mine[t] /\ pc' = [pc EXCEPT ![t] = "handler"] BY <1>3 DEF Publish
  <2>2. KeyTypes' BY <1>1, <2>1 DEF KeyTypes, Steps
  <2>creating. /\ ~Creating(t)'
               /\ \A u \in Threads \ {t} : Creating(u)' <=> Creating(u)
    BY <2>1 DEF Creating, KeyTypes
  <2>3. KeyValid'
    <3> USE <1>1, <1>2, <1>3, <2>1, <2>creating DEF KeyValid
    <3>1. (key # NoKey => key \in live)' OBVIOUS
    <3>2. (\A u \in Threads : Creating(u) => mine[u] \in live /\ mine[u] # key)' OBVIOUS
    <3>3. (\A u, v \in Threads : Creating(u) /\ Creating(v) /\ u # v => mine[u] # mine[v])'
      OBVIOUS
    <3>4. (\A l \in live : l = key \/ \E u \in Threads : Creating(u) /\ mine[u] = l)'
      <4>1. \A l \in live : l # key BY AtexitAssumption DEF KeyTypes
      <4>2. \A l \in live : \E u \in Threads : Creating(u) /\ mine[u] = l BY <4>1
      <4>3. QED BY <4>2
    <3>5. QED BY <3>1, <3>2, <3>3, <3>4
  <2>4. \A u \in Threads : pc'[u] = "handler" <=> u = t
    BY <1>3, <2>1 DEF OneHandler, KeyTypes
  <2>5. mine[t] # NoKey BY <1>2, AtexitAssumption DEF KeyTypes
  <2>6. OneHandler' BY <1>1, <1>3, <2>1, <2>4, <2>5 DEF OneHandler
  <2>7. ExitingExits' BY <1>1, <2>1 DEF ExitingExits, KeyTypes
  <2>8. QED BY <2>2, <2>3, <2>6, <2>7
<1>4. CASE key # NoKey
  <2>1. key' = key /\ pc' = [pc EXCEPT ![t] = "delete"] BY <1>4 DEF Publish
  <2>2. KeyTypes' BY <1>1, <2>1 DEF KeyTypes, Steps
  <2>creating. \A u \in Threads : Creating(u)' <=> Creating(u)
    BY <1>1, <2>1 DEF Creating, KeyTypes
  <2>3. KeyValid' BY <1>1, <2>1, <2>creating DEF KeyValid
  <2>due. \A u \in Threads : pc'[u] = "handler" <=> pc[u] = "handler"
    BY <1>1, <2>1 DEF KeyTypes
  <2>4. OneHandler' BY <1>1, <2>1, <2>due DEF OneHandler
  <2>5. ExitingExits' BY <1>1, <2>1 DEF ExitingExits, KeyTypes
  <2>6. QED BY <2>2, <2>3, <2>4, <2>5
<1>5. QED BY <1>3, <1>4

LEMMA DeleteKeyStep == ASSUME NEW t \in Threads, IInv, DeleteKey(t) PROVE IInv'
<1> USE DEF IInv, Goto
<1>1. /\ pc[t] = "delete" /\ pc' = [pc EXCEPT ![t] = "node"]
      /\ live' = live \ {mine[t]} /\ mine' = [mine EXCEPT ![t] = NoKey]
      /\ UNCHANGED <<key, handlers, exiting, back>>
  BY DEF DeleteKey
<1>2. KeyTypes' BY <1>1 DEF KeyTypes, Steps
<1>creating. /\ Creating(t) /\ ~Creating(t)'
             /\ \A u \in Threads \ {t} : (Creating(u)' <=> Creating(u)) /\ mine'[u] = mine[u]
  BY <1>1 DEF Creating, KeyTypes
<1>3. KeyValid' BY <1>1, <1>creating DEF KeyValid
<1>due. \A u \in Threads : pc'[u] = "handler" <=> pc[u] = "handler"
  BY <1>1 DEF KeyTypes
<1>4. OneHandler' BY <1>1, <1>due DEF OneHandler
<1>5. ExitingExits' BY <1>1 DEF ExitingExits, KeyTypes
<1>6. QED BY <1>2, <1>3, <1>4, <1>5

LEMMA RegisterHandlerStep == ASSUME NEW t \in Threads, IInv, RegisterHandler(t) PROVE IInv'
<1> USE DEF IInv, Goto
<1>1. /\ pc[t] = "handler" /\ pc' = [pc EXCEPT ![t] = "node"]
      /\ handlers' = handlers + 1 /\ mine' = [mine EXCEPT ![t] = NoKey]
      /\ UNCHANGED <<key, live, exiting, back>>
  BY DEF RegisterHandler
<1>2. KeyTypes' BY <1>1 DEF KeyTypes, Steps
<1>creating. \A u \in Threads : Creating(u)' <=> Creating(u)
  BY <1>1 DEF Creating, KeyTypes
<1>mine. \A u \in Threads : Creating(u) => mine'[u] = mine[u]
  BY <1>1 DEF Creating, KeyTypes
<1>key. UNCHANGED <<key, live>> BY <1>1
<1>3. KeyValid' BY <1>key, <1>creating, <1>mine DEF KeyValid
<1>4. handlers = 0 /\ key # NoKey BY <1>1 DEF OneHandler
<1>5. \A u \in Threads : pc'[u] # "handler" BY <1>1 DEF OneHandler, KeyTypes
<1>6. OneHandler' BY <1>1, <1>4, <1>5 DEF OneHandler
<1>7. ExitingExits' BY <1>1 DEF ExitingExits, KeyTypes
<1>8. QED BY <1>2, <1>3, <1>6, <1>7

\* The steps which end the process.
LEMMA ExitSteps ==
  ASSUME NEW t \in Threads, IInv, Exit(t) \/ ExitHandler(t) \/ FreeNode(t) \/ Fatal(t)
  PROVE  IInv'
<1> USE DEF IInv, Goto
<1>1. CASE Exit(t)
  <2>1. /\ pc[t] = "idle" /\ pc' = [pc EXCEPT ![t] = "exit"]
        /\ exiting = NoThread /\ exiting' = t /\ t # NoThread
        /\ UNCHANGED <<key, live, handlers, mine, back>>
    BY <1>1, AtexitAssumption DEF Exit
  <2>2. KeyTypes' BY <2>1 DEF KeyTypes, Steps
  <2>3. \A u \in Threads : /\ Creating(u)' <=> Creating(u)
                           /\ pc'[u] = "handler" <=> pc[u] = "handler"
    BY <2>1 DEF Creating, KeyTypes
  <2>4. KeyValid' BY <2>1, <2>3 DEF KeyValid
  <2>5. OneHandler' BY <2>1, <2>3 DEF OneHandler
  <2>6. \A u \in Threads : pc[u] # "exit" BY <2>1, AtexitAssumption DEF ExitingExits
  <2>7. ExitingExits' BY <2>1, <2>6 DEF ExitingExits, KeyTypes
  <2>8. QED BY <2>2, <2>4, <2>5, <2>7
<1>2. CASE ExitHandler(t)
  <2>1. exiting = t /\ t # NoThread
    BY <1>2, AtexitAssumption DEF ExitHandler, ExitingExits
  <2>2. KeyTypes' BY <1>2 DEF ExitHandler, KeyTypes, Steps
  <2>4. \A u \in Threads : /\ Creating(u)' <=> Creating(u)
                           /\ pc'[u] = "handler" <=> pc[u] = "handler"
    BY <1>2 DEF ExitHandler, Creating, KeyTypes
  <2>3. KeyValid' BY <1>2, <2>4 DEF ExitHandler, KeyValid
  <2>5. handlers' \in {handlers, 0} /\ (handlers = 0 => handlers' = 0)
    BY <1>2 DEF ExitHandler, OneHandler, KeyTypes
  <2>6. OneHandler' BY <1>2, <2>1, <2>4, <2>5 DEF ExitHandler, OneHandler
  <2>7. ExitingExits' BY <1>2 DEF ExitHandler, ExitingExits, KeyTypes
  <2>8. QED BY <2>2, <2>3, <2>6, <2>7
<1>3. CASE FreeNode(t)
  <2>1. KeyTypes' BY <1>3 DEF FreeNode, KeyTypes, Steps
  <2>2. \A u \in Threads : /\ Creating(u)' <=> Creating(u)
                           /\ pc'[u] = "handler" <=> pc[u] = "handler"
    BY <1>3 DEF FreeNode, Creating, KeyTypes
  <2>3. KeyValid' BY <1>3, <2>2 DEF FreeNode, KeyValid
  <2>4. OneHandler' BY <1>3, <2>2 DEF FreeNode, OneHandler
  <2>5. ExitingExits' BY <1>3 DEF FreeNode, ExitingExits, KeyTypes
  <2>6. QED BY <2>1, <2>3, <2>4, <2>5
<1>4. CASE Fatal(t)
  BY <1>4 DEF Fatal, KeyTypes, KeyValid, OneHandler, ExitingExits, Creating
<1>5. QED BY <1>1, <1>2, <1>3, <1>4

LEMMA NextInv == IInv /\ [Next]_vars => IInv'
<1> SUFFICES ASSUME IInv, [Next]_vars PROVE IInv'
  OBVIOUS
<1>1. CASE Next
  <2>1. PICK t \in Threads : Step(t) \/ Program(t) BY <1>1 DEF Next
  <2>2. QED
    BY <2>1, ListSteps, CreateKeyStep, PublishStep, DeleteKeyStep, RegisterHandlerStep, ExitSteps
    DEF Step, Program
<1>2. CASE UNCHANGED vars
  BY <1>2 DEF vars, IInv, KeyTypes, KeyValid, OneHandler, ExitingExits, Creating
<1>3. QED BY <1>1, <1>2

\* The invariant of the protocol holds of every behaviour.
THEOREM InvCorrect == Spec => []IInv
<1>1. QED BY InitInv, NextInv, PTL DEF Spec

\* The key of the process exists, and no key is lost, whatever the threads race for.
THEOREM KeyValidCorrect == Spec => []KeyValid
<1>1. IInv => KeyValid BY DEF IInv
<1>2. QED BY <1>1, InvCorrect, PTL

\* The thread which publishes the key is the only one to register the handler.
THEOREM OneHandlerCorrect == Spec => []OneHandler
<1>1. IInv => OneHandler BY DEF IInv
<1>2. QED BY <1>1, InvCorrect, PTL

\* Once published, the key is never replaced.
THEOREM KeyStableCorrect == Spec => KeyStable
<1>1. [Next]_vars => [key # NoKey => key' = key]_vars
  <2> SUFFICES ASSUME Next, key # NoKey PROVE key' = key
    BY DEF vars
  <2>1. PICK t \in Threads : Step(t) \/ Program(t) BY DEF Next
  <2>2. QED
    BY <2>1
    DEF Step, Program, Register, CreateKey, Publish, DeleteKey, RegisterHandler, NewNode,
        Fatal, ThreadExit, KeyRound, Exit, ExitHandler, Call, Return, FreeNode
<1>2. QED BY <1>1, PTL DEF Spec, KeyStable
-----------------------------------------------------------------------------
(* The lists.  What a thread knows of its functions is its own; OwnInv is    *)
(* about one thread, and ProcessInv about what it shares with the others.    *)

\* A thread which registers a function, at a step of its own.
Making == {"create", "publish", "delete", "handler", "node"}

\* The thread does not run a list; or it is in a function that it runs.
Outside(t) ==
  pc[t] \in {"idle", "exiting", "exit", "gone"} \/ (pc[t] \in Making /\ back[t] = "idle")
Inside(t) == pc[t] = "call" \/ (pc[t] \in Making /\ back[t] = "call")

\* Where node i comes before node k, its functions are newer; in a node they are
\* in the order of their registration.
Sorted(nodes) ==
  \A i, k \in DOMAIN nodes : \A j \in DOMAIN nodes[i], l \in DOMAIN nodes[k] :
    (k < i \/ (k = i /\ j < l)) => nodes[i][j] < nodes[k][l]

OwnTypes(t) ==
  /\ value[t] \in Seq(Seq(Nat)) /\ detached[t] \in Seq(Seq(Nat)) /\ ran[t] \in Seq(Nat)
  /\ registered[t] \in 0..MaxRegs /\ rounds[t] \in 0..Iterations
  /\ pc[t] \in Making => registered[t] < MaxRegs

OwnOrder(t) ==
  /\ Sorted(value[t]) /\ Sorted(detached[t])
  /\ \A f \in Functions(detached[t]), g \in Functions(value[t]) : f < g

OwnAccount(t) ==
  /\ Functions(value[t]) \cup Functions(detached[t]) \cup Ran(t) = 1..registered[t]
  /\ Ran(t) \cap (Functions(value[t]) \cup Functions(detached[t])) = {}
  /\ Functions(value[t]) \cap Functions(detached[t]) = {}
  /\ \A i, j \in DOMAIN ran[t] : i # j => ran[t][i] # ran[t][j]

\* A node is made for a function, so that each round runs at least one.
OwnNodes(t) ==
  /\ \A i \in DOMAIN value[t] : value[t][i] # << >>
  /\ \A i \in DOMAIN detached[t] : i # 1 => detached[t][i] # << >>
  /\ detached[t] # << >> /\ detached[t][1] = << >> => ran[t] # << >>

OwnPhase(t) ==
  /\ Outside(t) => detached[t] = << >>
  /\ Inside(t) => ran[t] # << >>
  /\ pc[t] = "gone" => value[t] = << >> \/ rounds[t] = Iterations

OwnInv(t) ==
  /\ OwnTypes(t) /\ OwnOrder(t) /\ OwnAccount(t) /\ OwnNodes(t) /\ OwnPhase(t)

\* The handler has been called: the thread which exits runs its list, or has.
Served ==
  key # NoKey /\ handlers = 0 /\ (\A t \in Threads : pc[t] # "handler") =>
    \A t \in Threads : exiting = t =>
      registered[t] = 0 \/ ran[t] # << >> \/ detached[t] # << >>

ProcessInv ==
  /\ exiting \in Threads \cup {NoThread} /\ ended \in {"no", "exit", "fatal"}
  /\ \A t \in Threads : exiting = t => pc[t] \in {"exit", "cleanup"} \/ Inside(t)
  /\ \A t \in Threads :
       /\ pc[t] \in {"delete", "handler", "node"} => key # NoKey
       /\ registered[t] > 0 => key # NoKey
  /\ ended = "exit" => handlers = 0 /\ exiting # NoThread /\ pc[exiting] = "exit"
  /\ Served

Shape ==
  /\ value = [t \in Threads |-> value[t]] /\ detached = [t \in Threads |-> detached[t]]
  /\ ran = [t \in Threads |-> ran[t]] /\ registered = [t \in Threads |-> registered[t]]
  /\ rounds = [t \in Threads |-> rounds[t]]

ListInv == Shape /\ \A t \in Threads : OwnInv(t)

LEMMA FirstOf ==
  ASSUME NEW S, NEW s \in Seq(S)
  PROVE  (s # << >> => 1 \in DOMAIN s) /\ (Len(s) = 1 => Tail(s) = << >>)
<1>1. s # << >> => 1 \in DOMAIN s OBVIOUS
<1>2. Len(s) = 1 => Tail(s) \in Seq(S) /\ Len(Tail(s)) = 0 OBVIOUS
<1>3. \A r \in Seq(S) : Len(r) = 0 => r = << >> OBVIOUS
<1>4. QED BY <1>1, <1>2, <1>3

LEMMA AppendFacts ==
  ASSUME NEW s \in Seq(Nat), NEW e \in Nat
  PROVE  LET more == Append(s, e) IN
         /\ more \in Seq(Nat) /\ Len(more) = Len(s) + 1 /\ more # << >>
         /\ DOMAIN more = DOMAIN s \cup {Len(s) + 1} /\ more[Len(s) + 1] = e
         /\ \A i \in DOMAIN s : i # Len(s) + 1 /\ more[i] = s[i]
<1>1. Append(s, e) \in Seq(Nat) /\ Len(Append(s, e)) = Len(s) + 1 OBVIOUS
<1>2. Append(s, e)[Len(s) + 1] = e OBVIOUS
<1>3. \A i \in DOMAIN s : i # Len(s) + 1 /\ Append(s, e)[i] = s[i] OBVIOUS
<1>4. DOMAIN Append(s, e) = DOMAIN s \cup {Len(s) + 1} /\ Append(s, e) # << >>
  OBVIOUS
<1>5. QED BY <1>1, <1>2, <1>3, <1>4

LEMMA InFunctions ==
  ASSUME NEW nodes, NEW f
  PROVE  f \in Functions(nodes) <=>
           \E i \in DOMAIN nodes : \E j \in DOMAIN nodes[i] : nodes[i][j] = f
BY DEF Functions

LEMMA FunctionsNat == ASSUME NEW nodes \in Seq(Seq(Nat)) PROVE Functions(nodes) \subseteq Nat
<1> SUFFICES ASSUME NEW f \in Functions(nodes) PROVE f \in Nat
  OBVIOUS
<1>1. PICK i \in DOMAIN nodes : \E j \in DOMAIN nodes[i] : nodes[i][j] = f BY InFunctions
<1>2. nodes[i] \in Seq(Nat) OBVIOUS
<1>3. QED BY <1>1, <1>2

\* A new node, which is empty, comes first.
LEMMA NewFirst ==
  ASSUME NEW nodes \in Seq(Seq(Nat)), Sorted(nodes)
  PROVE  LET more == <<<< >>>> \o nodes IN
         /\ more \in Seq(Seq(Nat)) /\ more # << >> /\ Sorted(more)
         /\ Functions(more) = Functions(nodes)
         /\ Tail(more) = nodes
<1> DEFINE more == <<<< >>>> \o nodes
<1>1. /\ more \in Seq(Seq(Nat)) /\ Len(more) = Len(nodes) + 1
      /\ more[1] = << >> /\ \A i \in DOMAIN nodes : more[i + 1] = nodes[i]
  OBVIOUS
<1>2. \A i \in DOMAIN more : i # 1 => i - 1 \in DOMAIN nodes /\ more[i] = nodes[i - 1]
  BY <1>1
<1>3. DOMAIN nodes \subseteq Nat /\ DOMAIN more \subseteq Nat
      /\ \A i \in DOMAIN nodes : i + 1 \in DOMAIN more
  BY <1>1
<1>4. DOMAIN << >> = {} OBVIOUS
<1> HIDE DEF more
<1>5. \A f : f \in Functions(more) <=> f \in Functions(nodes)
  <2> SUFFICES ASSUME NEW f PROVE f \in Functions(more) <=> f \in Functions(nodes)
    OBVIOUS
  <2>1. ASSUME f \in Functions(more) PROVE f \in Functions(nodes)
    <3>1. PICK i \in DOMAIN more : \E j \in DOMAIN more[i] : more[i][j] = f
      BY <2>1, InFunctions
    <3>2. i # 1 BY <1>1, <1>4, <3>1
    <3>3. QED BY <1>2, <3>1, <3>2, InFunctions
  <2>2. ASSUME f \in Functions(nodes) PROVE f \in Functions(more)
    <3>1. PICK i \in DOMAIN nodes : \E j \in DOMAIN nodes[i] : nodes[i][j] = f
      BY <2>2, InFunctions
    <3>2. i + 1 \in DOMAIN more /\ more[i + 1] = nodes[i] BY <1>1, <1>3
    <3>3. QED BY <3>1, <3>2, InFunctions
  <2>3. QED BY <2>1, <2>2
<1>6. Functions(more) = Functions(nodes) BY <1>5
<1>7. Sorted(more)
  <2> SUFFICES ASSUME NEW i \in DOMAIN more, NEW k \in DOMAIN more,
                      NEW j \in DOMAIN more[i], NEW l \in DOMAIN more[k],
                      k < i \/ (k = i /\ j < l)
               PROVE  more[i][j] < more[k][l]
    BY DEF Sorted
  <2>1. i # 1 /\ k # 1 BY <1>1, <1>4
  <2>2. i - 1 \in DOMAIN nodes /\ k - 1 \in DOMAIN nodes
        /\ more[i] = nodes[i - 1] /\ more[k] = nodes[k - 1]
    BY <1>2, <2>1
  <2>3. k - 1 < i - 1 \/ (k - 1 = i - 1 /\ j < l) BY <1>3
  <2>4. QED BY <2>2, <2>3 DEF Sorted
<1>8. Tail(more) = nodes BY DEF more
<1>9. QED BY <1>1, <1>6, <1>7, <1>8 DEF more

\* A function which is newer than the others is put at the end of the first node.
LEMMA AddFirst ==
  ASSUME NEW nodes \in Seq(Seq(Nat)), nodes # << >>, Sorted(nodes), NEW f \in Nat,
         \A g \in Functions(nodes) : g < f
  PROVE  LET more == <<Append(nodes[1], f)>> \o Tail(nodes) IN
         /\ more \in Seq(Seq(Nat)) /\ Sorted(more)
         /\ Functions(more) = Functions(nodes) \cup {f}
         /\ DOMAIN more = DOMAIN nodes /\ more[1] # << >>
         /\ \A i \in DOMAIN more : i # 1 => more[i] = nodes[i]
<1> DEFINE first == nodes[1]
           more == <<Append(first, f)>> \o Tail(nodes)
<1>0. first \in Seq(Nat) OBVIOUS
<1>1. /\ more \in Seq(Seq(Nat)) /\ DOMAIN more = DOMAIN nodes /\ 1 \in DOMAIN nodes
      /\ DOMAIN nodes \subseteq Nat /\ \A i \in DOMAIN nodes : i # 1 => 1 < i
      /\ more[1] = Append(first, f) /\ \A i \in DOMAIN more : i # 1 => more[i] = nodes[i]
  OBVIOUS
<1>2. /\ more[1] # << >> /\ DOMAIN more[1] = DOMAIN first \cup {Len(first) + 1}
      /\ more[1][Len(first) + 1] = f
      /\ \A j \in DOMAIN first : j < Len(first) + 1 /\ more[1][j] = first[j]
  BY <1>0, <1>1
<1> HIDE DEF more
<1>3. \A i \in DOMAIN more : \A j \in DOMAIN more[i] :
        \/ i = 1 /\ j = Len(first) + 1 /\ more[i][j] = f
        \/ /\ j \in DOMAIN nodes[i] /\ more[i][j] = nodes[i][j]
           /\ more[i][j] \in Functions(nodes)
           /\ i = 1 => j < Len(first) + 1
  BY <1>1, <1>2, InFunctions
<1>4. \A g : g \in Functions(more) <=> g \in Functions(nodes) \cup {f}
  <2> SUFFICES ASSUME NEW g PROVE g \in Functions(more) <=> g \in Functions(nodes) \cup {f}
    OBVIOUS
  <2>1. ASSUME g \in Functions(more) PROVE g \in Functions(nodes) \cup {f}
    BY <1>3, <2>1, InFunctions
  <2>2. ASSUME g \in Functions(nodes) PROVE g \in Functions(more)
    <3>1. PICK i \in DOMAIN nodes : \E j \in DOMAIN nodes[i] : nodes[i][j] = g
      BY <2>2, InFunctions
    <3>2. \A j \in DOMAIN nodes[i] : j \in DOMAIN more[i] /\ more[i][j] = nodes[i][j]
      BY <1>1, <1>2
    <3>3. QED BY <1>1, <3>1, <3>2, InFunctions
  <2>3. f \in Functions(more) BY <1>1, <1>2, InFunctions
  <2>4. QED BY <2>1, <2>2, <2>3
<1>5. Functions(more) = Functions(nodes) \cup {f} BY <1>4
<1>6. Sorted(more)
  <2> SUFFICES ASSUME NEW i \in DOMAIN more, NEW k \in DOMAIN more,
                      NEW j \in DOMAIN more[i], NEW l \in DOMAIN more[k],
                      k < i \/ (k = i /\ j < l)
               PROVE  more[i][j] < more[k][l]
    BY DEF Sorted
  <2>1. CASE i = 1 /\ j = Len(first) + 1
    <3>1. k = 1 /\ j < l BY <1>1, <2>1
    <3>2. l \in DOMAIN first \cup {Len(first) + 1} BY <1>2, <3>1
    <3>3. QED BY <1>0, <1>2, <2>1, <3>1, <3>2
  <2>2. CASE ~(i = 1 /\ j = Len(first) + 1)
    <3>1. /\ j \in DOMAIN nodes[i] /\ more[i][j] = nodes[i][j]
          /\ more[i][j] \in Functions(nodes)
      BY <1>3, <2>2
    <3>2. CASE k = 1 /\ l = Len(first) + 1 BY <1>2, <3>1, <3>2
    <3>3. CASE ~(k = 1 /\ l = Len(first) + 1)
      <4>1. l \in DOMAIN nodes[k] /\ more[k][l] = nodes[k][l] BY <1>3, <3>3
      <4>2. QED BY <1>1, <3>1, <4>1 DEF Sorted
    <3>4. QED BY <3>2, <3>3
  <2>3. QED BY <2>1, <2>2
<1>7. QED BY <1>1, <1>2, <1>5, <1>6 DEF more

\* The last function of the first node is the newest, and is taken out.
LEMMA TakeLast ==
  ASSUME NEW nodes \in Seq(Seq(Nat)), nodes # << >>, nodes[1] # << >>, Sorted(nodes)
  PROVE  LET node == nodes[1]
             last == node[Len(node)]
             rest == [nodes EXCEPT ![1] = SubSeq(node, 1, Len(node) - 1)]
         IN /\ last \in Nat /\ rest \in Seq(Seq(Nat)) /\ Sorted(rest)
            /\ Functions(nodes) = Functions(rest) \cup {last}
            /\ \A f \in Functions(rest) : f < last
            /\ DOMAIN rest = DOMAIN nodes
            /\ \A i \in DOMAIN rest : i # 1 => rest[i] = nodes[i]
<1> DEFINE node == nodes[1]
           last == node[Len(node)]
           less == SubSeq(node, 1, Len(node) - 1)
           rest == [nodes EXCEPT ![1] = less]
<1>0. node \in Seq(Nat) /\ Len(node) \in DOMAIN node OBVIOUS
<1>1. less \in Seq(Nat) /\ last \in Nat BY <1>0
<1>2. DOMAIN node = DOMAIN less \cup {Len(node)}
      /\ \A j \in DOMAIN less : j < Len(node) /\ less[j] = node[j]
  BY <1>0
<1> HIDE DEF less
<1>3. /\ rest \in Seq(Seq(Nat)) /\ DOMAIN rest = DOMAIN nodes /\ 1 \in DOMAIN nodes
      /\ DOMAIN nodes \subseteq Nat /\ \A i \in DOMAIN nodes : i # 1 => 1 < i
      /\ rest[1] = less /\ \A i \in DOMAIN rest : i # 1 => rest[i] = nodes[i]
  BY <1>1
<1> HIDE DEF rest
<1>4. \A i \in DOMAIN rest : \A j \in DOMAIN rest[i] :
        j \in DOMAIN nodes[i] /\ rest[i][j] = nodes[i][j] /\ (i = 1 => j < Len(node))
  BY <1>2, <1>3
<1>5. Sorted(rest) BY <1>3, <1>4 DEF Sorted
<1>6. \A f \in Functions(rest) : f \in Functions(nodes) /\ f < last
  <2> SUFFICES ASSUME NEW f \in Functions(rest) PROVE f \in Functions(nodes) /\ f < last
    OBVIOUS
  <2>1. PICK i \in DOMAIN rest : \E j \in DOMAIN rest[i] : rest[i][j] = f BY InFunctions
  <2>2. PICK j \in DOMAIN rest[i] : rest[i][j] = f BY <2>1
  <2>3. i \in DOMAIN nodes /\ j \in DOMAIN nodes[i] /\ nodes[i][j] = f
    BY <1>3, <1>4, <2>2
  <2>4. f \in Functions(nodes) BY <2>3, InFunctions
  <2>5. 1 < i \/ (1 = i /\ j < Len(node)) BY <1>3, <1>4, <2>3
  <2>6. f < last BY <1>0, <1>3, <2>3, <2>5 DEF Sorted
  <2>7. QED BY <2>4, <2>6
<1>7. last \in Functions(nodes) BY <1>0, <1>3, InFunctions
<1>8. \A f \in Functions(nodes) : f = last \/ f \in Functions(rest)
  <2> SUFFICES ASSUME NEW f \in Functions(nodes), f # last PROVE f \in Functions(rest)
    OBVIOUS
  <2>1. PICK i \in DOMAIN nodes : \E j \in DOMAIN nodes[i] : nodes[i][j] = f BY InFunctions
  <2>2. PICK j \in DOMAIN nodes[i] : nodes[i][j] = f BY <2>1
  <2>3. j \in DOMAIN rest[i] /\ rest[i][j] = f BY <1>2, <1>3, <2>2
  <2>4. QED BY <1>3, <2>3, InFunctions
<1>9. Functions(nodes) = Functions(rest) \cup {last} BY <1>6, <1>7, <1>8
<1>10. QED BY <1>1, <1>3, <1>5, <1>6, <1>9 DEF rest, less

\* A first node that is empty can go.
LEMMA DropFirst ==
  ASSUME NEW nodes \in Seq(Seq(Nat)), nodes # << >>, nodes[1] = << >>, Sorted(nodes)
  PROVE  /\ Tail(nodes) \in Seq(Seq(Nat)) /\ Sorted(Tail(nodes))
         /\ Functions(Tail(nodes)) = Functions(nodes)
         /\ \A i \in DOMAIN Tail(nodes) :
              i + 1 \in DOMAIN nodes /\ i + 1 # 1 /\ Tail(nodes)[i] = nodes[i + 1]
<1> DEFINE rest == Tail(nodes)
<1>1. /\ rest \in Seq(Seq(Nat)) /\ DOMAIN rest \subseteq Nat /\ DOMAIN nodes \subseteq Nat
      /\ \A i \in DOMAIN rest :
           i + 1 \in DOMAIN nodes /\ i + 1 # 1 /\ rest[i] = nodes[i + 1]
      /\ \A i \in DOMAIN nodes : i # 1 => i - 1 \in DOMAIN rest /\ rest[i - 1] = nodes[i]
  BY SMTT(30)
<1>2. DOMAIN nodes[1] = {} OBVIOUS
<1> HIDE DEF rest
<1>3. Sorted(rest)
  <2> SUFFICES ASSUME NEW i \in DOMAIN rest, NEW k \in DOMAIN rest,
                      NEW j \in DOMAIN rest[i], NEW l \in DOMAIN rest[k],
                      k < i \/ (k = i /\ j < l)
               PROVE  rest[i][j] < rest[k][l]
    BY DEF Sorted
  <2>1. i \in Nat /\ k \in Nat BY <1>1
  <2>2. k + 1 < i + 1 \/ (k + 1 = i + 1 /\ j < l) BY <2>1
  <2>3. QED BY <1>1, <2>2 DEF Sorted
<1>4. \A f : f \in Functions(rest) <=> f \in Functions(nodes)
  <2> SUFFICES ASSUME NEW f PROVE f \in Functions(rest) <=> f \in Functions(nodes)
    OBVIOUS
  <2>1. ASSUME f \in Functions(rest) PROVE f \in Functions(nodes)
    <3>1. PICK i \in DOMAIN rest : \E j \in DOMAIN rest[i] : rest[i][j] = f
      BY <2>1, InFunctions
    <3>2. i + 1 \in DOMAIN nodes /\ nodes[i + 1] = rest[i] BY <1>1
    <3>3. QED BY <3>1, <3>2, InFunctions
  <2>2. ASSUME f \in Functions(nodes) PROVE f \in Functions(rest)
    <3>1. PICK i \in DOMAIN nodes : \E j \in DOMAIN nodes[i] : nodes[i][j] = f
      BY <2>2, InFunctions
    <3>2. i # 1 BY <1>2, <3>1
    <3>3. i - 1 \in DOMAIN rest /\ rest[i - 1] = nodes[i] BY <1>1, <3>2
    <3>4. QED BY <3>1, <3>3, InFunctions
  <2>3. QED BY <2>1, <2>2
<1>5. Functions(rest) = Functions(nodes) BY <1>4
<1>6. QED BY <1>1, <1>3, <1>5 DEF rest

\* What thread t knows of its own list.
Own(t) == <<value[t], detached[t], rounds[t], registered[t], ran[t]>>

LEMMA OwnFrame ==
  ASSUME NEW t, OwnInv(t), UNCHANGED Own(t), UNCHANGED <<pc[t], back[t]>>
  PROVE  OwnInv(t)'
<1>1. UNCHANGED <<value[t], detached[t], rounds[t], registered[t], ran[t], pc[t], back[t]>>
  BY DEF Own
<1>2. UNCHANGED <<Functions(value[t]), Functions(detached[t]), Ran(t), Sorted(value[t]),
                  Sorted(detached[t]), Outside(t), Inside(t)>>
  BY <1>1 DEF Functions, Ran, Sorted, Outside, Inside
<1>3. QED
  BY <1>1, <1>2
  DEF OwnInv, OwnTypes, OwnOrder, OwnAccount, OwnNodes, OwnPhase

\* The thread goes on, and leaves its list alone.
LEMMA OwnMoves ==
  ASSUME NEW t, OwnInv(t), UNCHANGED Own(t),
         Outside(t)' => Outside(t), Inside(t)' => Inside(t),
         pc'[t] \in Making => registered[t] < MaxRegs,
         pc'[t] = "gone" => value[t] = << >> \/ rounds[t] = Iterations
  PROVE  OwnInv(t)'
<1>1. UNCHANGED <<value[t], detached[t], rounds[t], registered[t], ran[t]>>
  BY DEF Own
<1>2. UNCHANGED <<Functions(value[t]), Functions(detached[t]), Ran(t), Sorted(value[t]),
                  Sorted(detached[t])>>
  BY <1>1 DEF Functions, Ran, Sorted
<1>3. QED
  BY <1>1, <1>2
  DEF OwnInv, OwnTypes, OwnOrder, OwnAccount, OwnNodes, OwnPhase

\* The thread adds a function to the first of nodes, which are those of its list, or
\* those with a new one in front.
LEMMA OwnAdds ==
  ASSUME NEW t, OwnInv(t),
         NEW nodes \in Seq(Seq(Nat)), nodes # << >>, Sorted(nodes),
         Functions(nodes) = Functions(value[t]),
         \A i \in DOMAIN nodes : i # 1 => nodes[i] # << >>,
         registered[t] < MaxRegs,
         value'[t] = <<Append(nodes[1], registered[t] + 1)>> \o Tail(nodes),
         registered'[t] = registered[t] + 1,
         UNCHANGED <<detached[t], rounds[t], ran[t]>>,
         pc'[t] \in {"idle", "call"},
         Outside(t)' => Outside(t), Inside(t)' => Inside(t)
  PROVE  OwnInv(t)'
<1> DEFINE f == registered[t] + 1
<1>1. /\ detached[t] \in Seq(Seq(Nat)) /\ ran[t] \in Seq(Nat) /\ registered[t] \in Nat
      /\ f \in Nat /\ MaxRegs \in Nat
  BY AtexitAssumption DEF OwnInv, OwnTypes
<1>2. UNCHANGED <<Functions(detached[t]), Ran(t), Sorted(detached[t])>>
  BY DEF Functions, Ran, Sorted
<1>3. Functions(value[t]) \cup Functions(detached[t]) \cup Ran(t) = 1..registered[t]
  BY DEF OwnInv, OwnAccount
<1>4. \A g \in Functions(value[t]) \cup Functions(detached[t]) \cup Ran(t) : g < f
  BY <1>1, <1>3
<1>newer. \A g \in Functions(nodes) : g < f BY <1>4
<1> HIDE DEF f
<1>5. /\ value'[t] \in Seq(Seq(Nat)) /\ Sorted(value'[t])
      /\ Functions(value'[t]) = Functions(nodes) \cup {f}
      /\ DOMAIN value'[t] = DOMAIN nodes /\ value'[t][1] # << >>
      /\ \A i \in DOMAIN value'[t] : i # 1 => value'[t][i] = nodes[i]
  <2> DEFINE more == <<Append(nodes[1], f)>> \o Tail(nodes)
  <2>1. /\ more \in Seq(Seq(Nat)) /\ Sorted(more) /\ Functions(more) = Functions(nodes) \cup {f}
        /\ DOMAIN more = DOMAIN nodes /\ more[1] # << >>
        /\ \A i \in DOMAIN more : i # 1 => more[i] = nodes[i]
    BY <1>1, <1>newer, AddFirst
  <2>2. value'[t] = more BY DEF f
  <2> HIDE DEF more
  <2>3. QED BY <2>1, <2>2
<1>6. OwnTypes(t)' BY <1>1, <1>5, SMTT(30) DEF OwnInv, OwnTypes, Making
<1>7. OwnOrder(t)' BY <1>2, <1>4, <1>5 DEF OwnInv, OwnOrder
<1>8. OwnAccount(t)'
  <2>1. 1..f = 1..registered[t] \cup {f} /\ registered'[t] = f BY <1>1 DEF f
  <2>2. f \notin Functions(value[t]) \cup Functions(detached[t]) \cup Ran(t) BY <1>1, <1>4
  <2>3. QED BY <1>2, <1>5, <2>1, <2>2, ZenonT(40) DEF OwnInv, OwnAccount
<1>9. OwnNodes(t)' BY <1>5 DEF OwnInv, OwnNodes
<1>10. OwnPhase(t)' BY DEF OwnInv, OwnPhase
<1>11. QED BY <1>6, <1>7, <1>8, <1>9, <1>10 DEF OwnInv

\* The destructor of the key, or the handler of exit, takes the list.
LEMMA OwnDetaches ==
  ASSUME NEW t, OwnInv(t), detached[t] = << >>, value[t] # << >>,
         detached'[t] = value[t], value'[t] = << >>,
         rounds'[t] \in {rounds[t], rounds[t] + 1}, rounds'[t] <= Iterations,
         UNCHANGED <<registered[t], ran[t]>>,
         pc'[t] = "cleanup"
  PROVE  OwnInv(t)'
<1>1. /\ value[t] \in Seq(Seq(Nat)) /\ ran[t] \in Seq(Nat) /\ rounds[t] \in Nat
      /\ Iterations \in Nat
  BY AtexitAssumption DEF OwnInv, OwnTypes
<1>2. Functions(<< >>) = {} /\ Sorted(<< >>) BY DEF Functions, Sorted
<1>3. /\ Functions(value[t])' = {} /\ Functions(detached[t])' = Functions(value[t])
      /\ Functions(detached[t]) = {} /\ Sorted(value[t])'
      /\ Sorted(detached[t])' = Sorted(value[t]) /\ Ran(t)' = Ran(t)
  BY <1>2 DEF Functions, Sorted, Ran
<1>4. value[t][1] # << >> /\ \A i \in DOMAIN value[t] : value[t][i] # << >>
  BY <1>1 DEF OwnInv, OwnNodes
<1>5. ~Outside(t)' /\ ~Inside(t)' /\ pc'[t] \notin Making BY DEF Outside, Inside, Making
<1>6. OwnTypes(t)' BY <1>1, <1>5 DEF OwnInv, OwnTypes
<1>7. OwnOrder(t)' BY <1>3 DEF OwnInv, OwnOrder
<1>8. OwnAccount(t)' BY <1>3 DEF OwnInv, OwnAccount
<1>9. OwnNodes(t)' BY <1>4 DEF OwnInv, OwnNodes
<1>10. OwnPhase(t)' BY <1>5 DEF OwnInv, OwnPhase
<1>11. QED BY <1>6, <1>7, <1>8, <1>9, <1>10 DEF OwnInv

\* The newest function of the list that is run is called.
LEMMA OwnCalls ==
  ASSUME NEW t, OwnInv(t), detached[t] # << >>, detached[t][1] # << >>,
         LET node == detached[t][1] IN
           /\ ran'[t] = Append(ran[t], node[Len(node)])
           /\ detached'[t] = [detached[t] EXCEPT ![1] = SubSeq(node, 1, Len(node) - 1)],
         UNCHANGED <<value[t], rounds[t], registered[t]>>,
         pc'[t] = "call"
  PROVE  OwnInv(t)'
<1> DEFINE node == detached[t][1]
           last == node[Len(node)]
<1>1. /\ value[t] \in Seq(Seq(Nat)) /\ detached[t] \in Seq(Seq(Nat)) /\ ran[t] \in Seq(Nat)
      /\ rounds[t] \in Nat
  BY DEF OwnInv, OwnTypes
<1>2. /\ last \in Nat /\ detached'[t] \in Seq(Seq(Nat)) /\ Sorted(detached'[t])
      /\ Functions(detached[t]) = Functions(detached'[t]) \cup {last}
      /\ \A f \in Functions(detached'[t]) : f < last
      /\ DOMAIN detached'[t] = DOMAIN detached[t]
      /\ \A i \in DOMAIN detached'[t] : i # 1 => detached'[t][i] = detached[t][i]
  BY <1>1, TakeLast DEF OwnInv, OwnOrder
<1>3. ran'[t] = Append(ran[t], last) OBVIOUS
<1> HIDE DEF last
<1>4. /\ ran'[t] \in Seq(Nat) /\ Len(ran'[t]) = Len(ran[t]) + 1 /\ ran'[t] # << >>
      /\ DOMAIN ran'[t] = DOMAIN ran[t] \cup {Len(ran[t]) + 1}
      /\ ran'[t][Len(ran[t]) + 1] = last
      /\ \A i \in DOMAIN ran[t] : i # Len(ran[t]) + 1 /\ ran'[t][i] = ran[t][i]
  <2> DEFINE more == Append(ran[t], last)
  <2>1. /\ more \in Seq(Nat) /\ Len(more) = Len(ran[t]) + 1 /\ more # << >>
        /\ DOMAIN more = DOMAIN ran[t] \cup {Len(ran[t]) + 1}
        /\ more[Len(ran[t]) + 1] = last
        /\ \A i \in DOMAIN ran[t] : i # Len(ran[t]) + 1 /\ more[i] = ran[t][i]
    BY <1>1, <1>2, AppendFacts, ZenonT(40)
  <2>2. ran'[t] = more BY <1>3
  <2> HIDE DEF more
  <2>3. QED BY <2>1, <2>2
<1>5. Ran(t)' = Ran(t) \cup {last} BY <1>4 DEF Ran
<1>6. Functions(value[t])' = Functions(value[t]) /\ Sorted(value[t])' = Sorted(value[t])
  BY DEF Functions, Sorted
<1>7. ASSUME last \in Functions(detached'[t]) PROVE FALSE
  <2>1. last < last BY <1>2, <1>7
  <2>2. QED BY <1>2, <2>1
<1>8. ~Outside(t)' /\ Inside(t)' /\ pc'[t] \notin Making /\ pc'[t] # "gone"
  BY DEF Outside, Inside, Making
<1>9. OwnTypes(t)' BY <1>2, <1>4, <1>8 DEF OwnInv, OwnTypes
<1>10. OwnOrder(t)' BY <1>2, <1>6 DEF OwnInv, OwnOrder
<1>11. OwnAccount(t)'
  <2>1. last \notin Ran(t) /\ last \notin Functions(value[t]) BY <1>2 DEF OwnInv, OwnAccount
  <2>2. \A i \in DOMAIN ran[t] : ran[t][i] # last BY <2>1 DEF Ran
  <2>3. \A i, j \in DOMAIN ran'[t] : i # j => ran'[t][i] # ran'[t][j]
    BY <1>4, <2>2, SMTT(30) DEF OwnInv, OwnAccount
  <2>4. /\ Functions(value[t]) \cup Functions(detached'[t]) \cup Ran(t)' = 1..registered[t]
        /\ Ran(t)' \cap (Functions(value[t]) \cup Functions(detached'[t])) = {}
        /\ Functions(value[t]) \cap Functions(detached'[t]) = {}
    BY <1>2, <1>5, <1>7, <2>1, ZenonT(40) DEF OwnInv, OwnAccount
  <2>5. QED BY <1>6, <2>3, <2>4 DEF OwnAccount
<1>12. OwnNodes(t)' BY <1>2, <1>4 DEF OwnInv, OwnNodes
<1>13. OwnPhase(t)' BY <1>4, <1>8 DEF OwnInv, OwnPhase
<1>14. QED BY <1>9, <1>10, <1>11, <1>12, <1>13 DEF OwnInv

\* An empty node is freed.
LEMMA OwnFrees ==
  ASSUME NEW t, OwnInv(t), detached[t] # << >>, detached[t][1] = << >>,
         detached'[t] = Tail(detached[t]),
         UNCHANGED <<value[t], rounds[t], registered[t], ran[t]>>,
         Outside(t)' => Len(detached[t]) = 1,
         ~Inside(t)', pc'[t] \notin Making, pc'[t] # "gone"
  PROVE  OwnInv(t)'
<1>1. /\ value[t] \in Seq(Seq(Nat)) /\ detached[t] \in Seq(Seq(Nat)) /\ ran[t] \in Seq(Nat)
  BY DEF OwnInv, OwnTypes
<1>2. /\ detached'[t] \in Seq(Seq(Nat)) /\ Sorted(detached'[t])
      /\ Functions(detached'[t]) = Functions(detached[t])
      /\ \A i \in DOMAIN detached'[t] :
           i + 1 \in DOMAIN detached[t] /\ i + 1 # 1 /\ detached'[t][i] = detached[t][i + 1]
  BY <1>1, DropFirst DEF OwnInv, OwnOrder
<1>3. UNCHANGED <<Functions(value[t]), Ran(t), Sorted(value[t])>>
  BY DEF Functions, Ran, Sorted
<1>4. \A i \in DOMAIN detached'[t] : detached'[t][i] # << >>
  BY <1>2 DEF OwnInv, OwnNodes
<1>5. detached'[t] = << >> \/ detached'[t][1] # << >>
  <2>1. detached'[t] # << >> => 1 \in DOMAIN detached'[t] BY <1>2, FirstOf
  <2>2. QED BY <1>4, <2>1
<1>6. OwnTypes(t)' BY <1>2 DEF OwnInv, OwnTypes
<1>7. OwnOrder(t)' BY <1>2, <1>3 DEF OwnInv, OwnOrder
<1>8. OwnAccount(t)' BY <1>2, <1>3 DEF OwnInv, OwnAccount
<1>9. OwnNodes(t)' BY <1>4, <1>5 DEF OwnInv, OwnNodes
<1>10. OwnPhase(t)'
  <2>1. Len(detached[t]) = 1 => Tail(detached[t]) = << >> BY <1>1, FirstOf
  <2>2. QED BY <2>1 DEF OwnInv, OwnPhase
<1>11. QED BY <1>6, <1>7, <1>8, <1>9, <1>10 DEF OwnInv

\* A step of t concerns its own list only.
Alone(t) == \A u \in Threads \ {t} : UNCHANGED Own(u) /\ UNCHANGED <<pc[u], back[u]>>

LEMMA InitLists == Init => ListInv /\ ProcessInv
<1> SUFFICES ASSUME Init PROVE ListInv /\ ProcessInv
  OBVIOUS
<1>1. ASSUME NEW t \in Threads PROVE OwnInv(t)
  <2>1. /\ value[t] = << >> /\ detached[t] = << >> /\ ran[t] = << >> /\ registered[t] = 0
        /\ rounds[t] = 0 /\ pc[t] = "idle"
    BY <1>1 DEF Init
  <2>2. Functions(<< >>) = {} /\ Sorted(<< >>) BY DEF Functions, Sorted
  <2>3. Ran(t) = {} BY <2>1 DEF Ran
  <2>4. OwnTypes(t) BY <2>1, AtexitAssumption DEF OwnTypes, Making
  <2>5. OwnOrder(t) BY <2>1, <2>2 DEF OwnOrder
  <2>6. OwnAccount(t) BY <2>1, <2>2, <2>3 DEF OwnAccount
  <2>7. OwnNodes(t) BY <2>1 DEF OwnNodes
  <2>8. OwnPhase(t) BY <2>1 DEF OwnPhase, Inside, Making
  <2>9. QED BY <2>4, <2>5, <2>6, <2>7, <2>8 DEF OwnInv
<1>2. Shape BY DEF Init, Shape
<1>3. ProcessInv BY AtexitAssumption DEF Init, ProcessInv, Served
<1>4. QED BY <1>1, <1>2, <1>3 DEF ListInv

LEMMA MakingLists ==
  ASSUME NEW t \in Threads, IInv, ListInv,
         \/ CreateKey(t) \/ Publish(t) \/ DeleteKey(t) \/ RegisterHandler(t)
         \/ ThreadExit(t) \/ Exit(t) \/ Return(t) \/ Fatal(t)
  PROVE  Shape' /\ Alone(t) /\ OwnInv(t)'
<1>0. KeyTypes /\ Shape /\ OwnInv(t) BY DEF IInv, ListInv
<1>1. UNCHANGED <<value, detached, rounds, registered, ran, back>>
  BY DEF CreateKey, Publish, DeleteKey, RegisterHandler, ThreadExit, Exit, Return, Fatal
<1>2. UNCHANGED Own(t) /\ Shape' /\ (pc[t] \in Making => registered[t] < MaxRegs)
  BY <1>0, <1>1 DEF Own, Shape, OwnInv, OwnTypes
<1>3. /\ \A u \in Threads \ {t} : pc'[u] = pc[u]
      /\ \/ pc[t] \in {"create", "publish", "delete", "handler"}
            /\ pc'[t] \in {"publish", "handler", "delete", "node"}
         \/ pc[t] = "idle" /\ pc'[t] \in {"exiting", "exit"}
         \/ pc[t] = "call" /\ pc'[t] = "cleanup"
         \/ pc'[t] = pc[t] /\ pc[t] \in {"create", "node"}
  BY <1>0
  DEF CreateKey, Publish, DeleteKey, RegisterHandler, ThreadExit, Exit, Return, Fatal, Goto,
      KeyTypes
<1>4. Alone(t) BY <1>1, <1>3 DEF Alone, Own
<1>5. (Outside(t)' => Outside(t)) /\ (Inside(t)' => Inside(t)) /\ pc'[t] # "gone"
      /\ (pc'[t] \in Making => pc[t] \in Making)
  BY <1>1, <1>3 DEF Outside, Inside, Making
<1>6. OwnInv(t)' BY <1>0, <1>2, <1>5, OwnMoves
<1>7. QED BY <1>2, <1>4, <1>6

LEMMA RegisterLists ==
  ASSUME NEW t \in Threads, IInv, ListInv, Register(t)
  PROVE  Shape' /\ Alone(t) /\ OwnInv(t)'
<1>0. KeyTypes /\ Shape /\ OwnInv(t) BY DEF IInv, ListInv
<1>1. /\ pc[t] \in {"idle", "call"} /\ registered[t] < MaxRegs
      /\ UNCHANGED <<detached, rounds, ran>>
  BY DEF Register
<1>2. CASE key # NoKey /\ value[t] # << >> /\ Len(value[t][1]) < NodeSize
  <2>1. Add(t, value[t]) /\ UNCHANGED <<pc, back>> BY <1>2 DEF Register
  <2>2. Shape' BY <1>0, <1>1, <2>1 DEF Add, Shape
  <2>3. Alone(t) BY <1>0, <1>1, <2>1 DEF Alone, Own, Add, Shape
  <2>4. /\ value'[t] = <<Append(value[t][1], registered[t] + 1)>> \o Tail(value[t])
        /\ registered'[t] = registered[t] + 1
    BY <1>0, <2>1 DEF Add, Shape
  <2>5. /\ value[t] \in Seq(Seq(Nat)) /\ Sorted(value[t])
        /\ \A i \in DOMAIN value[t] : value[t][i] # << >>
    BY <1>0 DEF OwnInv, OwnTypes, OwnOrder, OwnNodes
  <2>6. (Outside(t)' => Outside(t)) /\ (Inside(t)' => Inside(t)) /\ pc'[t] = pc[t]
    BY <2>1 DEF Outside, Inside
  <2>7. OwnInv(t)' BY <1>0, <1>1, <1>2, <2>4, <2>5, <2>6, OwnAdds
  <2>8. QED BY <2>2, <2>3, <2>7
<1>3. CASE ~(key # NoKey /\ value[t] # << >> /\ Len(value[t][1]) < NodeSize)
  <2>1. /\ pc' = [pc EXCEPT ![t] = IF key = NoKey THEN "create" ELSE "node"]
        /\ back' = [back EXCEPT ![t] = pc[t]]
        /\ UNCHANGED <<value, registered>>
    BY <1>3 DEF Register, Goto
  <2>2. /\ pc'[t] \in {"create", "node"} /\ back'[t] = pc[t]
        /\ \A u \in Threads \ {t} : pc'[u] = pc[u] /\ back'[u] = back[u]
    BY <1>0, <2>1 DEF KeyTypes
  <2>3. Shape' /\ UNCHANGED Own(t) /\ Alone(t)
    BY <1>0, <1>1, <2>1, <2>2 DEF Shape, Own, Alone
  <2>4. (Outside(t)' => Outside(t)) /\ (Inside(t)' => Inside(t))
    BY <1>1, <2>2 DEF Outside, Inside, Making
  <2>5. OwnInv(t)' BY <1>0, <1>1, <2>2, <2>3, <2>4, OwnMoves
  <2>6. QED BY <2>3, <2>5
<1>4. QED BY <1>2, <1>3

LEMMA NewNodeLists ==
  ASSUME NEW t \in Threads, IInv, ListInv, NewNode(t)
  PROVE  Shape' /\ Alone(t) /\ OwnInv(t)'
<1> DEFINE nodes == <<<< >>>> \o value[t]
<1>0. KeyTypes /\ Shape /\ OwnInv(t) BY DEF IInv, ListInv
<1>1. /\ pc[t] = "node" /\ pc' = [pc EXCEPT ![t] = back[t]]
      /\ Add(t, nodes) /\ UNCHANGED <<detached, rounds, ran, back>>
  BY DEF NewNode, Goto
<1>2. /\ value[t] \in Seq(Seq(Nat)) /\ Sorted(value[t]) /\ registered[t] < MaxRegs
      /\ \A i \in DOMAIN value[t] : value[t][i] # << >>
  BY <1>0, <1>1 DEF OwnInv, OwnTypes, OwnOrder, OwnNodes, Making
<1>3. /\ nodes \in Seq(Seq(Nat)) /\ nodes # << >> /\ Sorted(nodes)
      /\ Functions(nodes) = Functions(value[t])
  BY <1>2, NewFirst
<1>4. \A i \in DOMAIN nodes : i # 1 => nodes[i] # << >>
  <2>1. \A i \in DOMAIN nodes : i # 1 => i - 1 \in DOMAIN value[t] /\ nodes[i] = value[t][i - 1]
    BY <1>2
  <2>2. QED BY <1>2, <2>1
<1> HIDE DEF nodes
<1>5. Shape' BY <1>0, <1>1 DEF Add, Shape
<1>6. /\ value'[t] = <<Append(nodes[1], registered[t] + 1)>> \o Tail(nodes)
      /\ registered'[t] = registered[t] + 1
  BY <1>0, <1>1 DEF Add, Shape
<1>7. pc'[t] = back[t] /\ \A u \in Threads \ {t} : pc'[u] = pc[u]
  BY <1>0, <1>1 DEF KeyTypes
<1>8. Alone(t) BY <1>0, <1>1, <1>7 DEF Alone, Own, Add, Shape
<1>9. /\ pc'[t] \in {"idle", "call"}
      /\ (Outside(t)' => Outside(t)) /\ (Inside(t)' => Inside(t))
  BY <1>0, <1>1, <1>7 DEF KeyTypes, Outside, Inside, Making
<1>10. OwnInv(t)' BY <1>0, <1>1, <1>2, <1>3, <1>4, <1>6, <1>9, OwnAdds
<1>11. QED BY <1>5, <1>8, <1>10

LEMMA DetachLists ==
  ASSUME NEW t \in Threads, IInv, ListInv, KeyRound(t) \/ ExitHandler(t)
  PROVE  Shape' /\ Alone(t) /\ OwnInv(t)'
<1>0. KeyTypes /\ Shape /\ OwnInv(t) BY DEF IInv, ListInv
<1>1. pc[t] \in {"exiting", "exit"} /\ UNCHANGED <<registered, ran, back>>
  BY DEF KeyRound, ExitHandler
<1>2. Outside(t) /\ detached[t] = << >> /\ rounds[t] \in 0..Iterations
  BY <1>0, <1>1 DEF Outside, OwnInv, OwnPhase, OwnTypes
<1>3. Iterations \in Nat BY AtexitAssumption
<1>4. CASE value[t] # << >> /\ detached' = [detached EXCEPT ![t] = value[t]]
  <2>1. /\ value' = [value EXCEPT ![t] = << >>] /\ pc' = [pc EXCEPT ![t] = "cleanup"]
        /\ \/ rounds' = rounds
           \/ rounds' = [rounds EXCEPT ![t] = @ + 1] /\ rounds[t] < Iterations
    <3>1. value[t] # detached[t] BY <1>2, <1>4
    <3>2. detached' # detached BY <1>0, <1>4, <3>1 DEF Shape
    <3>3. QED BY <1>4, <3>2 DEF KeyRound, ExitHandler, Goto
  <2>2. Shape' BY <1>0, <1>1, <1>4, <2>1 DEF Shape
  <2>3. /\ value'[t] = << >> /\ detached'[t] = value[t] /\ pc'[t] = "cleanup"
        /\ rounds'[t] \in {rounds[t], rounds[t] + 1} /\ rounds'[t] <= Iterations
    BY <1>0, <1>2, <1>3, <1>4, <2>1 DEF Shape, KeyTypes
  <2>4. Alone(t) BY <1>0, <1>1, <1>4, <2>1 DEF Alone, Own, Shape, KeyTypes
  <2>5. UNCHANGED <<registered[t], ran[t]>> BY <1>1
  <2>6. OwnInv(t)' BY <1>0, <1>2, <1>4, <2>3, <2>5, OwnDetaches
  <2>7. QED BY <2>2, <2>4, <2>6
<1>5. CASE ~(value[t] # << >> /\ detached' = [detached EXCEPT ![t] = value[t]])
  <2>1. /\ UNCHANGED <<value, detached, rounds>>
        /\ \/ pc' = [pc EXCEPT ![t] = "gone"] /\ (value[t] = << >> \/ ~(rounds[t] < Iterations))
           \/ pc' = pc
    BY <1>5 DEF KeyRound, ExitHandler, Goto
  <2>2. Shape' /\ UNCHANGED Own(t) BY <1>0, <1>1, <2>1 DEF Shape, Own
  <2>3. Alone(t) BY <1>0, <1>1, <2>1 DEF Alone, Own, KeyTypes
  <2>4. pc'[t] = pc[t] \/ pc'[t] = "gone" BY <1>0, <2>1 DEF KeyTypes
  <2>5. pc'[t] = "gone" => value[t] = << >> \/ rounds[t] = Iterations
    <3>1. pc[t] # "gone" BY <1>1
    <3>2. QED BY <1>2, <1>3, <2>1, <3>1
  <2>6. pc'[t] \notin Making /\ ~Inside(t)' BY <1>1, <2>4 DEF Making, Inside
  <2>7. OwnInv(t)' BY <1>0, <1>2, <2>2, <2>5, <2>6, OwnMoves
  <2>8. QED BY <2>2, <2>3, <2>7
<1>6. QED BY <1>4, <1>5

LEMMA CallLists ==
  ASSUME NEW t \in Threads, IInv, ListInv, Call(t)
  PROVE  Shape' /\ Alone(t) /\ OwnInv(t)'
<1> DEFINE node == detached[t][1]
           last == node[Len(node)]
           less == SubSeq(node, 1, Len(node) - 1)
<1>0. KeyTypes /\ Shape /\ OwnInv(t) BY DEF IInv, ListInv
<1>1. /\ pc' = [pc EXCEPT ![t] = "call"] /\ detached[t] # << >> /\ detached[t][1] # << >>
      /\ ran' = [ran EXCEPT ![t] = Append(@, last)]
      /\ detached' = [detached EXCEPT ![t][1] = less]
      /\ UNCHANGED <<value, rounds, registered, back>>
  BY DEF Call, Goto
<1> HIDE DEF node, last, less
<1>2. Shape' BY <1>0, <1>1 DEF Shape
<1>3. /\ ran'[t] = Append(ran[t], last) /\ detached'[t] = [detached[t] EXCEPT ![1] = less]
      /\ pc'[t] = "call"
  BY <1>0, <1>1 DEF Shape, KeyTypes
<1>4. Alone(t) BY <1>0, <1>1 DEF Alone, Own, Shape, KeyTypes
<1>5. OwnInv(t)' BY <1>0, <1>1, <1>3, OwnCalls DEF node, last, less
<1>6. QED BY <1>2, <1>4, <1>5

LEMMA FreeLists ==
  ASSUME NEW t \in Threads, IInv, ListInv, FreeNode(t)
  PROVE  Shape' /\ Alone(t) /\ OwnInv(t)'
<1>0. KeyTypes /\ Shape /\ OwnInv(t) BY DEF IInv, ListInv
<1>1. /\ pc[t] = "cleanup" /\ detached[t] # << >> /\ detached[t][1] = << >>
      /\ detached' = [detached EXCEPT ![t] = Tail(@)]
      /\ \/ /\ Len(detached[t]) = 1
            /\ pc' = [pc EXCEPT ![t] = IF exiting = t THEN "exit" ELSE "exiting"]
         \/ Len(detached[t]) # 1 /\ pc' = pc
      /\ UNCHANGED <<value, rounds, registered, ran, back>>
  BY DEF FreeNode, Goto
<1>2. Shape' BY <1>0, <1>1 DEF Shape
<1>3. /\ detached'[t] = Tail(detached[t]) /\ UNCHANGED <<value[t], rounds[t], registered[t], ran[t]>>
      /\ pc'[t] \in {"cleanup", "exit", "exiting"}
      /\ pc'[t] # "cleanup" => Len(detached[t]) = 1
  BY <1>0, <1>1 DEF Shape, KeyTypes
<1>4. Alone(t) BY <1>0, <1>1 DEF Alone, Own, Shape, KeyTypes
<1>5. /\ Outside(t)' => Len(detached[t]) = 1
      /\ ~Inside(t)' /\ pc'[t] \notin Making /\ pc'[t] # "gone"
  BY <1>3 DEF Outside, Inside, Making
<1>6. OwnInv(t)' BY <1>0, <1>1, <1>3, <1>5, OwnFrees
<1>7. QED BY <1>2, <1>4, <1>6

LEMMA StepLists ==
  ASSUME NEW t \in Threads, IInv, ListInv, Step(t) \/ Program(t)
  PROVE  Alone(t) /\ ListInv'
<1>1. Shape' /\ Alone(t) /\ OwnInv(t)'
  BY MakingLists, RegisterLists, NewNodeLists, DetachLists, CallLists, FreeLists
  DEF Step, Program
<1>2. ASSUME NEW u \in Threads \ {t} PROVE OwnInv(u)'
  <2>1. OwnInv(u) /\ UNCHANGED Own(u) /\ UNCHANGED <<pc[u], back[u]>>
    BY <1>1 DEF ListInv, Alone
  <2>2. QED BY <2>1, OwnFrame
<1>3. QED BY <1>1, <1>2 DEF ListInv

\* A step which concerns neither the key of the process nor its handler.
LEMMA ProcessMoves ==
  ASSUME NEW t \in Threads, ProcessInv, Alone(t), UNCHANGED <<key, handlers, exiting>>,
         ended' \in {"no", "fatal"},
         pc'[t] \in {"delete", "handler", "node"} => key # NoKey,
         registered'[t] > 0 => key # NoKey,
         pc'[t] = "handler" <=> pc[t] = "handler",
         exiting = t =>
           /\ pc'[t] \in {"exit", "cleanup"} \/ Inside(t)'
           /\ registered'[t] = registered[t] \/ ran'[t] # << >>
           /\ ran[t] # << >> => ran'[t] # << >>
           /\ detached[t] # << >> => detached'[t] # << >> \/ ran'[t] # << >>
  PROVE  ProcessInv'
<1>1. \A u \in Threads \ {t} : UNCHANGED <<pc[u], registered[u], ran[u], detached[u], Inside(u)>>
  BY DEF Alone, Own, Inside
<1>2. Served' BY <1>1 DEF ProcessInv, Served
<1>3. (\A u \in Threads : exiting = u => pc[u] \in {"exit", "cleanup"} \/ Inside(u))'
  BY <1>1 DEF ProcessInv
<1>4. (\A u \in Threads : /\ pc[u] \in {"delete", "handler", "node"} => key # NoKey
                          /\ registered[u] > 0 => key # NoKey)'
  BY <1>1 DEF ProcessInv
<1>5. QED BY <1>2, <1>3, <1>4 DEF ProcessInv

LEMMA MovesProcess ==
  ASSUME NEW t \in Threads, IInv, ListInv, ProcessInv, Alone(t), ended = "no",
         \/ CreateKey(t) \/ DeleteKey(t) \/ ThreadExit(t) \/ Return(t) \/ Fatal(t)
         \/ Register(t) \/ NewNode(t) \/ KeyRound(t) \/ Call(t) \/ FreeNode(t)
  PROVE  ProcessInv'
<1> USE DEF Goto
<1>0. KeyTypes /\ Shape /\ OwnInv(t) BY DEF IInv, ListInv
<1>1. /\ exiting = t => pc[t] \in {"exit", "cleanup"} \/ Inside(t)
      /\ pc[t] \in {"delete", "handler", "node"} => key # NoKey
      /\ registered[t] > 0 => key # NoKey
      /\ Inside(t) => ran[t] # << >>
  BY <1>0 DEF ProcessInv, OwnInv, OwnPhase
<1>2. UNCHANGED <<key, handlers, exiting>> /\ ended' \in {"no", "fatal"}
  BY DEF CreateKey, DeleteKey, ThreadExit, Return, Fatal, Register, NewNode, KeyRound, Call,
         FreeNode
<1>3. CASE CreateKey(t) \/ DeleteKey(t) \/ ThreadExit(t) \/ Return(t) \/ Fatal(t)
  <2>1. UNCHANGED <<registered, ran, detached, back>>
    BY <1>3 DEF CreateKey, DeleteKey, ThreadExit, Return, Fatal
  <2>2. \/ pc[t] = "create" /\ pc'[t] = "publish"
        \/ pc[t] = "delete" /\ pc'[t] = "node"
        \/ pc[t] = "idle" /\ pc'[t] = "exiting"
        \/ pc[t] = "call" /\ pc'[t] = "cleanup"
        \/ pc'[t] = pc[t]
    BY <1>0, <1>3 DEF CreateKey, DeleteKey, ThreadExit, Return, Fatal, KeyTypes
  <2>3. exiting = t => pc'[t] \in {"exit", "cleanup"} \/ Inside(t)'
    BY <1>1, <2>1, <2>2 DEF Inside, Making
  <2>4. QED BY <1>1, <1>2, <2>1, <2>2, <2>3, ProcessMoves
<1>4. CASE Register(t) \/ NewNode(t)
  <2>1. UNCHANGED <<ran, detached>> BY <1>4 DEF Register, NewNode
  <2>2. exiting = t => Inside(t) BY <1>1, <1>4 DEF Register, NewNode
  <2>3. \/ pc[t] \in {"idle", "call"} /\ pc' = pc /\ back' = back /\ key # NoKey
        \/ /\ pc[t] \in {"idle", "call"} /\ back'[t] = pc[t] /\ registered' = registered
           /\ pc'[t] = IF key = NoKey THEN "create" ELSE "node"
        \/ pc[t] = "node" /\ pc'[t] = back[t] /\ back' = back
    BY <1>0, <1>4 DEF Register, NewNode, KeyTypes
  <2>4. back[t] \in {"idle", "call"} BY <1>0 DEF KeyTypes
  <2>5. Inside(t) => Inside(t)' BY <2>3, <2>4 DEF Inside, Making
  <2>6. registered'[t] > 0 => key # NoKey BY <1>1, <2>3
  <2>7. pc'[t] \in {"delete", "handler", "node"} => key # NoKey BY <1>1, <2>3, <2>4
  <2>8. pc'[t] # "handler" /\ pc[t] # "handler" BY <2>3, <2>4
  <2>9. QED BY <1>1, <1>2, <2>1, <2>2, <2>5, <2>6, <2>7, <2>8, ProcessMoves
<1>5. CASE KeyRound(t)
  <2>1. exiting # t BY <1>1, <1>5 DEF KeyRound, Inside, Making
  <2>2. pc[t] = "exiting" /\ pc'[t] \in {"cleanup", "gone"} /\ registered' = registered
    BY <1>0, <1>5 DEF KeyRound, KeyTypes
  <2>3. QED BY <1>1, <1>2, <2>1, <2>2, ProcessMoves
<1>6. CASE Call(t)
  <2>1. pc[t] = "cleanup" /\ pc'[t] = "call" /\ registered' = registered
    BY <1>0, <1>6 DEF Call, KeyTypes
  <2>2. ran[t] \in Seq(Nat) BY <1>0 DEF OwnInv, OwnTypes
  <2>3. \E f : ran' = [ran EXCEPT ![t] = Append(@, f)] BY <1>6 DEF Call
  <2>4. \E f : ran'[t] = Append(ran[t], f) BY <1>0, <2>3 DEF Shape
  <2>5. ran'[t] # << >> BY <2>2, <2>4
  <2>6. Inside(t)' BY <2>1 DEF Inside
  <2>7. QED BY <1>1, <1>2, <2>1, <2>5, <2>6, ProcessMoves
<1>7. CASE FreeNode(t)
  <2>1. /\ pc[t] = "cleanup" /\ registered' = registered /\ ran' = ran
        /\ detached[t] # << >> /\ detached[t][1] = << >>
        /\ pc'[t] = "cleanup" \/ pc'[t] = IF exiting = t THEN "exit" ELSE "exiting"
    BY <1>0, <1>7 DEF FreeNode, KeyTypes
  <2>2. ran[t] # << >> BY <1>0, <2>1 DEF OwnInv, OwnNodes
  <2>3. QED BY <1>1, <1>2, <2>1, <2>2, ProcessMoves
<1>8. QED BY <1>3, <1>4, <1>5, <1>6, <1>7

LEMMA PublishProcess ==
  ASSUME NEW t \in Threads, IInv, ListInv, ProcessInv, Alone(t), ended = "no",
         Publish(t) \/ RegisterHandler(t)
  PROVE  ProcessInv'
<1>0. KeyTypes /\ KeyValid /\ OneHandler BY DEF IInv
<1>1. /\ UNCHANGED <<exiting, ended, back, registered, ran, detached>>
      /\ pc[t] \in {"publish", "handler"} /\ pc'[t] \in {"handler", "delete", "node"}
  BY <1>0 DEF Publish, RegisterHandler, Goto, KeyTypes
<1>2. key' # NoKey /\ (key # NoKey => key' = key)
  <2>1. CASE Publish(t)
    <3>1. Creating(t) /\ mine[t] \in Keys
      BY <1>0, <2>1 DEF Publish, Creating, KeyValid, KeyTypes
    <3>2. QED BY <2>1, <3>1, AtexitAssumption DEF Publish
  <2>2. CASE RegisterHandler(t)
    BY <2>2 DEF RegisterHandler, ProcessInv
  <2>3. QED BY <2>1, <2>2
<1>3. \A u \in Threads \ {t} : UNCHANGED <<pc[u], registered[u], Inside(u)>>
  BY DEF Alone, Own, Inside
<1>4. Inside(t) => Inside(t)' BY <1>1 DEF Inside, Making
<1>5. (\A u \in Threads : exiting = u => pc[u] \in {"exit", "cleanup"} \/ Inside(u))'
  BY <1>1, <1>3, <1>4 DEF ProcessInv
<1>6. Served'
  <2>1. CASE Publish(t)
    <3>1. CASE key = NoKey
      <4>1. pc'[t] = "handler" BY <1>0, <2>1, <3>1 DEF Publish, Goto, KeyTypes
      <4>2. QED BY <4>1 DEF Served
    <3>2. CASE key # NoKey
      <4>1. UNCHANGED <<key, handlers>> /\ pc[t] # "handler"
        BY <2>1, <3>2 DEF Publish
      <4>2. QED BY <1>1, <1>3, <4>1 DEF ProcessInv, Served
    <3>3. QED BY <3>1, <3>2
  <2>2. CASE RegisterHandler(t)
    <3>1. handlers' # 0 BY <1>0, <2>2 DEF RegisterHandler, KeyTypes
    <3>2. QED BY <3>1 DEF Served
  <2>3. QED BY <2>1, <2>2
<1>7. QED BY <1>1, <1>2, <1>5, <1>6 DEF ProcessInv

LEMMA ExitProcess ==
  ASSUME NEW t \in Threads, IInv, ListInv, ProcessInv, Alone(t), ended = "no", Exit(t)
  PROVE  ProcessInv'
<1>0. KeyTypes /\ OneHandler BY DEF IInv
<1>1. /\ pc[t] = "idle" /\ pc'[t] = "exit" /\ exiting = NoThread /\ exiting' = t
      /\ UNCHANGED <<key, handlers, ended, registered>>
  BY <1>0 DEF Exit, Goto, KeyTypes
<1>2. \A u \in Threads \ {t} : pc'[u] = pc[u] BY DEF Alone
<1>3. Served'
  <2>1. \A u \in Threads : pc'[u] # "handler" <=> pc[u] # "handler" BY <1>1, <1>2
  <2>2. ~(key # NoKey /\ handlers = 0 /\ \A u \in Threads : pc[u] # "handler")
    BY <1>0, <1>1 DEF OneHandler
  <2>3. QED BY <1>1, <2>1, <2>2 DEF Served
<1>4. (\A u \in Threads : /\ pc[u] \in {"delete", "handler", "node"} => key # NoKey
                          /\ registered[u] > 0 => key # NoKey)'
  BY <1>1, <1>2 DEF ProcessInv
<1>5. QED BY <1>1, <1>3, <1>4 DEF ProcessInv

LEMMA ExitHandlerProcess ==
  ASSUME NEW t \in Threads, IInv, ListInv, ProcessInv, Alone(t), ended = "no", ExitHandler(t)
  PROVE  ProcessInv'
<1>0. KeyTypes /\ ExitingExits /\ Shape /\ OwnInv(t) BY DEF IInv, ListInv
<1>1. /\ pc[t] = "exit" /\ exiting = t /\ t # NoThread
      /\ UNCHANGED <<key, exiting, registered, ran>>
  BY <1>0, AtexitAssumption DEF ExitHandler, ExitingExits
<1>2. \A u \in Threads \ {t} : pc'[u] = pc[u] BY DEF Alone
<1>3. \/ handlers = 0 /\ handlers' = 0 /\ ended' = "exit" /\ pc' = pc /\ detached' = detached
      \/ value[t] = << >> /\ pc' = pc /\ detached' = detached /\ ended' = ended
      \/ value[t] # << >> /\ pc'[t] = "cleanup" /\ detached'[t] = value[t] /\ ended' = ended
  BY <1>0 DEF ExitHandler, Goto, KeyTypes, Shape
<1>4. registered[t] = 0 \/ ran[t] # << >> \/ value[t] # << >> \/ detached[t] # << >>
  <2>1. SUFFICES ASSUME registered[t] # 0, value[t] = << >>, detached[t] = << >>
                 PROVE  ran[t] # << >>
    OBVIOUS
  <2>2. Functions(<< >>) = {} BY DEF Functions
  <2>empty. Functions(value[t]) = {} /\ Functions(detached[t]) = {} BY <2>1, <2>2
  <2>3. Ran(t) = 1..registered[t] /\ registered[t] \in Nat
    <3>1. Functions(value[t]) \cup Functions(detached[t]) \cup Ran(t) = 1..registered[t]
      BY <1>0 DEF OwnInv, OwnAccount
    <3>2. QED BY <1>0, <2>empty, <3>1 DEF OwnInv, OwnTypes
  <2>4. 1 \in Ran(t) BY <2>1, <2>3
  <2>5. QED BY <2>4 DEF Ran
<1>5. Served'
  <2>1. SUFFICES ASSUME key' # NoKey, handlers' = 0, \A u \in Threads : pc'[u] # "handler"
                 PROVE  registered'[t] = 0 \/ ran'[t] # << >> \/ detached'[t] # << >>
    BY <1>1 DEF Served
  <2>2. \A u \in Threads : pc[u] # "handler" BY <1>1, <1>2, <2>1
  <2>3. CASE handlers = 0
    <3>1. registered[t] = 0 \/ ran[t] # << >> \/ detached[t] # << >>
      BY <1>1, <2>1, <2>2, <2>3 DEF ProcessInv, Served
    <3>2. QED BY <1>1, <1>3, <3>1
  <2>4. CASE handlers # 0 BY <1>1, <1>3, <1>4, <2>4
  <2>5. QED BY <2>3, <2>4
<1>6. (\A u \in Threads : exiting = u => pc[u] \in {"exit", "cleanup"} \/ Inside(u))'
  BY <1>1, <1>3
<1>7. (\A u \in Threads : /\ pc[u] \in {"delete", "handler", "node"} => key # NoKey
                          /\ registered[u] > 0 => key # NoKey)'
  BY <1>1, <1>2, <1>3 DEF ProcessInv
<1>8. QED BY <1>1, <1>3, <1>5, <1>6, <1>7 DEF ProcessInv

LEMMA NextLists == IInv /\ ListInv /\ ProcessInv /\ [Next]_vars => ListInv' /\ ProcessInv'
<1> SUFFICES ASSUME IInv, ListInv, ProcessInv, [Next]_vars PROVE ListInv' /\ ProcessInv'
  OBVIOUS
<1>1. CASE Next
  <2>1. PICK t \in Threads : Step(t) \/ Program(t) BY <1>1 DEF Next
  <2>2. Alone(t) /\ ListInv' BY <2>1, StepLists
  <2>3. ended = "no" BY <2>1 DEF Step, Program
  <2>4. ProcessInv'
    BY <2>1, <2>2, <2>3, MovesProcess, PublishProcess, ExitProcess, ExitHandlerProcess
    DEF Step, Program
  <2>5. QED BY <2>2, <2>4
<1>2. CASE UNCHANGED vars
  <2>1. \A t \in Threads : UNCHANGED Own(t) /\ UNCHANGED <<pc[t], back[t], Inside(t)>>
    BY <1>2 DEF vars, Own, Inside
  <2>2. ListInv'
    <3>1. Shape' BY <1>2 DEF vars, ListInv, Shape
    <3>2. \A t \in Threads : OwnInv(t)' BY <2>1, OwnFrame DEF ListInv
    <3>3. QED BY <3>1, <3>2 DEF ListInv
  <2>3. ProcessInv' BY <1>2, <2>1 DEF vars, ProcessInv, Served
  <2>4. QED BY <2>2, <2>3
<1>3. QED BY <1>1, <1>2

\* What the lists, the handler and the ends of the threads are at every step.
THEOREM ListsCorrect == Spec => [](ListInv /\ ProcessInv)
<1>1. QED BY InitInv, NextInv, InitLists, NextLists, PTL DEF Spec

\* No registration is lost and none is run twice, whatever is registered from within a
\* function that is run, in the midst of the steps of the other threads.
THEOREM AccountedCorrect == Spec => []Accounted
<1>1. ListInv => Accounted BY DEF ListInv, OwnInv, OwnAccount, Accounted
<1>2. QED BY <1>1, ListsCorrect, PTL

\* cleanup_node calls the newest function of the whole list, across its nodes.
THEOREM NewestFirstCorrect == Spec => NewestFirst
<1>1. ASSUME ListInv, NEW t \in Threads, Call(t), NEW f \in Functions(detached[t])
      PROVE  f <= ran'[t][Len(ran'[t])]
  <2> DEFINE node == detached[t][1]
             last == node[Len(node)]
             rest == [detached[t] EXCEPT ![1] = SubSeq(node, 1, Len(node) - 1)]
  <2>1. /\ Shape /\ Sorted(detached[t]) /\ detached[t] \in Seq(Seq(Nat)) /\ ran[t] \in Seq(Nat)
    BY <1>1 DEF ListInv, OwnInv, OwnTypes, OwnOrder
  <2>2. /\ detached[t] # << >> /\ node # << >> /\ ran' = [ran EXCEPT ![t] = Append(@, last)]
    BY <1>1 DEF Call
  <2>3. /\ last \in Nat /\ Functions(detached[t]) = Functions(rest) \cup {last}
        /\ \A g \in Functions(rest) : g < last
    BY <2>1, <2>2, TakeLast
  <2> HIDE DEF last, rest
  <2>newest. f \in Nat /\ (f = last \/ f < last) BY <1>1, <2>1, <2>3, FunctionsNat
  <2>4. ran'[t] = Append(ran[t], last) BY <2>1, <2>2 DEF Shape
  <2>5. ran'[t][Len(ran'[t])] = last BY <2>1, <2>3, <2>4
  <2>6. QED BY <2>3, <2>5, <2>newest
<1>2. ListInv /\ [Next]_vars =>
        [\A t \in Threads : Call(t) =>
           \A f \in Functions(detached[t]) : f <= ran'[t][Len(ran'[t])]]_vars
  BY <1>1
<1>3. QED BY <1>2, ListsCorrect, PTL DEF Spec, NewestFirst

-----------------------------------------------------------------------------
(* When a function was registered, and so whether a round comes after it.    *)

\* The thread has not ended, and has not called exit.
AtWork(t) == pc[t] = "idle" \/ (pc[t] \in Making /\ back[t] = "idle")

\* The thread has called exit, which has not run anything yet.
Waiting(t) == exiting = t /\ pc[t] = "exit" /\ ran[t] = << >>

\* What is in the list of a thread was registered in the round that the thread is in.
DuringOf(t) ==
  /\ during[t] \in Seq(0..Iterations) /\ Len(during[t]) = registered[t]
  /\ AtWork(t) => rounds[t] = 0 /\ ran[t] = << >>
  /\ \A f \in Functions(value[t]) : during[t][f] = Pass(t) \/ Waiting(t)

DuringInv ==
  /\ during = [t \in Threads |-> during[t]]
  /\ \A t \in Threads : DuringOf(t)

LEMMA InitDuring == Init => DuringInv
<1> SUFFICES ASSUME Init PROVE DuringInv
  OBVIOUS
<1>1. Functions(<< >>) = {} BY DEF Functions
<1>2. << >> \in Seq(0..Iterations) /\ Len(<< >>) = 0 OBVIOUS
<1>3. ASSUME NEW t \in Threads PROVE DuringOf(t)
  <2>1. /\ value[t] = << >> /\ during[t] = << >> /\ registered[t] = 0 /\ rounds[t] = 0
        /\ ran[t] = << >>
    BY DEF Init
  <2>2. QED BY <1>1, <1>2, <2>1 DEF DuringOf
<1>4. QED BY <1>3 DEF Init, DuringInv

\* A thread whose list and rounds stay as they are, in a step of its own or not.
LEMMA DuringMoves ==
  ASSUME NEW t, DuringOf(t),
         UNCHANGED <<value[t], during[t], registered[t], rounds[t], ran[t]>>,
         exiting' = t <=> exiting = t,
         Waiting(t) => pc'[t] = "exit" \/ value[t] = << >>,
         AtWork(t)' => AtWork(t)
  PROVE  DuringOf(t)'
<1>1. Functions(<< >>) = {} BY DEF Functions
<1>2. Functions(value[t])' = Functions(value[t]) BY DEF Functions
<1>3. Pass(t)' = Pass(t) BY DEF Pass
<1>4. Waiting(t) => Waiting(t)' \/ Functions(value[t]) = {} BY <1>1 DEF Waiting
<1>5. \A f \in Functions(value[t])' : during'[t][f] = Pass(t)' \/ Waiting(t)'
  BY <1>2, <1>3, <1>4 DEF DuringOf
<1>6. QED BY <1>5 DEF DuringOf

\* A function is added.  What it shares the list with was registered in the same round,
\* because what an earlier one had registered has been taken out.
LEMMA DuringAdds ==
  ASSUME NEW t, DuringOf(t), OwnInv(t), OwnInv(t)',
         registered'[t] = registered[t] + 1, during'[t] = Append(during[t], Pass(t)),
         UNCHANGED <<exiting, detached[t], rounds[t], ran[t]>>,
         ~Waiting(t), AtWork(t)' => AtWork(t)
  PROVE  DuringOf(t)'
<1> DEFINE n == registered[t]
<1>1. n \in Nat /\ Iterations \in Nat /\ rounds[t] \in 0..Iterations
  BY AtexitAssumption DEF OwnInv, OwnTypes
<1>2. Pass(t) \in 0..Iterations /\ Pass(t)' = Pass(t) BY <1>1 DEF Pass
<1>3. during[t] \in Seq(0..Iterations) /\ Len(during[t]) = n BY DEF DuringOf
<1>4. /\ during'[t] \in Seq(0..Iterations) /\ Len(during'[t]) = n + 1
      /\ during'[t][n + 1] = Pass(t)
      /\ \A f \in 1..n : during'[t][f] = during[t][f]
  BY <1>2, <1>3
<1>5. Functions(detached[t])' = Functions(detached[t]) /\ Ran(t)' = Ran(t)
  BY DEF Functions, Ran
<1>6. ASSUME NEW f \in Functions(value[t])'
      PROVE  f = n + 1 \/ (f \in 1..n /\ f \in Functions(value[t]))
  <2>1. /\ f \in 1..(n + 1) /\ f \notin Ran(t) /\ f \notin Functions(detached[t])
    BY <1>5, <1>6 DEF OwnInv, OwnAccount
  <2>2. f = n + 1 \/ f \in 1..n BY <1>1, <2>1
  <2>3. f \in 1..n => f \in Functions(value[t]) BY <2>1 DEF OwnInv, OwnAccount
  <2>4. QED BY <2>2, <2>3
<1>7. \A f \in Functions(value[t])' : during'[t][f] = Pass(t)'
  <2> SUFFICES ASSUME NEW f \in Functions(value[t])' PROVE during'[t][f] = Pass(t)'
    OBVIOUS
  <2>1. CASE f = n + 1 BY <1>2, <1>4, <2>1
  <2>2. CASE f \in 1..n /\ f \in Functions(value[t])
    <3>1. during[t][f] = Pass(t) BY <2>2 DEF DuringOf
    <3>2. during'[t][f] = during[t][f] BY <1>4, <2>2
    <3>3. QED BY <1>2, <3>1, <3>2
  <2>3. QED BY <1>6, <2>1, <2>2
<1>8. QED BY <1>4, <1>7 DEF DuringOf

LEMMA StepDuring ==
  ASSUME NEW t \in Threads, IInv, ListInv, ListInv', ProcessInv, DuringInv, Alone(t),
         Step(t) \/ Program(t)
  PROVE  DuringInv'
<1> USE DEF Goto
<1>0. /\ KeyTypes /\ ExitingExits /\ Shape /\ OwnInv(t) /\ OwnInv(t)' /\ DuringOf(t)
      /\ during = [u \in Threads |-> during[u]]
  BY DEF IInv, ListInv, DuringInv
<1>exit. exiting = t => pc[t] \in {"exit", "cleanup"} \/ Inside(t)
  BY DEF ProcessInv
<1>others. ASSUME NEW u \in Threads \ {t} PROVE DuringOf(u)'
  <2>1. UNCHANGED <<value[u], registered[u], rounds[u], ran[u], pc[u], back[u]>>
    BY DEF Alone, Own
  <2>2. during'[u] = during[u]
    BY <1>0
    DEF Step, Program, Register, CreateKey, Publish, DeleteKey, RegisterHandler, NewNode, Add,
        Fatal, ThreadExit, KeyRound, Exit, ExitHandler, Call, Return, FreeNode
  <2>3. exiting' = u <=> exiting = u
    BY AtexitAssumption
    DEF Step, Program, Register, CreateKey, Publish, DeleteKey, RegisterHandler, NewNode,
        Fatal, ThreadExit, KeyRound, Exit, ExitHandler, Call, Return, FreeNode
  <2>4. /\ AtWork(u)' => AtWork(u)
        /\ Waiting(u) => pc'[u] = "exit"
    BY <2>1 DEF AtWork, Waiting
  <2>5. DuringOf(u) BY DEF DuringInv
  <2>6. QED BY <2>1, <2>2, <2>3, <2>4, <2>5, DuringMoves
<1> SUFFICES DuringOf(t)' /\ during' = [u \in Threads |-> during'[u]]
  BY <1>others DEF DuringInv
\* The steps which leave the list, the rounds and exit alone.
<1>1. ASSUME UNCHANGED <<value, during, registered, rounds, ran, exiting>>,
             Waiting(t) => pc'[t] = "exit" \/ value[t] = << >>, AtWork(t)' => AtWork(t)
      PROVE  DuringOf(t)' /\ during' = [u \in Threads |-> during'[u]]
  BY <1>0, <1>1, DuringMoves
<1>2. CASE CreateKey(t) \/ Publish(t) \/ DeleteKey(t) \/ RegisterHandler(t) \/ ThreadExit(t)
           \/ Return(t) \/ Fatal(t)
  <2>1. UNCHANGED <<value, during, registered, rounds, ran, exiting, back>>
    BY <1>2 DEF CreateKey, Publish, DeleteKey, RegisterHandler, ThreadExit, Return, Fatal
  <2>2. \/ pc[t] \in Making /\ pc'[t] \in Making
        \/ pc[t] = "idle" /\ pc'[t] = "exiting"
        \/ pc[t] = "call" /\ pc'[t] = "cleanup"
    BY <1>0, <1>2
    DEF CreateKey, Publish, DeleteKey, RegisterHandler, ThreadExit, Return, Fatal, KeyTypes, Making
  <2>3. pc[t] # "exit" /\ (AtWork(t)' => AtWork(t)) BY <2>1, <2>2 DEF AtWork, Making
  <2>4. QED BY <1>1, <2>1, <2>3 DEF Waiting
<1>3. CASE FreeNode(t)
  <2>1. /\ UNCHANGED <<value, during, registered, rounds, ran, exiting, back>>
        /\ pc[t] = "cleanup" /\ pc'[t] \in {"cleanup", "exit", "exiting"}
    BY <1>0, <1>3 DEF FreeNode, KeyTypes
  <2>2. QED BY <1>1, <2>1 DEF Waiting, AtWork, Making
<1>4. CASE Exit(t)
  <2>1. /\ UNCHANGED <<value, during, registered, rounds, ran>>
        /\ pc[t] = "idle" /\ pc'[t] = "exit" /\ exiting' = t
    BY <1>0, <1>4 DEF Exit, KeyTypes
  <2>2. ran[t] = << >> BY <1>0, <2>1 DEF DuringOf, AtWork
  <2>3. Waiting(t)' /\ ~AtWork(t)' BY <2>1, <2>2 DEF Waiting, AtWork, Making
  <2>4. QED BY <1>0, <2>1, <2>3 DEF DuringOf
<1>5. CASE Call(t)
  <2>1. /\ UNCHANGED <<value, during, registered, rounds, exiting>>
        /\ pc[t] = "cleanup" /\ pc'[t] = "call"
    BY <1>0, <1>5 DEF Call, KeyTypes
  <2>2. ~AtWork(t)' /\ ~Waiting(t) BY <2>1 DEF Waiting, AtWork, Making
  <2>3. Functions(value[t])' = Functions(value[t]) /\ Pass(t)' = Pass(t)
    BY <2>1 DEF Functions, Pass
  <2>4. QED BY <1>0, <2>1, <2>2, <2>3 DEF DuringOf
<1>6. CASE KeyRound(t) \/ ExitHandler(t)
  <2>1. UNCHANGED <<during, registered, ran, exiting>> /\ pc[t] \in {"exiting", "exit"}
    BY <1>6 DEF KeyRound, ExitHandler
  <2>2. \/ value'[t] = << >> /\ pc'[t] = "cleanup"
        \/ UNCHANGED <<value, rounds>> /\ pc'[t] = "gone" /\ pc[t] = "exiting"
        \/ UNCHANGED <<value, rounds>> /\ pc'[t] = pc[t]
    BY <1>0, <1>6 DEF KeyRound, ExitHandler, KeyTypes, Shape
  <2>3. ~AtWork(t)' BY <2>1, <2>2 DEF AtWork, Making
  <2>4. CASE value'[t] = << >> /\ pc'[t] = "cleanup"
    <3>1. Functions(<< >>) = {} BY DEF Functions
    <3>2. Functions(value[t])' = {} BY <2>4, <3>1 DEF Functions
    <3>3. QED BY <1>0, <2>1, <2>3, <3>2 DEF DuringOf
  <2>5. CASE UNCHANGED <<value, rounds>> /\ pc'[t] \in {"gone", pc[t]} /\ (pc[t] = "exit" => pc'[t] = "exit")
    <3>1. Waiting(t) => pc'[t] = "exit" BY <2>5 DEF Waiting
    <3>2. QED BY <1>1, <2>1, <2>3, <2>5, <3>1
  <2>6. QED BY <2>2, <2>4, <2>5
<1>7. CASE Register(t) \/ NewNode(t)
  <2>1. /\ UNCHANGED <<detached, rounds, ran, exiting>>
        /\ \/ /\ pc[t] \in {"idle", "call"} /\ pc' = pc /\ back' = back
              /\ \E nodes : Add(t, nodes)
           \/ /\ pc[t] \in {"idle", "call"} /\ pc'[t] \in {"create", "node"} /\ back'[t] = pc[t]
              /\ UNCHANGED <<value, registered, during>>
           \/ /\ pc[t] = "node" /\ pc'[t] = back[t] /\ back' = back
              /\ \E nodes : Add(t, nodes)
    BY <1>0, <1>7 DEF Register, NewNode, KeyTypes
  <2>2. back[t] \in {"idle", "call"} BY <1>0 DEF KeyTypes
  <2>3. ~Waiting(t) /\ (AtWork(t)' => AtWork(t)) BY <2>1, <2>2 DEF Waiting, AtWork, Making
  <2>4. CASE UNCHANGED <<value, registered, during>> BY <1>1, <2>1, <2>3, <2>4
  <2>5. ASSUME NEW nodes, Add(t, nodes)
        PROVE  DuringOf(t)' /\ during' = [u \in Threads |-> during'[u]]
    <3>1. /\ registered' = [registered EXCEPT ![t] = @ + 1]
          /\ during' = [during EXCEPT ![t] = Append(@, Pass(t))]
      BY <2>5 DEF Add
    <3>2. registered'[t] = registered[t] + 1 BY <1>0, <3>1 DEF Shape
    <3>3. /\ during'[t] = Append(during[t], Pass(t))
          /\ during' = [u \in Threads |-> during'[u]]
      BY <1>0, <3>1
    <3>4. UNCHANGED <<exiting, detached[t], rounds[t], ran[t]>> BY <2>1
    <3>5. QED BY <1>0, <2>3, <3>2, <3>3, <3>4, DuringAdds
  <2>6. QED BY <2>1, <2>4, <2>5
<1>8. QED BY <1>2, <1>3, <1>4, <1>5, <1>6, <1>7 DEF Step, Program

LEMMA NextDuring ==
  IInv /\ ListInv /\ ProcessInv /\ DuringInv /\ [Next]_vars => DuringInv'
<1> SUFFICES ASSUME IInv, ListInv, ProcessInv, DuringInv, [Next]_vars PROVE DuringInv'
  OBVIOUS
<1>1. CASE Next
  <2>1. PICK t \in Threads : Step(t) \/ Program(t) BY <1>1 DEF Next
  <2>2. Alone(t) /\ ListInv' BY <2>1, StepLists
  <2>3. QED BY <2>1, <2>2, StepDuring
<1>2. CASE UNCHANGED vars
  <2>1. \A t \in Threads : DuringOf(t)'
    BY <1>2, DuringMoves DEF vars, DuringInv, AtWork, Waiting
  <2>2. QED BY <1>2, <2>1 DEF vars, DuringInv
<1>3. QED BY <1>1, <1>2

\* What is in a list, at any moment, was registered in the round that is being run.
THEOREM DuringCorrect == Spec => []DuringInv
<1>1. QED BY InitDuring, NextDuring, InvCorrect, ListsCorrect, PTL DEF Spec

\* The values of the variables, and the bounds on the registrations and rounds.
THEOREM TypeCorrect == Spec => []TypeOK
<1>1. IInv /\ ListInv /\ ProcessInv /\ DuringInv => TypeOK
  <2> SUFFICES ASSUME IInv, ListInv, ProcessInv, DuringInv PROVE TypeOK
    OBVIOUS
  <2>1. \A t \in Threads : OwnTypes(t) BY DEF ListInv, OwnInv
  <2>2. /\ value \in [Threads -> Seq(Seq(Nat))] /\ detached \in [Threads -> Seq(Seq(Nat))]
        /\ rounds \in [Threads -> 0..Iterations] /\ registered \in [Threads -> 0..MaxRegs]
        /\ ran \in [Threads -> Seq(Nat)]
    BY <2>1 DEF ListInv, Shape, OwnTypes
  <2>3. key \in Keys \cup {NoKey} BY DEF IInv, KeyValid, KeyTypes
  <2>4. during \in [Threads -> Seq(0..Iterations)] BY DEF DuringInv, DuringOf
  <2>5. QED BY <2>2, <2>3, <2>4 DEF TypeOK, IInv, KeyTypes, ProcessInv
<1>2. QED BY <1>1, InvCorrect, ListsCorrect, DuringCorrect, PTL

\* What is still in the list of a thread which has ended was registered in the last round.
LEMMA ThreadEndRunsHolds == ListInv /\ ProcessInv /\ DuringInv => ThreadEndRuns
<1> SUFFICES ASSUME ListInv, ProcessInv, DuringInv, NEW t \in Threads, pc[t] = "gone",
                    NEW f \in Due(t)
             PROVE  f \in Ran(t)
  BY DEF ThreadEndRuns
<1>1. OwnInv(t) /\ DuringOf(t) BY DEF ListInv, DuringInv
<1>2. detached[t] = << >> /\ (value[t] = << >> \/ rounds[t] = Iterations)
  BY <1>1 DEF OwnInv, OwnPhase, Outside
<1>3. exiting # t BY DEF ProcessInv, Inside, Making
<1>4. Functions(<< >>) = {} BY DEF Functions
<1>5. f \in 1..registered[t] /\ during[t][f] < Iterations BY DEF Due
<1>6. f \notin Functions(value[t])
  <2>1. SUFFICES ASSUME f \in Functions(value[t]), rounds[t] = Iterations PROVE FALSE
    BY <1>2, <1>4
  <2>2. during[t][f] = Iterations BY <1>1, <1>3, <2>1 DEF DuringOf, Pass, Waiting
  <2>3. Iterations \in Nat BY AtexitAssumption
  <2>4. QED BY <1>5, <2>2, <2>3
<1>7. QED BY <1>1, <1>2, <1>4, <1>5, <1>6 DEF OwnInv, OwnAccount

\* What is still in the list of the thread which has exited was registered meanwhile.
LEMMA ExitRunsHolds == ListInv /\ ProcessInv /\ DuringInv => ExitRuns
<1> SUFFICES ASSUME ListInv, ProcessInv, DuringInv, ended = "exit",
                    \A u \in Threads : pc[u] # "handler", NEW f \in Due(exiting)
             PROVE  f \in Ran(exiting)
  BY DEF ExitRuns
<1> DEFINE t == exiting
<1>1. t \in Threads /\ handlers = 0 /\ pc[t] = "exit" BY DEF ProcessInv
<1>2. OwnInv(t) /\ DuringOf(t) BY <1>1 DEF ListInv, DuringInv
<1>3. detached[t] = << >> BY <1>1, <1>2 DEF OwnInv, OwnPhase, Outside
<1>4. Functions(<< >>) = {} BY DEF Functions
<1>5. f \in 1..registered[t] /\ during[t][f] < Iterations BY DEF Due
<1>6. registered[t] \in Nat /\ registered[t] # 0 BY <1>2, <1>5 DEF OwnInv, OwnTypes
<1>7. key # NoKey BY <1>1, <1>6 DEF ProcessInv
<1>8. ran[t] # << >> BY <1>1, <1>3, <1>6, <1>7 DEF ProcessInv, Served
<1>9. f \notin Functions(value[t])
  <2>1. SUFFICES ASSUME f \in Functions(value[t]) PROVE FALSE
    OBVIOUS
  <2>2. during[t][f] = Iterations BY <1>2, <1>8, <2>1 DEF DuringOf, Pass, Waiting
  <2>3. Iterations \in Nat BY AtexitAssumption
  <2>4. QED BY <1>5, <2>2, <2>3
<1>10. QED BY <1>2, <1>3, <1>4, <1>5, <1>9 DEF OwnInv, OwnAccount

\* Whatever is registered is run, by the end of its thread or by exit, except by those who
\* come when nothing comes after: in the last round, or while exit runs the list.
THEOREM AllRunCorrect == Spec => []AllRun
<1>1. ListInv /\ ProcessInv /\ DuringInv => AllRun
  BY ThreadEndRunsHolds, ExitRunsHolds DEF AllRun
<1>2. QED BY <1>1, ListsCorrect, DuringCorrect, PTL
=============================================================================
