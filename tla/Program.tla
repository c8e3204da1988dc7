------------------------------ MODULE Program ------------------------------
(***************************************************************************)
(* The program as its users see it (main.c): each file of the command line *)
(* is opened, the actions are executed on it in rounds, and the result     *)
(* replaces the file, or goes to --output.  Several processes can do so at *)
(* the same time, on the same files, and can be killed at any moment.      *)
(*                                                                         *)
(* The actions are --add-flags, --remove-flags, --set-interpreter and one  *)
(* which prints: those are what needs to be remembered from round to round *)
(* and from file to file.  A round fails where an allocation does; that    *)
(* the rounds end is shown in BucketAlloc and ErwFlush.                    *)
(***************************************************************************)
EXTENDS Naturals, Sequences, FiniteSets

CONSTANTS
  None,          \* no output, no interpreter, nobody
  Procs,         \* the processes
  Paths,         \* what can be on a command line: names of files, Dash and Empties
  Dash,          \* "-"
  Empties,       \* "empty:x86_64" and "empty:aarch64"
  CanTmp,        \* the paths next to which a temporary file can be created
  CommandLines,  \* what the processes are started with: {process -> [acts, paths, output, dry]}
  Flags, Interps, \* what an image can have
  Originals,     \* the images which there are initially
  Empty,         \* the image of which the Empties are
  MaxRounds      \* bound: rounds of editing

(***************************************************************************)
(* Files.  A file is the sequence of its blocks, and one which does not    *)
(* exist has none.  An image is what the program makes of a whole file.    *)
(***************************************************************************)
Image == [flags : SUBSET Flags, interp : Interps \cup {None}, size : Nat \ {0}]
Data(image) == [j \in 1 .. image.size |-> [of |-> image, at |-> j]]
IsWhole(f) == f # <<>> /\ f = Data(f[1].of)

\* A list of actions, of which two kinds have a list of mentions of flags.
WellFormed(as) ==
  /\ Len(as) \in Nat /\ DOMAIN as = 1 .. Len(as)
  /\ \A k \in DOMAIN as : as[k].kind \in {"add", "remove", "interp", "print"}
  /\ \A k \in DOMAIN as : as[k].kind \in {"add", "remove"} =>
        as[k].arg \in Seq([flag : Flags, on : BOOLEAN])

ASSUME ProgramAssumption ==
  /\ None \notin Procs
  /\ Originals \subseteq Image /\ Empty \in Image
  /\ CanTmp \subseteq Paths \ {Dash}
  /\ \A line \in CommandLines : \A p \in Procs : line[p].paths \in Seq(Paths) /\ WellFormed(line[p].acts)
  /\ MaxRounds \in Nat \ {0}

File(path)   == [path |-> path, by |-> None]
Tmp(path, p) == [path |-> path, by |-> p]   \* <path>.<pid>.tmp, and standard input for Dash
Names == [path : Paths, by : Procs \cup {None}]
Stdin(p) == Tmp(Dash, p)

VARIABLES
  files,    \* name -> blocks
  cmd,      \* the command line of each process
  acts,     \* cmdline_options_t.actions
  left,     \* the paths which are left
  erw,      \* erw_state_t
  next,     \* the action which is next
  printed,  \* what has been printed for this file (history)
  out,      \* the name which is being written
  done,     \* the blocks which have been
  pc
vars == <<files, cmd, acts, left, erw, next, printed, out, done, pc>>

(***************************************************************************)
(* The command line.                                                       *)
(***************************************************************************)
Latest(S) == CHOOSE k \in S : \A l \in S : l <= k
MentionsOf(list, x) == {k \in DOMAIN list : list[k].flag = x}
\* simplify_flags_list: of the mentions of a flag the last one counts.
Simplified(list) ==
  [x \in {list[k].flag : k \in DOMAIN list} |-> list[Latest(MentionsOf(list, x))].on]
\* main, parse_arg_flags: without any flag the action does nothing.
Parsed(a) ==
  IF a.kind \in {"add", "remove"} /\ a.arg = <<>> THEN [fn |-> "inert", was |-> "inert", arg |-> <<>>]
  ELSE [fn |-> a.kind, was |-> a.kind, arg |-> IF a.kind \in {"add", "remove"} THEN Simplified(a.arg) ELSE a.arg]
ParsedLine(as) == [k \in DOMAIN as |-> Parsed(as[k])]

NoErw == [orig |-> Empty, flags |-> {}, interp |-> None, size |-> 1, modified |-> FALSE, retry |-> FALSE, round |-> 1]
Opened(image) ==
  [orig |-> image, flags |-> image.flags, interp |-> image.interp, size |-> image.size,
   modified |-> FALSE, retry |-> FALSE, round |-> 1]
Result(e) == [flags |-> e.flags, interp |-> e.interp, size |-> e.size]

Init ==
  /\ cmd \in CommandLines
  /\ \E image \in [Paths \ (Empties \cup {Dash}) -> Originals], input \in [Procs -> Originals] :
       files = [n \in Names |->
         IF n.by \in Procs /\ n.path = Dash THEN Data(input[n.by])
         ELSE IF n.by = None /\ n.path \in DOMAIN image THEN Data(image[n.path]) ELSE <<>>]
  /\ acts = [p \in Procs |-> ParsedLine(cmd[p].acts)]
  /\ left = [p \in Procs |-> cmd[p].paths]
  /\ erw = [p \in Procs |-> NoErw]
  /\ next = [p \in Procs |-> 1]
  /\ printed = [p \in Procs |-> <<>>]
  /\ out = [p \in Procs |-> Stdin(p)] /\ done = [p \in Procs |-> 0]
  /\ pc = [p \in Procs |-> IF cmd[p].paths = <<>> \/ cmd[p].acts = <<>> THEN "ok" ELSE "open"]

Goto(p, where) == pc' = [pc EXCEPT ![p] = where]

(***************************************************************************)
(* Opening a file.                                                         *)
(***************************************************************************)
Path(p) == Head(left[p])
Source(p) == IF Path(p) = Dash THEN Stdin(p) ELSE File(Path(p))
Start(p, image) ==
  /\ erw' = [erw EXCEPT ![p] = Opened(image)]
  /\ next' = [next EXCEPT ![p] = 1] /\ printed' = [printed EXCEPT ![p] = <<>>]
  /\ Goto(p, "acts")
  /\ UNCHANGED <<cmd, acts, left, out, done>>
\* erw_init_from_fd.  Standard input is read up; a file whose descriptor is
\* kept stays the same, because what replaces it is another file.
Open(p) ==
  /\ pc[p] = "open" /\ left[p] # <<>> /\ Path(p) \notin Empties
  /\ IsWhole(files[Source(p)])
  /\ Start(p, files[Source(p)][1].of)
  /\ files' = IF Path(p) = Dash THEN [files EXCEPT ![Source(p)] = <<>>] ELSE files
\* init_from_empty
OpenEmpty(p) ==
  /\ pc[p] = "open" /\ left[p] # <<>> /\ Path(p) \in Empties
  /\ cmd[p].output # None \/ cmd[p].dry
  /\ Start(p, Empty) /\ UNCHANGED files
Fatal(p) == Goto(p, "failed") /\ UNCHANGED <<files, cmd, acts, left, erw, next, printed, out, done>>
OpenFails(p) ==
  /\ pc[p] = "open" /\ left[p] # <<>>
  /\ IF Path(p) \in Empties THEN cmd[p].output = None /\ ~cmd[p].dry ELSE ~IsWhole(files[Source(p)])
  /\ Fatal(p)

(***************************************************************************)
(* The actions.                                                            *)
(***************************************************************************)
\* An allocation in the course of an action fails, or does not.
Failing(p) == {erw[p].retry, erw[p].retry \/ erw[p].round < MaxRounds}
AddFlags(e, arg) ==
  LET flags == (e.flags \ {x \in DOMAIN arg : ~arg[x]}) \cup {x \in DOMAIN arg : arg[x]}
  IN  [e EXCEPT !.flags = flags, !.modified = @ \/ flags # e.flags]
Inverted(arg) == [x \in DOMAIN arg |-> ~arg[x]]
\* Variant: the action stays the one which inverts.
RemoveFlag_Again(a) == [a EXCEPT !.arg = Inverted(@)]
\* action_remove_flag: inverted in place, and from now on one which adds.
RemoveFlag(a) == [a EXCEPT !.arg = Inverted(@), !.fn = "add"]

Act(p) == pc[p] = "acts" /\ next[p] <= Len(acts[p])
Current(p) == acts[p][next[p]]
Proceed(p) ==
  /\ next' = [next EXCEPT ![p] = @ + 1]
  /\ UNCHANGED <<files, cmd, left, out, done, pc>>
ActFlags(p) ==
  LET a == IF Current(p).fn = "remove" THEN RemoveFlag(Current(p)) ELSE Current(p)
      \* What is executed now: a "remove" has become its inverse.
      e == AddFlags(erw[p], a.arg)
  IN
  /\ Act(p) /\ Current(p).fn \in {"add", "remove"}
  /\ acts' = [acts EXCEPT ![p][next[p]] = a]
  /\ erw' = [erw EXCEPT ![p] = e]
  /\ Proceed(p) /\ UNCHANGED printed
SetInterpreter(e, i, fails) == [e EXCEPT !.interp = i, !.modified = TRUE, !.retry = fails]
\* erwNNE_(phdrs_set_interpreter): nothing when it is the interpreter already.
ActInterpreter(p) == \E fails \in Failing(p) :
  /\ Act(p) /\ Current(p).fn = "interp"
  /\ erw' = IF erw[p].interp = Current(p).arg THEN erw
            ELSE [erw EXCEPT ![p] = SetInterpreter(@, Current(p).arg, fails)]
  /\ Proceed(p) /\ UNCHANGED <<acts, printed>>
\* Variant: the action is not made inert.
ActPrint_Again(p) ==
  /\ Act(p) /\ Current(p).fn = "print"
  /\ IF ~erw[p].retry THEN printed' = [printed EXCEPT ![p] = Append(@, erw[p].flags)] ELSE UNCHANGED printed
  /\ Proceed(p) /\ UNCHANGED <<acts, erw>>
\* action_print_...: once, and not in a round which has failed already.
ActPrint(p) ==
  /\ Act(p) /\ Current(p).fn = "print"
  /\ IF ~erw[p].retry
     THEN /\ acts' = [acts EXCEPT ![p][next[p]].fn = "inert"]
          /\ printed' = [printed EXCEPT ![p] = Append(@, erw[p].flags)]
     ELSE UNCHANGED <<acts, printed>>
  /\ Proceed(p) /\ UNCHANGED erw
ActInert(p) == Act(p) /\ Current(p).fn = "inert" /\ Proceed(p) /\ UNCHANGED <<acts, erw, printed>>

\* erwNNE_(retry): the file as it was, with more room, and the actions again.
Again(e) == [Opened(e.orig) EXCEPT !.modified = e.modified, !.size = e.size + 1, !.round = e.round + 1]
\* The file is written if it has been modified, or if it goes elsewhere.
Wanted(p) == ~cmd[p].dry /\ (cmd[p].output # None \/ erw[p].modified \/ Path(p) = Dash)
\* After the actions: erw_flush, if anything has been modified.
Flush(p) == \E fails \in IF erw[p].modified THEN Failing(p) ELSE {FALSE} :
  /\ pc[p] = "acts" /\ next[p] > Len(acts[p])
  /\ IF fails
     THEN /\ erw' = [erw EXCEPT ![p] = Again(@)]
          /\ next' = [next EXCEPT ![p] = 1] /\ UNCHANGED pc
     ELSE Goto(p, IF Wanted(p) THEN "create" ELSE "next") /\ UNCHANGED <<erw, next>>
  /\ UNCHANGED <<files, cmd, acts, left, printed, out, done>>

(***************************************************************************)
(* write_out_to                                                            *)
(***************************************************************************)
Target(p) == IF cmd[p].output # None THEN cmd[p].output ELSE Path(p)
\* Variant: written to the file itself.
Goes_InPlace(p) == File(Target(p))
\* A temporary file, or else the file itself, which is not truncated.
Goes(p) == IF Target(p) = Dash \/ Target(p) \in CanTmp THEN Tmp(Target(p), p) ELSE File(Target(p))
Create(p) ==
  /\ pc[p] = "create"
  /\ out' = [out EXCEPT ![p] = Goes(p)] /\ done' = [done EXCEPT ![p] = 0]
  /\ Goto(p, "write")
  /\ UNCHANGED <<files, cmd, acts, left, erw, next, printed>>
CreateFails(p) == pc[p] = "create" /\ Target(p) \notin CanTmp \cup {Dash} /\ Fatal(p)

Overwritten(f, k, b) == [j \in DOMAIN f \cup {k} |-> IF j = k THEN b ELSE f[j]]
Bytes(p) == Data(Result(erw[p]))
\* write, of any part of what is left; what goes to standard output is not
\* recorded.
Write(p) ==
  /\ pc[p] = "write" /\ done[p] < Len(Bytes(p))
  /\ files' = IF Target(p) = Dash THEN files
              ELSE [files EXCEPT ![out[p]] = Overwritten(@, done[p] + 1, Bytes(p)[done[p] + 1])]
  /\ done' = [done EXCEPT ![p] = @ + 1]
  /\ UNCHANGED <<cmd, acts, left, erw, next, printed, out, pc>>
WriteFails(p) == pc[p] = "write" /\ done[p] < Len(Bytes(p)) /\ Fatal(p)
Close(p) ==
  /\ pc[p] = "write" /\ done[p] = Len(Bytes(p))
  /\ Goto(p, IF out[p] = Tmp(Target(p), p) /\ Target(p) # Dash THEN "rename" ELSE "next")
  /\ UNCHANGED <<files, cmd, acts, left, erw, next, printed, out, done>>
Rename(p) ==
  /\ pc[p] = "rename" /\ Goto(p, "next")
  /\ files' = [files EXCEPT ![File(Target(p))] = files[out[p]], ![out[p]] = <<>>]
  /\ UNCHANGED <<cmd, acts, left, erw, next, printed, out, done>>
RenameFails(p) ==
  /\ pc[p] = "rename" /\ Goto(p, "failed")
  /\ files' = [files EXCEPT ![out[p]] = <<>>]
  /\ UNCHANGED <<cmd, acts, left, erw, next, printed, out, done>>

\* Actions which are inert are reset for the next file.
Reset(a) == IF a.fn = "inert" THEN [a EXCEPT !.fn = a.was] ELSE a
NextFile(p) ==
  /\ pc[p] = "next" /\ Goto(p, "open")
  /\ acts' = [acts EXCEPT ![p] = [k \in DOMAIN acts[p] |-> Reset(acts[p][k])]]
  /\ left' = [left EXCEPT ![p] = Tail(@)]
  /\ UNCHANGED <<files, cmd, erw, next, printed, out, done>>
Exit(p) ==
  /\ pc[p] = "open" /\ left[p] = <<>> /\ Goto(p, "ok")
  /\ UNCHANGED <<files, cmd, acts, left, erw, next, printed, out, done>>

Ended == {"ok", "failed", "killed"}
Kill(p) ==
  /\ pc[p] \notin Ended /\ Goto(p, "killed")
  /\ UNCHANGED <<files, cmd, acts, left, erw, next, printed, out, done>>

Step(p) ==
  \/ Open(p) \/ OpenEmpty(p) \/ OpenFails(p)
  \/ ActFlags(p) \/ ActInterpreter(p) \/ ActPrint(p) \/ ActInert(p) \/ Flush(p)
  \/ Create(p) \/ CreateFails(p) \/ Write(p) \/ WriteFails(p) \/ Close(p) \/ Rename(p) \/ RenameFails(p)
  \/ NextFile(p) \/ Exit(p) \/ Kill(p)
Terminated == (\A p \in Procs : pc[p] \in Ended) /\ UNCHANGED vars
Next == (\E p \in Procs : Step(p)) \/ Terminated
Spec == Init /\ [][Next]_vars

(***************************************************************************)
(* What users rely on.                                                     *)
(***************************************************************************)
\* Whatever several processes do, and whenever they fail or are killed, a
\* file next to which temporary files can be created is one whole image, and
\* never a part of one or a mixture of two.
TargetWhole == \A path \in CanTmp : files[File(path)] = <<>> \/ IsWhole(files[File(path)])

\* Actions are executed from left to right: the last mention of a flag decides,
\* --no-x turning x around and --remove-flags doing so again, and it does on
\* every file and in however many rounds.
Mentioning(as, n, x) == {k \in 1 .. n : as[k].kind \in {"add", "remove"} /\ MentionsOf(as[k].arg, x) # {}}
TurnedOn(a, x) ==
  LET on == a.arg[Latest(MentionsOf(a.arg, x))].on IN IF a.kind = "add" THEN on ELSE ~on
MeantFlags(as, n, flags) ==
  {x \in Flags : IF Mentioning(as, n, x) = {} THEN x \in flags
                 ELSE TurnedOn(as[Latest(Mentioning(as, n, x))], x)}
FlagsMeant == \A p \in Procs : pc[p] \in {"create", "write", "rename", "next"} =>
  erw[p].flags = MeantFlags(cmd[p].acts, Len(cmd[p].acts), erw[p].orig.flags)

\* Everything which is to be printed of a file is printed once and in order,
\* and shows what the actions before it have made of the file.
Printing(as) == {k \in DOMAIN as : as[k].kind = "print"}
Shows(list, prints, as, flags) ==
  /\ Len(list) = Cardinality(prints)
  /\ \A k \in prints : list[Cardinality({j \in prints : j <= k})] = MeantFlags(as, k, flags)
PrintsMeant == \A p \in Procs : pc[p] = "next" =>
  Shows(printed[p], Printing(cmd[p].acts), cmd[p].acts, erw[p].orig.flags)
=============================================================================
