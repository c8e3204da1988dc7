--------------------------- MODULE Program_proofs ---------------------------
(***************************************************************************)
(* Whatever several processes do to the same files, a file which is        *)
(* replaced by way of a temporary file is always one whole image; and the  *)
(* flags which are written are those of the command line, although         *)
(* --remove-flags turns its own list around and the list is used again in  *)
(* every round and for every file; and what is printed is printed once.    *)
(***************************************************************************)
EXTENDS Program, FiniteSetTheorems, TLAPS

(***************************************************************************)
(* The inductive invariant.                                                *)
(***************************************************************************)
Fields == {"orig", "flags", "interp", "size", "modified", "retry", "round"}
Sized(image) == image.size \in Nat \ {0}

\* What a process knows of its image and of its command line.
Own(p) == /\ DOMAIN erw[p] = Fields /\ Sized(erw[p]) /\ Sized(erw[p].orig)
          /\ done[p] \in Nat
          /\ left[p] \in Seq(Paths)
          /\ left[p] = <<>> => pc[p] \in Ended \cup {"open"}
\* It writes where Goes says, and renames only a temporary file.
Writing(p) == pc[p] \in {"write", "rename"} =>
  /\ out[p] = Goes(p)
  /\ pc[p] = "rename" => Target(p) \in CanTmp
\* Its temporary files do not exist, except for the one which it is writing
\* or which it has left behind.
Fresh(p) == \A path \in CanTmp : files[Tmp(path, p)] # <<>> =>
  \/ pc[p] \in {"failed", "killed"}
  \/ pc[p] \in {"write", "rename"} /\ path = Target(p)
\* The one which it is writing has the blocks which have been written.
Prefix(p) ==
  /\ pc[p] = "write" /\ Target(p) \in CanTmp =>
       files[Tmp(Target(p), p)] = [j \in 1 .. done[p] |-> Bytes(p)[j]]
  /\ pc[p] = "rename" => files[Tmp(Target(p), p)] = Bytes(p)
ProcInv(p) == Own(p) /\ Writing(p) /\ Fresh(p) /\ Prefix(p)

Domains == /\ DOMAIN files = Names
           /\ DOMAIN pc = Procs /\ DOMAIN out = Procs /\ DOMAIN done = Procs
           /\ DOMAIN erw = Procs /\ DOMAIN left = Procs
\* Every block comes from an image which has a size.
Blocks == \A n \in Names : \A j \in DOMAIN files[n] : Sized(files[n][j].of)

IInv == Domains /\ Blocks /\ TargetWhole /\ \A p \in Procs : ProcInv(p)

(***************************************************************************)
(* Names and images.                                                       *)
(***************************************************************************)
\* Temporary files are none of the files which are edited, and each belongs to
\* one process.
LEMMA NamesApart ==
  ASSUME NEW p \in Procs, NEW q \in Procs, NEW a \in Paths, NEW b \in Paths
  PROVE  /\ Tmp(a, p) \in Names /\ File(a) \in Names
         /\ Tmp(a, p) # File(b)
         /\ Tmp(a, p) = Tmp(b, q) => a = b /\ p = q
         /\ File(a) = File(b) => a = b
  BY ProgramAssumption DEF Tmp, File, Names

\* The data of an image which has a size are a whole file.
LEMMA DataWhole ==
  ASSUME NEW image, Sized(image)
  PROVE  /\ Data(image) # <<>> /\ IsWhole(Data(image))
         /\ DOMAIN Data(image) = 1 .. image.size
         /\ \A j \in DOMAIN Data(image) : Data(image)[j].of = image
  BY DEF Sized, Data, IsWhole

\* Nothing of a process changes when its variables and its temporary files do
\* not.
LEMMA Frame ==
  ASSUME NEW q \in Procs, ProcInv(q), cmd' = cmd, left'[q] = left[q], erw'[q] = erw[q],
         out'[q] = out[q], done'[q] = done[q], pc'[q] = pc[q],
         \A path \in CanTmp : files'[Tmp(path, q)] = files[Tmp(path, q)]
  PROVE  ProcInv(q)'
  <1>1. Target(q)' = Target(q) /\ Bytes(q)' = Bytes(q) /\ Goes(q)' = Goes(q)
    BY DEF Target, Path, Bytes, Goes
  <1>2. Own(q)' BY DEF ProcInv, Own
  <1>3. Writing(q)' BY <1>1 DEF ProcInv, Writing
  <1>4. Fresh(q)' BY <1>1 DEF ProcInv, Fresh, Tmp
  <1>5. Prefix(q)' BY <1>1 DEF ProcInv, Prefix, Writing, Tmp
  <1> QED BY <1>2, <1>3, <1>4, <1>5 DEF ProcInv

\* A step of a process which leaves the files alone, and does not begin to
\* write.
LEMMA Quiet ==
  ASSUME NEW p \in Procs, IInv, cmd' = cmd, files' = files,
         Domains', Own(p)', pc'[p] \notin {"write", "rename"},
         \A q \in Procs \ {p} : /\ left'[q] = left[q] /\ erw'[q] = erw[q] /\ out'[q] = out[q]
                                /\ done'[q] = done[q] /\ pc'[q] = pc[q],
         \A path \in CanTmp : files[Tmp(path, p)] # <<>> => pc'[p] \in {"failed", "killed"}
  PROVE  IInv'
  <1>1. Blocks' /\ TargetWhole' BY DEF IInv, Blocks, TargetWhole
  <1>2. ASSUME NEW q \in Procs \ {p} PROVE ProcInv(q)'
    BY <1>2, Frame DEF IInv
  <1>3. ProcInv(p)' BY DEF ProcInv, Writing, Fresh, Prefix, Tmp
  <1> QED BY <1>1, <1>2, <1>3 DEF IInv

\* What the actions make of an image, and a new round, leave it an image.
LEMMA ErwKept ==
  ASSUME NEW e, DOMAIN e = Fields, Sized(e), Sized(e.orig)
  PROVE  /\ \A arg : LET f == AddFlags(e, arg) IN DOMAIN f = Fields /\ Sized(f) /\ Sized(f.orig)
         /\ \A i, fails : LET f == SetInterpreter(e, i, fails) IN DOMAIN f = Fields /\ Sized(f) /\ Sized(f.orig)
         /\ LET f == Again(e) IN DOMAIN f = Fields /\ Sized(f) /\ Sized(f.orig)
  <1>1. ASSUME NEW arg PROVE LET f == AddFlags(e, arg) IN DOMAIN f = Fields /\ f.size = e.size /\ f.orig = e.orig
    BY DEF AddFlags, Fields
  <1>2. ASSUME NEW i, NEW fails PROVE LET f == SetInterpreter(e, i, fails) IN DOMAIN f = Fields /\ f.size = e.size /\ f.orig = e.orig
    BY DEF SetInterpreter, Fields
  <1>3. LET f == Again(e) IN DOMAIN f = Fields /\ f.size = e.size + 1 /\ f.orig = e.orig
    BY DEF Again, Opened, Fields
  <1> QED BY <1>1, <1>2, <1>3 DEF Sized
LEMMA ErwOpened ==
  ASSUME NEW image, Sized(image)
  PROVE  LET e == Opened(image) IN DOMAIN e = Fields /\ Sized(e) /\ Sized(e.orig)
  BY DEF Opened, Fields, Sized

(***************************************************************************)
(* The steps which leave the files alone.                                  *)
(***************************************************************************)
\* A process which does not write has no temporary file, unless it has failed.
LEMMA NothingThere ==
  ASSUME NEW p \in Procs, IInv, pc[p] \notin {"write", "rename", "failed", "killed"}
  PROVE  \A path \in CanTmp : files[Tmp(path, p)] = <<>>
  BY DEF IInv, ProcInv, Fresh

\* Opening gives a process an image which has a size.
LEMMA OpenedSized ==
  ASSUME NEW p \in Procs, IInv, Open(p) \/ OpenEmpty(p)
  PROVE  \E image : Sized(image) /\ Start(p, image)
  <1>1. CASE OpenEmpty(p) BY <1>1, ProgramAssumption DEF OpenEmpty, Image, Sized
  <1>2. CASE Open(p)
    <2>1. Path(p) \in Paths BY <1>2 DEF Open, Path, IInv, ProcInv, Own
    <2>2. Source(p) \in Names BY <2>1 DEF Source, Stdin, File, Tmp, Names
    <2> DEFINE f == files[Source(p)]
    <2>3. f # <<>> /\ f = Data(f[1].of) /\ Start(p, f[1].of)
      BY <1>2 DEF Open, IsWhole
    <2>4. PICK j \in DOMAIN f : TRUE
      <3>1. Data(f[1].of) = <<>> \/ DOMAIN Data(f[1].of) # {} BY DEF Data
      <3> QED BY <2>3, <3>1
    <2>5. f[j].of = f[1].of
      <3>1. ASSUME NEW image, NEW k \in DOMAIN Data(image) PROVE Data(image)[k].of = image BY DEF Data
      <3>2. j \in DOMAIN Data(f[1].of) /\ f[j] = Data(f[1].of)[j] BY <2>3
      <3> HIDE DEF f
      <3> QED BY <3>1, <3>2
    <2>6. Sized(f[j].of) BY <2>2, <2>4 DEF IInv, Blocks
    <2> QED BY <2>3, <2>5, <2>6
  <1> QED BY <1>1, <1>2

\* The steps of which Quiet says that they keep the invariant.
LEMMA OpenEmptyInv ==
  ASSUME NEW p \in Procs, IInv, OpenEmpty(p) PROVE IInv'
  <1>1. pc[p] = "open" /\ files' = files BY DEF OpenEmpty
  <1>2. PICK image : Sized(image) /\ Start(p, image) BY OpenedSized
  <1>3. Domains' BY <1>1, <1>2 DEF IInv, Domains, Start, Goto
  <1>4. Own(p)' BY <1>2, ErwOpened DEF IInv, Domains, ProcInv, Own, Start, Goto, OpenEmpty
  <1>5. pc'[p] = "acts" BY <1>2 DEF Start, Goto, IInv, Domains
  <1>6. \A q \in Procs \ {p} : /\ left'[q] = left[q] /\ erw'[q] = erw[q] /\ out'[q] = out[q]
                               /\ done'[q] = done[q] /\ pc'[q] = pc[q]
    BY <1>2 DEF Start, Goto, IInv, Domains
  <1> QED BY <1>1, <1>2, <1>3, <1>4, <1>5, <1>6, NothingThere, Quiet DEF Start

\* A step to another place, with everything of the process as it is.
LEMMA MoveInv ==
  ASSUME NEW p \in Procs, IInv, UNCHANGED <<cmd, files, left, erw, out, done>>,
         NEW w, Goto(p, w) \/ (pc' = pc /\ w = pc[p]), w \notin {"write", "rename"},
         left[p] = <<>> => w \in Ended \cup {"open"},
         \A path \in CanTmp : files[Tmp(path, p)] # <<>> => w \in {"failed", "killed"}
  PROVE  IInv'
  <1>1. pc'[p] = w /\ DOMAIN pc' = Procs /\ \A q \in Procs \ {p} : pc'[q] = pc[q] BY DEF Goto, IInv, Domains
  <1>2. Domains' BY <1>1 DEF IInv, Domains
  <1>3. Own(p)' BY <1>1 DEF IInv, ProcInv, Own
  <1> QED BY <1>1, <1>2, <1>3, Quiet

\* An action or a new round gives the process another image which has a size.
LEMMA EditInv ==
  ASSUME NEW p \in Procs, IInv, UNCHANGED <<cmd, files, left, out, done, pc>>, pc[p] = "acts",
         NEW e, erw' = [erw EXCEPT ![p] = e], DOMAIN e = Fields, Sized(e), Sized(e.orig)
  PROVE  IInv'
  <1>1. erw'[p] = e /\ DOMAIN erw' = Procs /\ \A q \in Procs \ {p} : erw'[q] = erw[q] BY DEF IInv, Domains
  <1>2. Domains' BY <1>1 DEF IInv, Domains
  <1>3. Own(p)' BY <1>1 DEF IInv, ProcInv, Own
  <1>4. \A path \in CanTmp : files[Tmp(path, p)] = <<>> BY NothingThere
  <1> QED BY <1>1, <1>2, <1>3, <1>4, Quiet

LEMMA ActInv ==
  ASSUME NEW p \in Procs, IInv, ActFlags(p) \/ ActInterpreter(p) \/ ActPrint(p) \/ ActInert(p) \/ Flush(p)
  PROVE  IInv'
  <1>1. pc[p] = "acts" /\ UNCHANGED <<cmd, files, left, out, done>>
    BY DEF ActFlags, ActInterpreter, ActPrint, ActInert, Flush, Act, Proceed
  <1>2. DOMAIN erw[p] = Fields /\ Sized(erw[p]) /\ Sized(erw[p].orig) BY DEF IInv, ProcInv, Own
  <1>3. left[p] # <<>> BY <1>1 DEF IInv, ProcInv, Own, Ended
  <1>4. \A path \in CanTmp : files[Tmp(path, p)] = <<>> BY <1>1, NothingThere
  <1>5. ASSUME pc' = pc, erw' = erw PROVE IInv' BY <1>1, <1>3, <1>4, <1>5, MoveInv
  <1>6. CASE ActFlags(p)
    <2>1. PICK arg : erw' = [erw EXCEPT ![p] = AddFlags(erw[p], arg)] BY <1>6 DEF ActFlags
    <2>2. pc' = pc BY <1>6 DEF ActFlags, Proceed
    <2> QED BY <1>1, <1>2, <2>1, <2>2, ErwKept, EditInv
  <1>7. CASE ActInterpreter(p)
    <2>1. PICK i, fails : erw' = erw \/ erw' = [erw EXCEPT ![p] = SetInterpreter(erw[p], i, fails)]
      BY <1>7 DEF ActInterpreter
    <2>2. pc' = pc BY <1>7 DEF ActInterpreter, Proceed
    <2> QED BY <1>1, <1>2, <1>5, <2>1, <2>2, ErwKept, EditInv
  <1>8. CASE ActPrint(p) \/ ActInert(p) BY <1>5, <1>8 DEF ActPrint, ActInert, Proceed
  <1>9. CASE Flush(p)
    <2>1. PICK w \in {"create", "next", "acts"} :
            \/ erw' = [erw EXCEPT ![p] = Again(erw[p])] /\ pc' = pc
            \/ erw' = erw /\ Goto(p, w)
      BY <1>9 DEF Flush
    <2> QED BY <1>1, <1>2, <1>3, <1>4, <2>1, ErwKept, EditInv, MoveInv
  <1> QED BY <1>6, <1>7, <1>8, <1>9

\* After the data are written to something which is not renamed there is
\* nothing which is temporary.
LEMMA CloseNext ==
  ASSUME NEW p \in Procs, IInv, Close(p), out[p] # Tmp(Target(p), p) \/ Target(p) = Dash
  PROVE  \A path \in CanTmp : files[Tmp(path, p)] = <<>>
  <1>1. pc[p] = "write" /\ ProcInv(p) BY DEF Close, IInv
  <1>2. Target(p) \notin CanTmp BY <1>1, ProgramAssumption DEF ProcInv, Writing, Goes
  <1> QED BY <1>1, <1>2 DEF ProcInv, Fresh

LEMMA RestInv ==
  ASSUME NEW p \in Procs, IInv,
         \/ OpenFails(p) \/ CreateFails(p) \/ WriteFails(p) \/ NextFile(p) \/ Exit(p) \/ Kill(p)
         \/ Close(p) /\ ~(out[p] = Tmp(Target(p), p) /\ Target(p) # Dash)
  PROVE  IInv'
  <1>1. CASE OpenFails(p) \/ CreateFails(p) \/ WriteFails(p)
    BY <1>1, MoveInv DEF OpenFails, CreateFails, WriteFails, Fatal, Ended
  <1>2. CASE Kill(p) BY <1>2, MoveInv DEF Kill, Ended
  <1>3. CASE Exit(p)
    <2>1. \A path \in CanTmp : files[Tmp(path, p)] = <<>> BY <1>3, NothingThere DEF Exit
    <2> QED BY <1>3, <2>1, MoveInv DEF Exit, Ended
  <1>4. CASE Close(p) /\ ~(out[p] = Tmp(Target(p), p) /\ Target(p) # Dash)
    <2>1. left[p] # <<>> BY <1>4 DEF Close, IInv, ProcInv, Own, Ended
    <2>2. Goto(p, "next") BY <1>4 DEF Close
    <2> QED BY <1>4, <2>1, <2>2, CloseNext, MoveInv DEF Close
  <1>5. CASE NextFile(p)
    <2>1. pc[p] = "next" /\ left[p] # <<>> BY <1>5 DEF NextFile, IInv, ProcInv, Own, Ended
    <2>2. left[p] \in Seq(Paths) /\ left'[p] = Tail(left[p]) /\ pc'[p] = "open"
      BY <1>5 DEF NextFile, Goto, IInv, Domains, ProcInv, Own
    <2>3. Domains' BY <1>5 DEF NextFile, Goto, IInv, Domains
    <2>4. Own(p)' BY <1>5, <2>1, <2>2 DEF NextFile, IInv, ProcInv, Own
    <2>5. \A q \in Procs \ {p} : /\ left'[q] = left[q] /\ erw'[q] = erw[q] /\ out'[q] = out[q]
                                 /\ done'[q] = done[q] /\ pc'[q] = pc[q]
      BY <1>5 DEF NextFile, Goto, IInv, Domains
    <2>6. \A path \in CanTmp : files[Tmp(path, p)] = <<>> BY <2>1, NothingThere
    <2> QED BY <1>5, <2>2, <2>3, <2>4, <2>5, <2>6, Quiet DEF NextFile
  <1> QED BY <1>1, <1>2, <1>3, <1>4, <1>5

(***************************************************************************)
(* The steps which change files, or begin to.                              *)
(***************************************************************************)
\* A step which keeps the temporary files of all of the other processes.
LEMMA Loud ==
  ASSUME NEW p \in Procs, IInv, cmd' = cmd, Domains', Blocks', TargetWhole', ProcInv(p)',
         \A q \in Procs \ {p} : /\ left'[q] = left[q] /\ erw'[q] = erw[q] /\ out'[q] = out[q]
                                /\ done'[q] = done[q] /\ pc'[q] = pc[q],
         \A q \in Procs \ {p}, path \in CanTmp : files'[Tmp(path, q)] = files[Tmp(path, q)]
  PROVE  IInv'
  <1>1. ASSUME NEW q \in Procs \ {p} PROVE ProcInv(q)' BY <1>1, Frame DEF IInv
  <1> QED BY <1>1 DEF IInv

\* Reading standard input up changes none of the files which are edited.
LEMMA OpenInv ==
  ASSUME NEW p \in Procs, IInv, Open(p) PROVE IInv'
  <1>1. pc[p] = "open" BY DEF Open
  <1>2. PICK image : Sized(image) /\ Start(p, image) BY OpenedSized
  <1>3. Domains' BY <1>2 DEF IInv, Domains, Start, Goto, Open
  <1>4. Own(p)' BY <1>2, ErwOpened DEF IInv, Domains, ProcInv, Own, Start, Goto, Open
  <1>5. pc'[p] = "acts" BY <1>2 DEF Start, Goto, IInv, Domains
  <1>6. \A q \in Procs \ {p} : /\ left'[q] = left[q] /\ erw'[q] = erw[q] /\ out'[q] = out[q]
                               /\ done'[q] = done[q] /\ pc'[q] = pc[q]
    BY <1>2 DEF Start, Goto, IInv, Domains
  <1>7. \A n \in Names : files'[n] = files[n] \/ files'[n] = <<>> BY DEF Open, IInv, Domains
  <1>8. Blocks' BY <1>7 DEF IInv, Blocks
  <1>9. \A n \in Names : n # Stdin(p) => files'[n] = files[n]
    BY DEF Open, Source, IInv, Domains
  <1>10. \A q \in Procs, path \in CanTmp : files'[Tmp(path, q)] = files[Tmp(path, q)] /\ files'[File(path)] = files[File(path)]
    BY <1>9, ProgramAssumption DEF Stdin, Tmp, File, Names
  <1>11. TargetWhole' BY <1>10 DEF IInv, TargetWhole, File
  <1>12. ProcInv(p)' BY <1>1, <1>4, <1>5, <1>10, NothingThere DEF ProcInv, Writing, Fresh, Prefix, Tmp
  <1> QED BY <1>2, <1>3, <1>6, <1>8, <1>10, <1>11, <1>12, Loud DEF Start

\* What is to be written begins with nothing.
LEMMA CreateInv ==
  ASSUME NEW p \in Procs, IInv, Create(p) PROVE IInv'
  <1>1. /\ pc[p] = "create" /\ pc'[p] = "write" /\ out'[p] = Goes(p) /\ done'[p] = 0
        /\ UNCHANGED <<files, cmd, left, erw>>
    BY DEF Create, Goto, IInv, Domains
  <1>2. \A path \in CanTmp : files[Tmp(path, p)] = <<>> BY <1>1, NothingThere
  <1>3. Domains' BY DEF Create, Goto, IInv, Domains
  <1>4. Blocks' /\ TargetWhole' BY <1>1 DEF IInv, Blocks, TargetWhole
  <1>5. \A q \in Procs \ {p} : /\ left'[q] = left[q] /\ erw'[q] = erw[q] /\ out'[q] = out[q]
                               /\ done'[q] = done[q] /\ pc'[q] = pc[q]
    BY DEF Create, Goto, IInv, Domains
  <1>6. Own(p)' BY <1>1 DEF IInv, ProcInv, Own, Ended
  <1>7. Target(p)' = Target(p) /\ Goes(p)' = Goes(p) BY <1>1 DEF Target, Path, Goes
  <1>8. Writing(p)' BY <1>1, <1>7 DEF Writing
  <1>9. Fresh(p)' BY <1>1, <1>2 DEF Fresh, Tmp
  <1>10. Prefix(p)' BY <1>1, <1>2, <1>7 DEF Prefix, Tmp
  <1> QED BY <1>1, <1>3, <1>4, <1>5, <1>6, <1>8, <1>9, <1>10, Loud DEF ProcInv

\* What a process writes is one whole file.
LEMMA BytesWhole ==
  ASSUME NEW p \in Procs, IInv
  PROVE  /\ IsWhole(Bytes(p)) /\ Bytes(p) # <<>>
         /\ Len(Bytes(p)) \in Nat /\ DOMAIN Bytes(p) = 1 .. Len(Bytes(p))
         /\ \A j \in DOMAIN Bytes(p) : Sized(Bytes(p)[j].of)
         /\ Bytes(p) = [j \in 1 .. Len(Bytes(p)) |-> Bytes(p)[j]]
  <1> DEFINE image == Result(erw[p])
  <1>1. Sized(image) BY DEF IInv, ProcInv, Own, Result, Sized
  <1>2. Bytes(p) = Data(image) BY DEF Bytes
  <1>3. Len(Data(image)) = image.size BY <1>1 DEF Data, Sized
  <1>4. Data(image) = [j \in 1 .. image.size |-> Data(image)[j]] BY DEF Data
  <1>5. image.size \in Nat BY <1>1 DEF Sized
  <1> HIDE DEF image
  <1> QED BY <1>1, <1>2, <1>3, <1>4, <1>5, DataWhole

\* A block more of it is there.
LEMMA WriteInv ==
  ASSUME NEW p \in Procs, IInv, Write(p) PROVE IInv'
  <1>1. /\ pc[p] = "write" /\ done[p] < Len(Bytes(p)) /\ done'[p] = done[p] + 1
        /\ UNCHANGED <<cmd, left, erw, out, pc>>
    BY DEF Write, IInv, Domains
  <1>2. ProcInv(p) /\ Domains /\ done[p] \in Nat BY DEF IInv, ProcInv, Own
  <1>3. Domains' BY DEF Write, IInv, Domains
  <1>4. \A q \in Procs \ {p} : done'[q] = done[q] BY DEF Write, IInv, Domains
  <1>5. Target(p)' = Target(p) /\ Goes(p)' = Goes(p) /\ Bytes(p)' = Bytes(p) BY <1>1 DEF Target, Path, Goes, Bytes
  <1>6. out[p] = Goes(p) BY <1>1, <1>2 DEF ProcInv, Writing
  <1> DEFINE b == Bytes(p)[done[p] + 1]
             new == Overwritten(files[out[p]], done[p] + 1, b)
  <1>7. \A n \in Names : files'[n] = files[n] \/ (n = out[p] /\ files'[n] = new)
    <2>1. files' = files \/ files' = [files EXCEPT ![out[p]] = new] BY DEF Write
    <2> HIDE DEF new
    <2> QED BY <1>2, <2>1 DEF Domains
  <1>8. Sized(b.of) BY <1>1, <1>2, BytesWhole
  <1>9. Blocks'
    <2>1. ASSUME NEW n \in Names, n = out[p], NEW j \in DOMAIN new PROVE Sized(new[j].of)
      BY <1>8, <2>1 DEF Overwritten, IInv, Blocks
    <2> HIDE DEF new
    <2> QED BY <1>7, <2>1 DEF IInv, Blocks
  <1>10. \A path \in CanTmp : File(path) \in Names /\ files'[File(path)] = files[File(path)]
    <2>1. ASSUME NEW path \in CanTmp PROVE File(path) \in Names /\ File(path) # out[p]
      BY <1>6, <2>1, ProgramAssumption DEF Goes, Tmp, File, Names
    <2> QED BY <1>7, <2>1
  <1>11. \A q \in Procs, path \in CanTmp : Tmp(path, q) \in Names /\ (Tmp(path, q) = out[p] => q = p /\ path = Target(p))
    BY <1>6, ProgramAssumption DEF Goes, Tmp, File, Names
  <1>12. \A q \in Procs, path \in CanTmp : q # p \/ path # Target(p) => files'[Tmp(path, q)] = files[Tmp(path, q)]
    BY <1>7, <1>11
  <1>13. TargetWhole' BY <1>10 DEF IInv, TargetWhole, File
  <1>14. Own(p)' /\ Writing(p)' BY <1>1, <1>2, <1>5 DEF ProcInv, Own, Writing
  <1>15. Fresh(p)' BY <1>1, <1>2, <1>5, <1>12 DEF ProcInv, Fresh, Tmp
  <1>16. Prefix(p)'
    <2>1. SUFFICES ASSUME Target(p) \in CanTmp
                   PROVE  files'[Tmp(Target(p), p)] = [j \in 1 .. done[p] + 1 |-> Bytes(p)[j]]
      BY <1>1, <1>5 DEF Prefix, Tmp
    <2>2. out[p] = Tmp(Target(p), p) /\ Target(p) # Dash BY <1>6, <2>1, ProgramAssumption DEF Goes
    <2>3. files'[out[p]] = new BY <1>2, <1>11, <2>1, <2>2 DEF Write, Domains
    <2>4. files[out[p]] = [j \in 1 .. done[p] |-> Bytes(p)[j]] BY <1>1, <1>2, <2>1, <2>2 DEF ProcInv, Prefix
    <2>5. new = [j \in 1 .. done[p] + 1 |-> Bytes(p)[j]] BY <1>2, <2>4 DEF Overwritten
    <2> QED BY <2>2, <2>3, <2>5
  <1> QED BY <1>1, <1>3, <1>4, <1>9, <1>12, <1>13, <1>14, <1>15, <1>16, Loud DEF ProcInv

\* All of the blocks are there when it is closed.
LEMMA CloseInv ==
  ASSUME NEW p \in Procs, IInv, Close(p), out[p] = Tmp(Target(p), p), Target(p) # Dash
  PROVE  IInv'
  <1>1. /\ pc[p] = "write" /\ done[p] = Len(Bytes(p)) /\ pc'[p] = "rename"
        /\ UNCHANGED <<files, cmd, left, erw, out, done>>
    BY DEF Close, Goto, IInv, Domains
  <1>2. ProcInv(p) BY DEF IInv
  <1>3. Target(p) \in CanTmp
    <2>1. out[p] = Goes(p) BY <1>1, <1>2 DEF ProcInv, Writing
    <2>2. Tmp(Target(p), p) # File(Target(p)) BY ProgramAssumption DEF Tmp, File
    <2> QED BY <2>1, <2>2 DEF Goes
  <1>4. Target(p)' = Target(p) /\ Goes(p)' = Goes(p) /\ Bytes(p)' = Bytes(p) BY <1>1 DEF Target, Path, Goes, Bytes
  <1>5. Domains' /\ Blocks' /\ TargetWhole' BY <1>1 DEF Close, Goto, IInv, Domains, Blocks, TargetWhole
  <1>6. \A q \in Procs \ {p} : pc'[q] = pc[q] BY DEF Close, Goto, IInv, Domains
  <1>7. Own(p)' /\ Writing(p)' BY <1>1, <1>2, <1>3, <1>4 DEF ProcInv, Own, Writing, Ended
  <1>8. Fresh(p)' BY <1>1, <1>2, <1>4 DEF ProcInv, Fresh, Tmp
  <1>9. Prefix(p)' BY <1>1, <1>2, <1>3, <1>4, BytesWhole DEF ProcInv, Prefix, Tmp
  <1> QED BY <1>1, <1>5, <1>6, <1>7, <1>8, <1>9, Loud DEF ProcInv

\* The file is replaced by what has been written, or the temporary file is
\* removed.
LEMMA RenameInv ==
  ASSUME NEW p \in Procs, IInv, Rename(p) \/ RenameFails(p) PROVE IInv'
  <1> DEFINE tmp == Tmp(Target(p), p)
             file == File(Target(p))
  <1>1. /\ pc[p] = "rename" /\ pc'[p] \in {"next", "failed"}
        /\ UNCHANGED <<cmd, left, erw, out, done>>
    BY DEF Rename, RenameFails, Goto, IInv, Domains
  <1>2. ProcInv(p) /\ Domains BY DEF IInv
  <1>3. Target(p) \in CanTmp /\ out[p] = tmp BY <1>1, <1>2 DEF ProcInv, Writing, Goes
  <1>4. files[tmp] = Bytes(p) BY <1>1, <1>2 DEF ProcInv, Prefix
  <1>5. tmp \in Names /\ file \in Names /\ tmp # file BY <1>3, ProgramAssumption, NamesApart
  <1>6. /\ files'[tmp] = <<>> /\ files'[file] \in {files[file], Bytes(p)}
        /\ \A n \in Names \ {tmp, file} : files'[n] = files[n]
    <2> HIDE DEF tmp, file
    <2>1. \/ files' = [files EXCEPT ![tmp] = <<>>]
          \/ files' = [files EXCEPT ![file] = files[tmp], ![tmp] = <<>>]
      BY <1>3 DEF Rename, RenameFails, file
    <2> QED BY <1>2, <1>4, <1>5, <2>1 DEF Domains
  <1>7. Domains' BY <1>2 DEF Rename, RenameFails, Goto, Domains
  <1>8. Blocks'
    <2> HIDE DEF tmp, file
    <2> QED BY <1>6, BytesWhole DEF IInv, Blocks
  <1>9. TargetWhole'
    <2>1. ASSUME NEW path \in CanTmp PROVE files'[File(path)] = files[File(path)] \/ files'[File(path)] = Bytes(p)
      <3>1. File(path) \in Names /\ File(path) # tmp BY <1>3, ProgramAssumption, NamesApart
      <3> QED BY <1>6, <3>1
    <2> QED BY <2>1, BytesWhole DEF IInv, TargetWhole, File
  <1>10. \A q \in Procs, path \in CanTmp : q # p \/ path # Target(p) => files'[Tmp(path, q)] = files[Tmp(path, q)]
    <2>1. ASSUME NEW q \in Procs, NEW path \in CanTmp, q # p \/ path # Target(p)
          PROVE  Tmp(path, q) \in Names /\ Tmp(path, q) # tmp /\ Tmp(path, q) # file
      BY <1>3, <2>1, ProgramAssumption, NamesApart
    <2> HIDE DEF tmp, file
    <2> QED BY <1>6, <2>1
  <1>11. \A q \in Procs \ {p} : pc'[q] = pc[q] BY <1>2 DEF Rename, RenameFails, Goto, Domains
  <1>12. Own(p)' BY <1>1, <1>2 DEF ProcInv, Own, Ended
  <1>13. Fresh(p)' BY <1>1, <1>2, <1>6, <1>10 DEF ProcInv, Fresh, Tmp
  <1>14. Writing(p)' /\ Prefix(p)' BY <1>1 DEF Writing, Prefix
  <1> QED BY <1>1, <1>7, <1>8, <1>9, <1>10, <1>11, <1>12, <1>13, <1>14, Loud DEF ProcInv

(***************************************************************************)
(* Every step; the files are whole.                                        *)
(***************************************************************************)
LEMMA InitInv == Init => IInv
  <1> SUFFICES ASSUME Init PROVE IInv OBVIOUS
  <1>1. Domains BY DEF Init, Domains
  <1>2. PICK image \in [Paths \ (Empties \cup {Dash}) -> Originals], input \in [Procs -> Originals] :
          files = [n \in Names |->
            IF n.by \in Procs /\ n.path = Dash THEN Data(input[n.by])
            ELSE IF n.by = None /\ n.path \in DOMAIN image THEN Data(image[n.path]) ELSE <<>>]
    BY DEF Init
  <1>3. \A i \in Originals : Sized(i) BY ProgramAssumption DEF Image, Sized
  <1>4. \A n \in Names : files[n] = <<>> \/ \E i \in Originals : files[n] = Data(i) BY <1>2
  <1>5. Blocks
    <2>1. ASSUME NEW n \in Names, NEW j \in DOMAIN files[n] PROVE Sized(files[n][j].of)
      <3>1. PICK i \in Originals : files[n] = Data(i) BY <1>4, <2>1
      <3> QED BY <1>3, <2>1, <3>1, DataWhole
    <2> QED BY <2>1 DEF Blocks
  <1>6. TargetWhole
    <2>1. \A path \in CanTmp : File(path) \in Names BY ProgramAssumption DEF File, Names
    <2> QED BY <1>3, <1>4, <2>1, DataWhole DEF TargetWhole
  <1>7. ASSUME NEW p \in Procs PROVE ProcInv(p)
    <2>1. \A path \in CanTmp : files[Tmp(path, p)] = <<>>
      <3>1. ASSUME NEW path \in CanTmp
            PROVE  Tmp(path, p) \in Names /\ Tmp(path, p).by = p /\ Tmp(path, p).path # Dash /\ p # None
        BY <3>1, ProgramAssumption DEF Tmp, Names
      <3> QED BY <1>2, <3>1
    <2>2. pc[p] \in {"ok", "open"} BY DEF Init
    <2>3. Own(p)
      <3>1. erw[p] = NoErw /\ done[p] = 0 /\ left[p] \in Seq(Paths) BY ProgramAssumption DEF Init
      <3>2. DOMAIN NoErw = Fields /\ Sized(NoErw) /\ Sized(NoErw.orig) BY ProgramAssumption DEF NoErw, Fields, Sized, Image
      <3> QED BY <2>2, <3>1, <3>2 DEF Own, Ended
    <2> QED BY <2>1, <2>2, <2>3 DEF ProcInv, Writing, Fresh, Prefix
  <1> QED BY <1>1, <1>5, <1>6, <1>7 DEF IInv

LEMMA NextInv == IInv /\ [Next]_vars => IInv'
  <1> SUFFICES ASSUME IInv, [Next]_vars PROVE IInv' OBVIOUS
  <1>1. ASSUME NEW p \in Procs, Step(p) PROVE IInv'
    <2>1. CASE Open(p) \/ OpenEmpty(p) BY <2>1, OpenInv, OpenEmptyInv
    <2>2. CASE OpenFails(p) \/ CreateFails(p) \/ WriteFails(p) \/ NextFile(p) \/ Exit(p) \/ Kill(p) BY <2>2, RestInv
    <2>3. CASE ActFlags(p) \/ ActInterpreter(p) \/ ActPrint(p) \/ ActInert(p) \/ Flush(p) BY <2>3, ActInv
    <2>4. CASE Create(p) \/ Write(p) BY <2>4, CreateInv, WriteInv
    <2>5. CASE Close(p) BY <2>5, CloseInv, RestInv
    <2>6. CASE Rename(p) \/ RenameFails(p) BY <2>6, RenameInv
    <2> QED BY <1>1, <2>1, <2>2, <2>3, <2>4, <2>5, <2>6 DEF Step
  <1>2. CASE UNCHANGED vars
    <2>1. Domains' /\ Blocks' /\ TargetWhole' BY <1>2 DEF vars, IInv, Domains, Blocks, TargetWhole
    <2>2. ASSUME NEW q \in Procs PROVE ProcInv(q)' BY <1>2, <2>2, Frame DEF vars, IInv
    <2> QED BY <2>1, <2>2 DEF IInv
  <1> QED BY <1>1, <1>2 DEF Next, Terminated

\* However many processes edit whatever files, and whenever they fail or are
\* killed, a file which is replaced by way of a temporary one (write_out_to) is
\* one whole image at every moment.
THEOREM TargetWholeCorrect == Spec => []TargetWhole
  <1>1. IInv => TargetWhole BY DEF IInv
  <1> QED BY InitInv, NextInv, <1>1, PTL DEF Spec

(***************************************************************************)
(* Flags: the inductive invariant.                                         *)
(***************************************************************************)
Flagging(a) == a.kind \in {"add", "remove"} /\ a.arg # <<>>
\* The flags which an action is to turn on or off, and those which it does
\* as it is now.
Meaning(a) == IF a.kind = "add" THEN Simplified(a.arg) ELSE Inverted(Simplified(a.arg))
Effect(b) == IF b.fn = "remove" THEN Inverted(b.arg) ELSE b.arg
\* Action a of the command line has become b.
Became(a, b) ==
  /\ DOMAIN b = {"fn", "was", "arg"}
  /\ IF Flagging(a) THEN b.fn \in {"add", "remove"} /\ Effect(b) = Meaning(a)
                    ELSE b.fn \notin {"add", "remove"} /\ b.was \notin {"add", "remove"}

After == {"create", "write", "rename", "next"}
ProcFlags(p) ==
  LET as == cmd[p].acts IN
  /\ acts[p] = [k \in 1 .. Len(as) |-> acts[p][k]]
  /\ \A k \in 1 .. Len(as) : Became(as[k], acts[p][k])
  /\ erw[p].orig.flags \subseteq Flags
  /\ pc[p] = "acts" => /\ next[p] \in 1 .. Len(as) + 1
                       /\ erw[p].flags = MeantFlags(as, next[p] - 1, erw[p].orig.flags)
  /\ pc[p] \in After => erw[p].flags = MeantFlags(as, Len(as), erw[p].orig.flags)
\* Every block comes from an image with known flags.
Coloured == \A n \in Names : \A j \in DOMAIN files[n] : files[n][j].of.flags \subseteq Flags
FInv == /\ IInv /\ Coloured
        /\ cmd \in CommandLines /\ DOMAIN acts = Procs /\ DOMAIN next = Procs
        /\ \A p \in Procs : ProcFlags(p)

(***************************************************************************)
(* What a list of actions means, action by action.                         *)
(***************************************************************************)
LEMMA ElementIn ==
  ASSUME NEW S, NEW s \in Seq(S), NEW j \in DOMAIN s PROVE s[j] \in S
  OBVIOUS

LEMMA MeaningOf ==
  ASSUME NEW as, WellFormed(as), NEW k \in DOMAIN as, Flagging(as[k])
  PROVE  /\ DOMAIN Meaning(as[k]) \subseteq Flags
         /\ \A x : x \in DOMAIN Meaning(as[k]) <=> MentionsOf(as[k].arg, x) # {}
         /\ \A x \in DOMAIN Meaning(as[k]) : Meaning(as[k])[x] <=> TurnedOn(as[k], x)
  <1> DEFINE list == as[k].arg
  <1>1. list \in Seq([flag : Flags, on : BOOLEAN]) BY DEF WellFormed, Flagging
  <1>2. DOMAIN Meaning(as[k]) = {list[j].flag : j \in DOMAIN list} BY DEF Meaning, Simplified, Inverted
  <1>3. \A j \in DOMAIN list : list[j].flag \in Flags
    <2> HIDE DEF list
    <2>1. \A j \in DOMAIN list : list[j] \in [flag : Flags, on : BOOLEAN] BY <1>1, ElementIn
    <2> QED BY <2>1
  <1>4. ASSUME NEW x \in DOMAIN Meaning(as[k]) PROVE Meaning(as[k])[x] <=> TurnedOn(as[k], x)
    BY <1>2, <1>4 DEF Meaning, Simplified, Inverted, TurnedOn
  <1> QED BY <1>2, <1>3, <1>4 DEF MentionsOf

\* The latest action which mentions a flag is the last one, if that does.
LEMMA LatestIs ==
  ASSUME NEW S, NEW n \in S, n \in Nat, S \subseteq 1 .. n
  PROVE  Latest(S) = n
  <1>1. \E k \in S : \A l \in S : l <= k OBVIOUS
  <1>2. Latest(S) \in S /\ \A l \in S : l <= Latest(S) BY <1>1 DEF Latest
  <1>3. Latest(S) \in 1 .. n /\ n <= Latest(S) BY <1>2
  <1> QED BY <1>3

LEMMA MentioningLast ==
  ASSUME NEW as, NEW n \in Nat \ {0}, NEW x
  PROVE  /\ Flagging(as[n]) /\ MentionsOf(as[n].arg, x) # {} =>
              n \in Mentioning(as, n, x) /\ Mentioning(as, n, x) \subseteq 1 .. n
         /\ ~Flagging(as[n]) \/ MentionsOf(as[n].arg, x) = {} =>
              Mentioning(as, n, x) = Mentioning(as, n - 1, x)
  <1>1. as[n].arg = <<>> => MentionsOf(as[n].arg, x) = {} BY DEF MentionsOf
  <1> DEFINE Has(k) == as[k].kind \in {"add", "remove"} /\ MentionsOf(as[k].arg, x) # {}
  <1>2. Has(n) <=> Flagging(as[n]) /\ MentionsOf(as[n].arg, x) # {} BY <1>1 DEF Flagging
  <1>3. \A k : Mentioning(as, k, x) = {j \in 1 .. k : Has(j)} BY DEF Mentioning
  <1> HIDE DEF Has
  <1>4. Has(n) => n \in {j \in 1 .. n : Has(j)} OBVIOUS
  <1>5. ~Has(n) => {j \in 1 .. n : Has(j)} = {j \in 1 .. n - 1 : Has(j)}
    <2>1. \A j : j \in 1 .. n <=> j \in 1 .. n - 1 \/ j = n OBVIOUS
    <2> QED BY <2>1
  <1> QED BY <1>2, <1>3, <1>4, <1>5

LEMMA MeantNone ==
  ASSUME NEW as, NEW flags \in SUBSET Flags
  PROVE  MeantFlags(as, 0, flags) = flags
  BY DEF MeantFlags, Mentioning

LEMMA MeantSkip ==
  ASSUME NEW as, WellFormed(as), NEW n \in 1 .. Len(as), ~Flagging(as[n]), NEW flags
  PROVE  MeantFlags(as, n, flags) = MeantFlags(as, n - 1, flags)
  <1>1. n \in Nat \ {0} BY DEF WellFormed
  <1>2. \A x : Mentioning(as, n, x) = Mentioning(as, n - 1, x) BY <1>1, MentioningLast
  <1> QED BY <1>2 DEF MeantFlags

LEMMA MeantAct ==
  ASSUME NEW as, WellFormed(as), NEW n \in 1 .. Len(as), Flagging(as[n]), NEW e,
         NEW flags, e.flags = MeantFlags(as, n - 1, flags), DOMAIN e = Fields
  PROVE  AddFlags(e, Meaning(as[n])).flags = MeantFlags(as, n, flags)
  <1>1. n \in DOMAIN as /\ n \in Nat \ {0}
    <2>1. Len(as) \in Nat /\ DOMAIN as = 1 .. Len(as) BY DEF WellFormed
    <2>2. n \in DOMAIN as BY <2>1, Zenon
    <2>3. n \in Nat \ {0} BY <2>1
    <2> QED BY <2>2, <2>3
  <1> DEFINE m == Meaning(as[n])
             new == (e.flags \ {x \in DOMAIN m : ~m[x]}) \cup {x \in DOMAIN m : m[x]}
  <1>2. AddFlags(e, m).flags = new BY DEF AddFlags, Fields
  <1>3. /\ DOMAIN m \subseteq Flags
        /\ \A x : x \in DOMAIN m <=> MentionsOf(as[n].arg, x) # {}
        /\ \A x \in DOMAIN m : m[x] <=> TurnedOn(as[n], x)
    BY <1>1, MeaningOf
  <1> HIDE DEF m
  <1>4. ASSUME NEW x \in Flags, x \notin DOMAIN m PROVE x \in new <=> x \in MeantFlags(as, n, flags)
    <2>1. MentionsOf(as[n].arg, x) = {} BY <1>3, <1>4
    <2>2. Mentioning(as, n, x) = Mentioning(as, n - 1, x) BY <1>1, <2>1, MentioningLast
    <2> QED BY <1>4, <2>2 DEF MeantFlags
  <1>5. ASSUME NEW x \in Flags, x \in DOMAIN m PROVE x \in new <=> x \in MeantFlags(as, n, flags)
    <2>1. n \in Mentioning(as, n, x) /\ Mentioning(as, n, x) \subseteq 1 .. n
      BY <1>1, <1>3, <1>5, MentioningLast
    <2>2. Latest(Mentioning(as, n, x)) = n BY <1>1, <2>1, LatestIs
    <2>3. x \in MeantFlags(as, n, flags) <=> TurnedOn(as[n], x) BY <2>1, <2>2 DEF MeantFlags
    <2>4. x \in new <=> m[x] BY <1>5
    <2> QED BY <1>3, <1>5, <2>3, <2>4
  <1>6. new \subseteq Flags BY <1>3 DEF MeantFlags
  <1>7. MeantFlags(as, n, flags) \subseteq Flags BY DEF MeantFlags
  <1> HIDE DEF new
  <1>8. new = MeantFlags(as, n, flags) BY <1>4, <1>5, <1>6, <1>7
  <1> QED BY <1>2, <1>8 DEF m

(***************************************************************************)
(* The steps, of flags.                                                    *)
(***************************************************************************)
LEMMA Lines ==
  ASSUME NEW p \in Procs, FInv
  PROVE  LET as == cmd[p].acts IN
         /\ WellFormed(as) /\ Len(as) \in Nat /\ DOMAIN as = 1 .. Len(as)
         /\ DOMAIN acts[p] = 1 .. Len(as) /\ Len(acts[p]) = Len(as)
  <1> DEFINE as == cmd[p].acts
  <1>1. WellFormed(as) BY ProgramAssumption DEF FInv
  <1>2. Len(as) \in Nat /\ DOMAIN as = 1 .. Len(as) BY <1>1 DEF WellFormed
  <1>3. acts[p] = [k \in 1 .. Len(as) |-> acts[p][k]] BY DEF FInv, ProcFlags
  <1>4. \A n \in Nat : \A f : f = [k \in 1 .. n |-> f[k]] => DOMAIN f = 1 .. n /\ Len(f) = n OBVIOUS
  <1> HIDE DEF as
  <1>5. DOMAIN acts[p] = 1 .. Len(as) /\ Len(acts[p]) = Len(as) BY <1>2, <1>3, <1>4
  <1> QED BY <1>1, <1>2, <1>5 DEF as

\* A step of p which leaves the other processes as they are.
LEMMA Other ==
  ASSUME NEW p \in Procs, FInv, IInv', Coloured', ProcFlags(p)', cmd' = cmd,
         DOMAIN acts' = Procs, DOMAIN next' = Procs,
         \A q \in Procs \ {p} : acts'[q] = acts[q] /\ next'[q] = next[q] /\ erw'[q] = erw[q] /\ pc'[q] = pc[q]
  PROVE  FInv'
  <1>1. ASSUME NEW q \in Procs \ {p} PROVE ProcFlags(q)' BY <1>1 DEF FInv, ProcFlags
  <1> QED BY <1>1 DEF FInv

\* A step to another place.
LEMMA MoveFlags ==
  ASSUME NEW p \in Procs, FInv, IInv', Coloured', UNCHANGED <<cmd, acts, next, erw>>,
         NEW w, Goto(p, w) \/ (pc' = pc /\ w = pc[p]), w # "acts", w \in After => pc[p] \in After
  PROVE  FInv'
  <1>1. pc'[p] = w /\ \A q \in Procs \ {p} : pc'[q] = pc[q] BY DEF Goto, FInv, IInv, Domains
  <1>2. ProcFlags(p)' BY <1>1 DEF FInv, ProcFlags
  <1> QED BY <1>1, <1>2, Other DEF FInv

\* Images which are opened are those which files are of.
LEMMA OpenedColour ==
  ASSUME NEW p \in Procs, FInv, Open(p) \/ OpenEmpty(p)
  PROVE  \E image : image.flags \subseteq Flags /\ Start(p, image)
  <1>1. CASE OpenEmpty(p) BY <1>1, ProgramAssumption DEF OpenEmpty, Image
  <1>2. CASE Open(p)
    <2>1. Path(p) \in Paths BY <1>2 DEF Open, Path, FInv, IInv, ProcInv, Own
    <2>2. Source(p) \in Names BY <2>1 DEF Source, Stdin, File, Tmp, Names
    <2> DEFINE f == files[Source(p)]
    <2>3. f # <<>> /\ f = Data(f[1].of) /\ Start(p, f[1].of) BY <1>2 DEF Open, IsWhole
    <2>4. PICK j \in DOMAIN f : TRUE
      <3>1. Data(f[1].of) = <<>> \/ DOMAIN Data(f[1].of) # {} BY DEF Data
      <3> QED BY <2>3, <3>1
    <2>5. f[j].of = f[1].of
      <3>1. ASSUME NEW image, NEW k \in DOMAIN Data(image) PROVE Data(image)[k].of = image BY DEF Data
      <3>2. j \in DOMAIN Data(f[1].of) /\ f[j] = Data(f[1].of)[j] BY <2>3
      <3> HIDE DEF f
      <3> QED BY <3>1, <3>2
    <2>6. f[j].of.flags \subseteq Flags BY <2>2, <2>4 DEF FInv, Coloured
    <2> QED BY <2>3, <2>5, <2>6
  <1> QED BY <1>1, <1>2

LEMMA StartFlags ==
  ASSUME NEW p \in Procs, FInv, IInv', Open(p) \/ OpenEmpty(p)
  PROVE  FInv'
  <1>1. PICK image : image.flags \subseteq Flags /\ Start(p, image) BY OpenedColour
  <1> DEFINE as == cmd[p].acts
  <1>2. /\ erw'[p] = Opened(image) /\ next'[p] = 1 /\ pc'[p] = "acts" /\ UNCHANGED <<cmd, acts>>
        /\ DOMAIN next' = Procs
        /\ \A q \in Procs \ {p} : next'[q] = next[q] /\ erw'[q] = erw[q] /\ pc'[q] = pc[q]
    BY <1>1 DEF Start, Goto, FInv, IInv, Domains
  <1>3. \A n \in Names : files'[n] = files[n] \/ files'[n] = <<>>
    BY DEF Open, OpenEmpty, FInv, IInv, Domains
  <1>4. Coloured' BY <1>3 DEF FInv, Coloured
  <1>5. MeantFlags(as, 0, image.flags) = image.flags BY <1>1, MeantNone
  <1>6. 1 \in 1 .. Len(as) + 1 BY Lines
  <1>7. erw'[p].flags = image.flags /\ erw'[p].orig.flags = image.flags BY <1>2 DEF Opened
  <1>8. acts[p] = [k \in 1 .. Len(as) |-> acts[p][k]] /\ \A k \in 1 .. Len(as) : Became(as[k], acts[p][k])
    BY DEF FInv, ProcFlags
  <1>9. ProcFlags(p)'
    <2> HIDE DEF as
    <2>1. as' = as BY <1>2 DEF as
    <2>2. next'[p] - 1 = 0 BY <1>2
    <2>3. (\A k \in 1 .. Len(as) : Became(as[k], acts[p][k]))' BY <1>2, <1>8 DEF as
    <2> QED BY <1>1, <1>2, <1>5, <1>6, <1>7, <1>8, <2>1, <2>2, <2>3 DEF ProcFlags, After, as
  <1> QED BY <1>2, <1>4, <1>9, Other DEF FInv

\* One action is changed, or none.
LEMMA OneAct ==
  ASSUME NEW p \in Procs, FInv, Act(p), NEW b,
         acts' = [acts EXCEPT ![p][next[p]] = b] \/ (acts' = acts /\ b = Current(p))
  PROVE  /\ DOMAIN acts' = Procs /\ \A q \in Procs \ {p} : acts'[q] = acts[q]
         /\ acts'[p] = [k \in 1 .. Len(cmd[p].acts) |-> IF k = next[p] THEN b ELSE acts[p][k]]
  <1> DEFINE as == cmd[p].acts
             n == next[p]
  <1>1. acts[p] = [k \in 1 .. Len(as) |-> acts[p][k]] /\ DOMAIN acts = Procs BY DEF FInv, ProcFlags
  <1>2. /\ DOMAIN acts' = Procs /\ \A q \in Procs \ {p} : acts'[q] = acts[q]
        /\ (acts'[p] = [acts[p] EXCEPT ![n] = b]) \/ (acts'[p] = acts[p] /\ b = acts[p][n])
    <2>1. CASE acts' = acts /\ b = Current(p) BY <1>1, <2>1 DEF Current
    <2>2. CASE acts' = [acts EXCEPT ![p][next[p]] = b]
      <3> DEFINE new == [acts[p] EXCEPT ![n] = b]
      <3>1. acts' = [acts EXCEPT ![p] = new] BY <2>2
      <3> HIDE DEF new
      <3>2. DOMAIN acts' = Procs /\ acts'[p] = new /\ \A q \in Procs \ {p} : acts'[q] = acts[q] BY <1>1, <3>1
      <3>3. acts'[p] = [acts[p] EXCEPT ![n] = b] BY <3>2 DEF new
      <3> QED BY <3>2, <3>3
    <2> QED BY <2>1, <2>2
  <1>3. acts'[p] = [k \in 1 .. Len(as) |-> IF k = n THEN b ELSE acts[p][k]]
    <2> HIDE DEF as, n
    <2> QED BY <1>1, <1>2
  <1> QED BY <1>2, <1>3

\* An action changes itself, the image and what is next.
LEMMA ActStep ==
  ASSUME NEW p \in Procs, FInv, IInv', Act(p), Proceed(p), NEW b, NEW e,
         acts' = [acts EXCEPT ![p][next[p]] = b] \/ (acts' = acts /\ b = Current(p)),
         erw' = [erw EXCEPT ![p] = e] \/ (erw' = erw /\ e = erw[p]),
         Became(cmd[p].acts[next[p]], b), e.orig = erw[p].orig,
         e.flags = MeantFlags(cmd[p].acts, next[p], erw[p].orig.flags)
  PROVE  FInv'
  <1> DEFINE as == cmd[p].acts
             n == next[p]
  <1>1. /\ pc[p] = "acts" /\ n \in Nat /\ n \in 1 .. Len(as) /\ Len(as) \in Nat
        /\ UNCHANGED <<files, cmd, pc>>
    BY Lines DEF Act, Proceed, FInv, ProcFlags
  <1>2. DOMAIN acts = Procs /\ DOMAIN next = Procs /\ DOMAIN erw = Procs BY DEF FInv, IInv, Domains
  <1>3. acts[p] = [k \in 1 .. Len(as) |-> acts[p][k]] /\ (\A k \in 1 .. Len(as) : Became(as[k], acts[p][k]))
        /\ erw[p].orig.flags \subseteq Flags
    BY DEF FInv, ProcFlags
  <1>4. next'[p] = n + 1 /\ DOMAIN next' = Procs /\ \A q \in Procs \ {p} : next'[q] = next[q]
    BY <1>2 DEF Proceed
  <1>5. erw'[p] = e /\ \A q \in Procs \ {p} : erw'[q] = erw[q] BY <1>2
  <1>6. DOMAIN acts' = Procs /\ \A q \in Procs \ {p} : acts'[q] = acts[q] BY OneAct
  <1>7. acts'[p] = [k \in 1 .. Len(as) |-> IF k = n THEN b ELSE acts[p][k]] BY OneAct
  <1>8. acts'[p] = [k \in 1 .. Len(as) |-> acts'[p][k]] /\ \A k \in 1 .. Len(as) : Became(as[k], acts'[p][k])
    <2> HIDE DEF as, n
    <2>1. Became(as[n], b) BY DEF as, n
    <2> QED BY <1>3, <1>7, <2>1
  <1>9. n + 1 \in 1 .. Len(as) + 1 /\ (n + 1) - 1 = n BY <1>1
  <1>10. ProcFlags(p)'
    <2>1. as' = as BY <1>1
    <2>2. (\A k \in 1 .. Len(as) : Became(as[k], acts[p][k]))' BY <1>1, <1>8
    <2> HIDE DEF as, n
    <2>3. e.flags = MeantFlags(as, n, erw[p].orig.flags) BY DEF as, n
    <2> QED BY <1>1, <1>3, <1>4, <1>5, <1>8, <1>9, <2>1, <2>2, <2>3 DEF ProcFlags, After, as
  <1>11. Coloured' BY <1>1 DEF FInv, Coloured
  <1> QED BY <1>1, <1>4, <1>5, <1>6, <1>10, <1>11, Other

\* The action which is next, and what has been made of the image before it.
LEMMA Acting ==
  ASSUME NEW p \in Procs, FInv, Act(p)
  PROVE  LET as == cmd[p].acts
             n == next[p] IN
         /\ WellFormed(as) /\ n \in 1 .. Len(as) /\ Became(as[n], Current(p))
         /\ erw[p].flags = MeantFlags(as, n - 1, erw[p].orig.flags)
         /\ DOMAIN erw[p] = Fields
  <1> DEFINE as == cmd[p].acts
             n == next[p]
  <1>1. /\ WellFormed(as) /\ Len(as) \in Nat /\ Len(acts[p]) = Len(as) BY Lines
  <1>2. /\ n \in 1 .. Len(as) + 1 /\ n <= Len(acts[p])
        /\ erw[p].flags = MeantFlags(as, n - 1, erw[p].orig.flags)
        /\ \A k \in 1 .. Len(as) : Became(as[k], acts[p][k])
    BY DEF Act, FInv, ProcFlags
  <1>3. n \in 1 .. Len(as) BY <1>1, <1>2
  <1>4. DOMAIN erw[p] = Fields BY DEF FInv, IInv, ProcInv, Own
  <1> QED BY <1>1, <1>2, <1>3, <1>4 DEF Current

\* --remove-flags turns its list around once, and does the same ever after.
LEMMA Turned ==
  ASSUME NEW a, NEW b, Became(a, b), b.fn \in {"add", "remove"},
         NEW c, c = IF b.fn = "remove" THEN RemoveFlag(b) ELSE b
  PROVE  Flagging(a) /\ c.arg = Meaning(a) /\ Became(a, c)
  <1>1. Flagging(a) /\ Effect(b) = Meaning(a) /\ DOMAIN b = {"fn", "was", "arg"} BY DEF Became
  <1>2. CASE b.fn = "add" BY <1>1, <1>2 DEF Effect
  <1>3. CASE b.fn = "remove"
    <2>1. DOMAIN c = {"fn", "was", "arg"} /\ c.fn = "add" /\ c.arg = Inverted(b.arg)
      BY <1>1, <1>3 DEF RemoveFlag
    <2> QED BY <1>1, <1>3, <2>1 DEF Effect, Became
  <1> QED BY <1>2, <1>3

LEMMA ActFlagsFlags ==
  ASSUME NEW p \in Procs, FInv, IInv', ActFlags(p) PROVE FInv'
  <1> DEFINE a == IF Current(p).fn = "remove" THEN RemoveFlag(Current(p)) ELSE Current(p)
             e == AddFlags(erw[p], a.arg)
             as == cmd[p].acts
             n == next[p]
  <1>1. /\ Act(p) /\ Proceed(p) /\ Current(p).fn \in {"add", "remove"}
        /\ acts' = [acts EXCEPT ![p][next[p]] = a] /\ erw' = [erw EXCEPT ![p] = e]
    BY DEF ActFlags
  <1>2. /\ WellFormed(as) /\ n \in 1 .. Len(as) /\ Became(as[n], Current(p))
        /\ erw[p].flags = MeantFlags(as, n - 1, erw[p].orig.flags) /\ DOMAIN erw[p] = Fields
    BY <1>1, Acting
  <1>3. Flagging(as[n]) /\ a.arg = Meaning(as[n]) /\ Became(as[n], a)
    <2> HIDE DEF as, n
    <2> QED BY <1>1, <1>2, Turned
  <1>4. e.flags = MeantFlags(as, n, erw[p].orig.flags) BY <1>2, <1>3, MeantAct
  <1>5. e.orig = erw[p].orig
    <2>1. \A arg : AddFlags(erw[p], arg).orig = erw[p].orig BY <1>2 DEF AddFlags, Fields
    <2> QED BY <2>1
  <1> HIDE DEF a, e
  <1> QED BY <1>1, <1>3, <1>4, <1>5, ActStep

\* The other actions leave the flags as they are.
LEMMA ActOtherFlags ==
  ASSUME NEW p \in Procs, FInv, IInv', ActInterpreter(p) \/ ActPrint(p) \/ ActInert(p) PROVE FInv'
  <1> DEFINE as == cmd[p].acts
             n == next[p]
  <1>1. Act(p) /\ Proceed(p) /\ Current(p).fn \notin {"add", "remove"}
    BY DEF ActInterpreter, ActPrint, ActInert
  <1>2. /\ WellFormed(as) /\ n \in 1 .. Len(as) /\ Became(as[n], Current(p))
        /\ erw[p].flags = MeantFlags(as, n - 1, erw[p].orig.flags) /\ DOMAIN erw[p] = Fields
    BY <1>1, Acting
  <1>3. ~Flagging(as[n]) BY <1>1, <1>2 DEF Became
  <1>4. erw[p].flags = MeantFlags(as, n, erw[p].orig.flags) BY <1>2, <1>3, MeantSkip
  <1>5. DOMAIN acts = Procs BY DEF FInv
  <1>6. CASE ActInert(p) \/ (ActPrint(p) /\ erw[p].retry)
    <2>1. acts' = acts /\ erw' = erw BY <1>6 DEF ActInert, ActPrint
    <2> QED BY <1>1, <1>2, <1>4, <2>1, ActStep
  <1>7. CASE ActPrint(p) /\ ~erw[p].retry
    <2> DEFINE b == [Current(p) EXCEPT !.fn = "inert"]
    <2>1. acts' = [acts EXCEPT ![p][next[p]] = b] /\ erw' = erw BY <1>7 DEF ActPrint, Current
    <2>2. Became(as[n], b)
      <3>1. DOMAIN b = DOMAIN Current(p) /\ b.fn = "inert" /\ b.was = Current(p).was
        BY <1>2 DEF Became
      <3> HIDE DEF b
      <3> QED BY <1>2, <1>3, <3>1 DEF Became
    <2> HIDE DEF b
    <2> QED BY <1>1, <1>4, <2>1, <2>2, ActStep
  <1>8. CASE ActInterpreter(p)
    <2>1. PICK fails \in Failing(p) :
            erw' = IF erw[p].interp = Current(p).arg THEN erw
                   ELSE [erw EXCEPT ![p] = SetInterpreter(@, Current(p).arg, fails)]
      BY <1>8 DEF ActInterpreter
    <2> DEFINE e == IF erw[p].interp = Current(p).arg THEN erw[p] ELSE SetInterpreter(erw[p], Current(p).arg, fails)
    <2>2. (erw' = [erw EXCEPT ![p] = e]) \/ (erw' = erw /\ e = erw[p]) BY <2>1
    <2>3. e.flags = erw[p].flags /\ e.orig = erw[p].orig BY <1>2 DEF SetInterpreter, Fields
    <2>4. acts' = acts BY <1>8 DEF ActInterpreter
    <2> HIDE DEF e
    <2> QED BY <1>1, <1>2, <1>4, <2>2, <2>3, <2>4, ActStep
  <1> QED BY <1>6, <1>7, <1>8

\* A new round begins with the flags of the file; or else the actions are done.
LEMMA FlushFlags ==
  ASSUME NEW p \in Procs, FInv, IInv', Flush(p) PROVE FInv'
  <1> DEFINE as == cmd[p].acts
  <1>1. /\ pc[p] = "acts" /\ next[p] > Len(acts[p]) /\ UNCHANGED <<files, cmd, acts>>
        /\ \/ /\ erw' = [erw EXCEPT ![p] = Again(@)] /\ next' = [next EXCEPT ![p] = 1] /\ UNCHANGED pc
           \/ Goto(p, IF Wanted(p) THEN "create" ELSE "next") /\ UNCHANGED <<erw, next>>
    BY DEF Flush
  <1>2. DOMAIN erw = Procs /\ DOMAIN pc = Procs /\ DOMAIN next = Procs /\ DOMAIN acts = Procs
    BY DEF FInv, IInv, Domains
  <1>3. /\ acts[p] = [k \in 1 .. Len(as) |-> acts[p][k]]
        /\ \A k \in 1 .. Len(as) : Became(as[k], acts[p][k])
        /\ erw[p].orig.flags \subseteq Flags
        /\ next[p] \in 1 .. Len(as) + 1 /\ erw[p].flags = MeantFlags(as, next[p] - 1, erw[p].orig.flags)
    BY <1>1 DEF FInv, ProcFlags
  <1>4. Len(as) \in Nat /\ Len(acts[p]) = Len(as) BY Lines
  <1>5. Coloured' BY <1>1 DEF FInv, Coloured
  <1>6. as' = as BY <1>1
  <1>7. CASE erw' = [erw EXCEPT ![p] = Again(@)] /\ next' = [next EXCEPT ![p] = 1] /\ UNCHANGED pc
    <2>1. /\ erw'[p] = Again(erw[p]) /\ next'[p] = 1 /\ pc'[p] = "acts" /\ DOMAIN next' = Procs
          /\ \A q \in Procs \ {p} : next'[q] = next[q] /\ erw'[q] = erw[q] /\ pc'[q] = pc[q]
      BY <1>1, <1>2, <1>7
    <2>2. erw'[p].orig = erw[p].orig /\ erw'[p].flags = erw[p].orig.flags BY <2>1 DEF Again, Opened
    <2>3. MeantFlags(as, 0, erw[p].orig.flags) = erw[p].orig.flags BY <1>3, MeantNone
    <2>4. 1 \in 1 .. Len(as) + 1 /\ 1 - 1 = 0 BY <1>4
    <2>5. ProcFlags(p)'
      <3>1. (\A k \in 1 .. Len(as) : Became(as[k], acts[p][k]))' BY <1>1, <1>3
      <3> HIDE DEF as
      <3> QED BY <1>1, <1>3, <1>6, <2>1, <2>2, <2>3, <2>4, <3>1 DEF ProcFlags, After, as
    <2> QED BY <1>1, <1>2, <1>5, <2>1, <2>5, Other
  <1>8. CASE Goto(p, IF Wanted(p) THEN "create" ELSE "next") /\ UNCHANGED <<erw, next>>
    <2>1. pc'[p] \in {"create", "next"} /\ \A q \in Procs \ {p} : pc'[q] = pc[q] BY <1>2, <1>8 DEF Goto
    <2>2. erw[p].flags = MeantFlags(as, Len(as), erw[p].orig.flags)
      <3>1. next[p] - 1 = Len(as) BY <1>1, <1>3, <1>4
      <3> QED BY <1>3, <3>1
    <2>3. ProcFlags(p)'
      <3>1. (\A k \in 1 .. Len(as) : Became(as[k], acts[p][k]))' BY <1>1, <1>3
      <3> HIDE DEF as
      <3> QED BY <1>1, <1>3, <1>6, <1>8, <2>1, <2>2, <3>1 DEF ProcFlags, After, as
    <2> QED BY <1>1, <1>2, <1>5, <1>8, <2>1, <2>3, Other
  <1> QED BY <1>1, <1>7, <1>8

\* What a process writes comes from an image with known flags.
LEMMA BytesColour ==
  ASSUME NEW p \in Procs, FInv, pc[p] \in After
  PROVE  \A k \in DOMAIN Bytes(p) : Bytes(p)[k].of.flags \subseteq Flags
  <1>1. erw[p].flags \subseteq Flags BY DEF FInv, ProcFlags, MeantFlags
  <1>2. Result(erw[p]).flags = erw[p].flags BY DEF Result
  <1> QED BY <1>1, <1>2 DEF Bytes, Data

\* The steps which write, close and rename, and those which end the process.
LEMMA WriteFlags ==
  ASSUME NEW p \in Procs, FInv, IInv', Write(p) PROVE FInv'
  <1>1. pc[p] = "write" /\ UNCHANGED <<cmd, acts, next, erw, pc>> /\ done[p] \in Nat /\ done[p] < Len(Bytes(p))
    BY DEF Write, FInv, IInv, ProcInv, Own
  <1>2. Len(Bytes(p)) = Result(erw[p]).size /\ DOMAIN Bytes(p) = 1 .. Result(erw[p]).size /\ Result(erw[p]).size \in Nat
    <2>1. \A m \in Nat : \A f : DOMAIN f = 1 .. m /\ f = [j \in 1 .. m |-> f[j]] => Len(f) = m OBVIOUS
    <2>2. Result(erw[p]).size \in Nat BY DEF Result, FInv, IInv, ProcInv, Own, Sized
    <2>3. Bytes(p) = [j \in 1 .. Result(erw[p]).size |-> Bytes(p)[j]] BY DEF Bytes, Data
    <2> QED BY <2>1, <2>2, <2>3
  <1>3. done[p] + 1 \in DOMAIN Bytes(p) BY <1>1, <1>2
  <1> DEFINE b == Bytes(p)[done[p] + 1]
  <1>4. b.of.flags \subseteq Flags BY <1>1, <1>3, BytesColour DEF After
  <1>5. \A n \in Names : files'[n] = files[n] \/ files'[n] = Overwritten(files[n], done[p] + 1, b)
    BY DEF Write, FInv, IInv, Domains
  <1>6. Coloured'
    <2> HIDE DEF b
    <2> DEFINE k == done[p] + 1
    <2>1. ASSUME NEW n \in Names, NEW j \in DOMAIN files'[n] PROVE files'[n][j].of.flags \subseteq Flags
      <3> HIDE DEF k
      <3>1. CASE files'[n] = files[n] BY <2>1, <3>1 DEF FInv, Coloured
      <3>2. CASE files'[n] = Overwritten(files[n], k, b)
        <4>1. j \in DOMAIN files[n] \cup {k} /\ files'[n][j] = IF j = k THEN b ELSE files[n][j]
          BY <2>1, <3>2 DEF Overwritten
        <4> QED BY <1>4, <4>1 DEF FInv, Coloured
      <3>3. files'[n] = files[n] \/ files'[n] = Overwritten(files[n], k, b) BY <1>5 DEF k
      <3> QED BY <3>1, <3>2, <3>3
    <2> QED BY <2>1 DEF Coloured
  <1> QED BY <1>1, <1>6, MoveFlags DEF After

LEMMA RestFlags ==
  ASSUME NEW p \in Procs, FInv, IInv',
         OpenFails(p) \/ Create(p) \/ CreateFails(p) \/ WriteFails(p) \/ Close(p) \/ Exit(p) \/ Kill(p)
  PROVE  FInv'
  <1>1. UNCHANGED <<files, cmd, acts, next, erw>>
    BY DEF OpenFails, Create, CreateFails, WriteFails, Close, Exit, Kill, Fatal
  <1>2. Coloured' BY <1>1 DEF FInv, Coloured
  <1>3. CASE Goto(p, "failed") \/ Goto(p, "ok") \/ Goto(p, "killed")
    BY <1>1, <1>2, <1>3, MoveFlags DEF After
  <1>4. CASE pc[p] \in After /\ (Goto(p, "write") \/ Goto(p, "rename") \/ Goto(p, "next"))
    BY <1>1, <1>2, <1>4, MoveFlags DEF After
  <1> QED BY <1>3, <1>4 DEF After, OpenFails, Create, CreateFails, WriteFails, Close, Exit, Kill, Fatal

LEMMA RenameFlags ==
  ASSUME NEW p \in Procs, FInv, IInv', Rename(p) \/ RenameFails(p) PROVE FInv'
  <1>1. UNCHANGED <<cmd, acts, next, erw>> /\ pc[p] = "rename" BY DEF Rename, RenameFails
  <1>2. out[p] \in Names /\ DOMAIN files = Names
    <2>1. out[p] = Goes(p) /\ Target(p) \in Paths BY <1>1, ProgramAssumption DEF FInv, IInv, ProcInv, Writing
    <2>2. Goes(p) \in Names BY <2>1, NamesApart DEF Goes
    <2> QED BY <2>1, <2>2 DEF FInv, IInv, Domains
  <1>3. \A n \in Names : files'[n] = <<>> \/ \E m \in Names : files'[n] = files[m]
    BY <1>2 DEF Rename, RenameFails
  <1>4. Coloured' BY <1>3 DEF FInv, Coloured
  <1> QED BY <1>1, <1>4, MoveFlags DEF After, Rename, RenameFails

\* Actions which are reset are none of those which change flags.
LEMMA NextFileFlags ==
  ASSUME NEW p \in Procs, FInv, IInv', NextFile(p) PROVE FInv'
  <1> DEFINE as == cmd[p].acts
             new == [k \in DOMAIN acts[p] |-> Reset(acts[p][k])]
  <1>1. acts' = [acts EXCEPT ![p] = new] /\ Goto(p, "open") /\ UNCHANGED <<files, cmd, erw, next>>
    BY DEF NextFile
  <1>2. /\ acts[p] = [k \in 1 .. Len(as) |-> acts[p][k]]
        /\ \A k \in 1 .. Len(as) : Became(as[k], acts[p][k])
        /\ erw[p].orig.flags \subseteq Flags
    BY DEF FInv, ProcFlags
  <1>3. DOMAIN acts = Procs /\ DOMAIN pc = Procs /\ DOMAIN next = Procs BY DEF FInv, IInv, Domains
  <1>4. \A a, b : Became(a, b) => Became(a, Reset(b))
    <2> SUFFICES ASSUME NEW a, NEW b, Became(a, b) PROVE Became(a, Reset(b)) OBVIOUS
    <2>1. CASE b.fn # "inert" BY <2>1 DEF Reset
    <2>2. CASE b.fn = "inert"
      <3>1. DOMAIN Reset(b) = {"fn", "was", "arg"} /\ Reset(b).fn = b.was /\ Reset(b).was = b.was
        BY <2>2 DEF Reset, Became
      <3>2. ~Flagging(a) /\ b.was \notin {"add", "remove"} BY <2>2 DEF Became
      <3> QED BY <3>1, <3>2 DEF Became
    <2> QED BY <2>1, <2>2
  <1>5. new = [k \in 1 .. Len(as) |-> new[k]] /\ \A k \in 1 .. Len(as) : Became(as[k], new[k])
    <2>1. DOMAIN acts[p] = 1 .. Len(as) BY Lines
    <2>2. \A k \in 1 .. Len(as) : new[k] = Reset(acts[p][k]) BY <2>1
    <2>3. \A k \in 1 .. Len(as) : Became(as[k], new[k]) BY <1>2, <1>4, <2>2
    <2>4. new = [k \in 1 .. Len(as) |-> new[k]] BY <2>1
    <2> QED BY <2>3, <2>4
  <1> HIDE DEF new
  <1>6. /\ acts'[p] = new /\ pc'[p] = "open" /\ DOMAIN acts' = Procs
        /\ \A q \in Procs \ {p} : acts'[q] = acts[q] /\ pc'[q] = pc[q]
    BY <1>1, <1>3 DEF Goto
  <1>7. ProcFlags(p)'
    <2>1. (\A k \in 1 .. Len(as) : Became(as[k], acts[p][k]))' BY <1>1, <1>5, <1>6
    <2>2. as' = as BY <1>1
    <2> HIDE DEF as
    <2> QED BY <1>1, <1>2, <1>5, <1>6, <2>1, <2>2 DEF ProcFlags, After, as
  <1>8. Coloured' BY <1>1 DEF FInv, Coloured
  <1> QED BY <1>1, <1>3, <1>6, <1>7, <1>8, Other

(***************************************************************************)
(* The flags which are written.                                            *)
(***************************************************************************)
LEMMA InitFlags == Init => FInv
  <1> SUFFICES ASSUME Init PROVE FInv OBVIOUS
  <1>1. IInv BY InitInv
  <1>2. \A image \in Originals : image.flags \subseteq Flags BY ProgramAssumption DEF Image
  <1>3. \A n \in Names : files[n] = <<>> \/ \E i \in Originals : files[n] = Data(i) BY DEF Init
  <1>4. Coloured
    <2>1. ASSUME NEW n \in Names, NEW j \in DOMAIN files[n] PROVE files[n][j].of.flags \subseteq Flags
      <3>1. PICK i \in Originals : files[n] = Data(i) BY <1>3, <2>1
      <3>2. files[n][j].of = i BY <2>1, <3>1 DEF Data
      <3> QED BY <1>2, <3>2
    <2> QED BY <2>1 DEF Coloured
  <1>5. ASSUME NEW p \in Procs PROVE ProcFlags(p)
    <2> DEFINE as == cmd[p].acts
    <2>1. WellFormed(as) /\ Len(as) \in Nat /\ DOMAIN as = 1 .. Len(as)
      BY ProgramAssumption DEF Init, WellFormed
    <2>2. acts[p] = [k \in 1 .. Len(as) |-> Parsed(as[k])] BY <2>1 DEF Init, ParsedLine
    <2>3. ASSUME NEW k \in 1 .. Len(as) PROVE Became(as[k], Parsed(as[k]))
      <3>1. as[k].kind \in {"add", "remove", "interp", "print"} BY <2>1 DEF WellFormed
      <3> HIDE DEF as
      <3> QED BY <3>1 DEF Became, Parsed, Flagging, Meaning, Effect
    <2>4. erw[p].orig.flags \subseteq Flags
      <3>1. erw[p] = NoErw BY DEF Init
      <3> QED BY <3>1, ProgramAssumption DEF NoErw, Image
    <2>5. pc[p] \in {"ok", "open"} BY DEF Init
    <2>6. acts[p] = [k \in 1 .. Len(as) |-> acts[p][k]] /\ \A k \in 1 .. Len(as) : Became(as[k], acts[p][k])
      <3> HIDE DEF as
      <3> QED BY <2>2, <2>3
    <2> QED BY <2>4, <2>5, <2>6 DEF ProcFlags, After
  <1>6. cmd \in CommandLines /\ DOMAIN acts = Procs /\ DOMAIN next = Procs BY DEF Init
  <1> QED BY <1>1, <1>4, <1>5, <1>6 DEF FInv

LEMMA NextFlags == FInv /\ [Next]_vars => FInv'
  <1> SUFFICES ASSUME FInv, [Next]_vars PROVE FInv' OBVIOUS
  <1>1. IInv' BY NextInv DEF FInv
  <1>2. ASSUME NEW p \in Procs, Step(p) PROVE FInv'
    <2>1. CASE Open(p) \/ OpenEmpty(p) BY <1>1, <2>1, StartFlags
    <2>2. CASE OpenFails(p) \/ Create(p) \/ CreateFails(p) \/ WriteFails(p) \/ Close(p) \/ Exit(p) \/ Kill(p)
      BY <1>1, <2>2, RestFlags
    <2>3. CASE ActFlags(p) \/ ActInterpreter(p) \/ ActPrint(p) \/ ActInert(p)
      BY <1>1, <2>3, ActFlagsFlags, ActOtherFlags
    <2>4. CASE Flush(p) \/ Write(p) BY <1>1, <2>4, FlushFlags, WriteFlags
    <2>5. CASE Rename(p) \/ RenameFails(p) \/ NextFile(p) BY <1>1, <2>5, RenameFlags, NextFileFlags
    <2> QED BY <1>2, <2>1, <2>2, <2>3, <2>4, <2>5 DEF Step
  <1>3. CASE UNCHANGED vars
    <2>1. Coloured' /\ cmd' \in CommandLines /\ DOMAIN acts' = Procs /\ DOMAIN next' = Procs
      BY <1>3 DEF vars, FInv, Coloured
    <2>2. ASSUME NEW p \in Procs PROVE ProcFlags(p)' BY <1>3 DEF vars, FInv, ProcFlags
    <2> QED BY <1>1, <2>1, <2>2 DEF FInv
  <1> QED BY <1>2, <1>3 DEF Next, Terminated

\* In however many rounds, and on every file of the command line, the flags of
\* what is written are those which the actions of the command line say, from
\* left to right and the last mention deciding (simplify_flags_list), although
\* action_remove_flag changes its own action.
THEOREM FlagsMeantCorrect == Spec => []FlagsMeant
  <1>1. FInv => FlagsMeant BY DEF FInv, ProcFlags, FlagsMeant, After
  <1> QED BY InitFlags, NextFlags, <1>1, PTL DEF Spec

(***************************************************************************)
(* Prints: the inductive invariant.                                        *)
(***************************************************************************)
\* The prints which have been made of the file, in this round or before.
Did(p) == {k \in Printing(cmd[p].acts) : acts[p][k].fn = "inert"}
\* An action which prints does so until it has, and then no more.
Printable(a, b) ==
  IF a.kind = "print" THEN b.fn \in {"print", "inert"} /\ b.was = "print"
                      ELSE b.fn # "print" /\ b.was # "print"
\* Prints are made from left to right, and up to the action which is next unless
\* the round has failed.
InOrder(p) ==
  /\ \A j \in Printing(cmd[p].acts), k \in Did(p) : j < k => j \in Did(p)
  /\ ~ erw[p].retry => \A j \in Printing(cmd[p].acts) : j < next[p] => j \in Did(p)
\* A round which has failed is going to be repeated.
Repeats(e) == e.retry \in BOOLEAN /\ e.modified \in BOOLEAN /\ (e.retry => e.modified)
ProcPrints(p) ==
  LET as == cmd[p].acts IN
  /\ \A k \in 1 .. Len(as) : Printable(as[k], acts[p][k])
  /\ Repeats(erw[p])
  /\ printed[p] \in Seq(SUBSET Flags)
  /\ pc[p] = "open" => Did(p) = {}
  /\ pc[p] = "acts" => InOrder(p) /\ Shows(printed[p], Did(p), as, erw[p].orig.flags)
  /\ pc[p] \in After => Shows(printed[p], Printing(as), as, erw[p].orig.flags)
PInv == FInv /\ DOMAIN printed = Procs /\ \A p \in Procs : ProcPrints(p)

(***************************************************************************)
(* What has been printed.                                                  *)
(***************************************************************************)
\* Nothing has been printed of a file which has just been opened.
LEMMA ShowsNothing ==
  ASSUME NEW as, NEW flags PROVE Shows(<<>>, {}, as, flags)
  BY FS_EmptySet DEF Shows

\* One more print, which comes after all others.
LEMMA ShowsMore ==
  ASSUME NEW N \in Nat, NEW K \in SUBSET (1 .. N), NEW n \in 1 .. N, \A k \in K : k < n,
         NEW list \in Seq(SUBSET Flags), NEW as, NEW flags, Shows(list, K, as, flags)
  PROVE  Shows(Append(list, MeantFlags(as, n, flags)), K \cup {n}, as, flags)
  <1> DEFINE new == MeantFlags(as, n, flags)
             L == Append(list, new)
             M == K \cup {n}
             Below(S, k) == {j \in S : j <= k}
  <1>1. n \notin K OBVIOUS
  <1>2. IsFiniteSet(K) /\ Cardinality(K) \in Nat /\ Cardinality(M) = Cardinality(K) + 1
    <2>1. IsFiniteSet(1 .. N) BY FS_Interval
    <2>2. IsFiniteSet(K) BY <2>1, FS_Subset
    <2> QED BY <1>1, <2>2, FS_CardinalityType, FS_AddElement
  <1>3. new \in SUBSET Flags BY DEF MeantFlags
  <1>4. Len(list) = Cardinality(K) BY DEF Shows
  <1> HIDE DEF new
  <1>5. /\ Len(L) = Cardinality(K) + 1 /\ L[Cardinality(K) + 1] = new
        /\ \A i \in 1 .. Cardinality(K) : L[i] = list[i]
    BY <1>2, <1>3, <1>4
  <1> HIDE DEF L, M
  <1>6. L[Cardinality(Below(M, n))] = new
    <2>1. \A j \in M : j <= n BY DEF M
    <2>2. Below(M, n) = M BY <2>1
    <2> QED BY <1>2, <1>5, <2>2
  <1>7. ASSUME NEW k \in K PROVE L[Cardinality(Below(M, k))] = MeantFlags(as, k, flags)
    <2> DEFINE B == Below(K, k)
    <2>1. Below(M, k) = B
      <3>1. ~(n <= k) BY <1>7
      <3> QED BY <3>1 DEF M
    <2>2. B \subseteq K /\ k \in B BY <1>7
    <2>3. list[Cardinality(B)] = MeantFlags(as, k, flags) BY <1>7 DEF Shows
    <2> HIDE DEF B
    <2>4. IsFiniteSet(B) /\ Cardinality(B) \in Nat /\ Cardinality(B) <= Cardinality(K)
      BY <1>2, <2>2, FS_Subset, FS_CardinalityType
    <2>5. Cardinality(B) # 0 BY <2>2, <2>4, FS_EmptySet
    <2>6. Cardinality(B) \in 1 .. Cardinality(K) BY <1>2, <2>4, <2>5
    <2> QED BY <1>5, <2>1, <2>3, <2>6
  <1>8. \A k \in M : L[Cardinality(Below(M, k))] = MeantFlags(as, k, flags)
    BY <1>6, <1>7 DEF M, new
  <1>9. Len(L) = Cardinality(M) BY <1>2, <1>5
  <1>10. Shows(L, M, as, flags) BY <1>8, <1>9 DEF Shows
  <1> QED BY <1>10 DEF L, M, new

(***************************************************************************)
(* The steps, of prints.                                                   *)
(***************************************************************************)
\* A step of p which leaves the other processes as they are.
LEMMA OtherPrints ==
  ASSUME NEW p \in Procs, PInv, FInv', ProcPrints(p)', cmd' = cmd, DOMAIN printed' = Procs,
         \A q \in Procs \ {p} : /\ acts'[q] = acts[q] /\ next'[q] = next[q] /\ erw'[q] = erw[q]
                                /\ pc'[q] = pc[q] /\ printed'[q] = printed[q]
  PROVE  PInv'
  <1>1. ASSUME NEW q \in Procs \ {p} PROVE ProcPrints(q)'
    <2>1. ProcPrints(q) BY DEF PInv
    <2>2. Did(q)' = Did(q) BY <1>1 DEF Did
    <2>3. InOrder(q) => InOrder(q)' BY <1>1, <2>2 DEF InOrder
    <2> QED BY <1>1, <2>1, <2>2, <2>3 DEF ProcPrints
  <1> QED BY <1>1 DEF PInv

\* A step which neither executes an action nor begins a file.
LEMMA MovePrints ==
  ASSUME NEW p \in Procs, PInv, FInv', UNCHANGED <<cmd, acts, erw, printed>>,
         NEW w, Goto(p, w) \/ (pc' = pc /\ w = pc[p]), next' = next,
         w \notin {"acts", "open"}, w \in After => pc[p] \in After
  PROVE  PInv'
  <1>1. pc'[p] = w /\ \A q \in Procs \ {p} : pc'[q] = pc[q] BY DEF Goto, PInv, FInv, IInv, Domains
  <1>2. ProcPrints(p)' BY <1>1 DEF PInv, ProcPrints
  <1> QED BY <1>1, <1>2, OtherPrints DEF PInv

\* Opening a file.
LEMMA StartPrints ==
  ASSUME NEW p \in Procs, PInv, FInv', Open(p) \/ OpenEmpty(p)
  PROVE  PInv'
  <1> DEFINE as == cmd[p].acts
  <1>1. PICK image : Start(p, image) BY OpenedColour DEF PInv
  <1>2. /\ erw'[p] = Opened(image) /\ next'[p] = 1 /\ pc'[p] = "acts" /\ printed'[p] = <<>>
        /\ UNCHANGED <<cmd, acts>> /\ DOMAIN printed' = Procs
        /\ \A q \in Procs \ {p} : /\ next'[q] = next[q] /\ erw'[q] = erw[q] /\ pc'[q] = pc[q]
                                  /\ printed'[q] = printed[q]
    BY <1>1 DEF Start, Goto, PInv, FInv, IInv, Domains
  <1>3. Did(p)' = {} /\ \A k \in 1 .. Len(as) : Printable(as[k], acts[p][k])
    <2>1. pc[p] = "open" BY DEF Open, OpenEmpty
    <2> QED BY <1>2, <2>1 DEF PInv, ProcPrints, Did
  <1>4. Repeats(erw[p])' /\ ~ erw'[p].retry BY <1>2 DEF Repeats, Opened
  <1>5. \A j \in Printing(as) : ~(j < 1)
    <2>1. DOMAIN as = 1 .. Len(as) /\ Len(as) \in Nat BY Lines DEF PInv
    <2> QED BY <2>1 DEF Printing
  <1>6. InOrder(p)' BY <1>2, <1>3, <1>5 DEF InOrder
  <1>7. Shows(printed[p], Did(p), as, erw[p].orig.flags)' BY <1>2, <1>3, ShowsNothing
  <1>8. printed'[p] \in Seq(SUBSET Flags) BY <1>2
  <1>9. ProcPrints(p)' BY <1>2, <1>3, <1>4, <1>6, <1>7, <1>8 DEF ProcPrints, After
  <1> QED BY <1>2, <1>9, OtherPrints

\* An action which makes no print.
LEMMA PrintsStay ==
  ASSUME NEW p \in Procs, PInv, FInv', Act(p), Proceed(p), UNCHANGED printed, NEW b, NEW e,
         acts' = [acts EXCEPT ![p][next[p]] = b] \/ (acts' = acts /\ b = Current(p)),
         erw' = [erw EXCEPT ![p] = e] \/ (erw' = erw /\ e = erw[p]),
         Printable(cmd[p].acts[next[p]], b), Repeats(e), e.orig = erw[p].orig,
         next[p] \in Printing(cmd[p].acts) => (b.fn = "inert" <=> Current(p).fn = "inert"),
         ~ e.retry => ~ erw[p].retry /\ (next[p] \in Printing(cmd[p].acts) => b.fn = "inert")
  PROVE  PInv'
  <1> DEFINE as == cmd[p].acts
             n == next[p]
  <1>1. /\ acts'[p] = [k \in 1 .. Len(as) |-> IF k = n THEN b ELSE acts[p][k]]
        /\ \A q \in Procs \ {p} : acts'[q] = acts[q]
    BY OneAct DEF PInv
  <1>2. /\ pc[p] = "acts" /\ n \in Nat /\ n \in 1 .. Len(as) /\ Len(as) \in Nat /\ DOMAIN as = 1 .. Len(as)
        /\ UNCHANGED <<cmd, pc>>
    BY Lines DEF Act, Proceed, PInv, FInv, ProcFlags
  <1>3. /\ next'[p] = n + 1 /\ \A q \in Procs \ {p} : next'[q] = next[q]
        /\ erw'[p] = e /\ \A q \in Procs \ {p} : erw'[q] = erw[q]
    BY DEF Proceed, PInv, FInv, IInv, Domains
  <1>4. /\ \A k \in 1 .. Len(as) : Printable(as[k], acts[p][k])
        /\ printed[p] \in Seq(SUBSET Flags) /\ InOrder(p)
        /\ Shows(printed[p], Did(p), as, erw[p].orig.flags)
    BY <1>2 DEF PInv, ProcPrints
  <1>5. \A k \in 1 .. Len(as) : acts'[p][k] = IF k = n THEN b ELSE acts[p][k] BY <1>1
  <1>6. \A k \in Printing(as) : k \in 1 .. Len(as) BY <1>2 DEF Printing
  <1>7. Did(p)' = Did(p)
    <2>1. \A k \in Printing(as) : acts'[p][k].fn = "inert" <=> acts[p][k].fn = "inert"
      BY <1>5, <1>6 DEF Current
    <2> QED BY <1>2, <2>1 DEF Did
  <1>8. InOrder(p)'
    <2>1. ASSUME ~ e.retry, NEW j \in Printing(as), j < n + 1 PROVE j \in Did(p)
      <3>1. CASE j < n BY <1>4, <2>1, <3>1 DEF InOrder
      <3>2. CASE j = n BY <2>1, <3>2, <1>5, <1>6, <1>7, <1>2 DEF Did
      <3> QED BY <1>2, <1>6, <2>1, <3>1, <3>2
    <2>2. \A j \in Printing(as), k \in Did(p) : j < k => j \in Did(p) BY <1>4 DEF InOrder
    <2> QED BY <1>2, <1>3, <1>7, <2>1, <2>2 DEF InOrder
  <1>9. \A k \in 1 .. Len(as) : Printable(as[k], acts'[p][k]) BY <1>4, <1>5
  <1>10. Repeats(erw[p])' BY <1>3
  <1>11. ProcPrints(p)' BY <1>2, <1>3, <1>4, <1>7, <1>8, <1>9, <1>10 DEF ProcPrints, After
  <1>12. DOMAIN printed' = Procs BY DEF PInv
  <1> QED BY <1>1, <1>2, <1>3, <1>11, <1>12, OtherPrints

\* A print is made: the action is inert, and what it shows is what the actions
\* before it have made of the file.
LEMMA PrintMade ==
  ASSUME NEW p \in Procs, PInv, FInv', ActPrint(p), ~ erw[p].retry
  PROVE  PInv'
  <1> DEFINE as == cmd[p].acts
             n == next[p]
             b == [Current(p) EXCEPT !.fn = "inert"]
             flags == erw[p].orig.flags
  <1>1. /\ Act(p) /\ Proceed(p) /\ Current(p).fn = "print" /\ erw' = erw
        /\ printed' = [printed EXCEPT ![p] = Append(@, erw[p].flags)]
        /\ acts' = [acts EXCEPT ![p][next[p]] = b]
    BY DEF ActPrint, Current
  <1>2. /\ WellFormed(as) /\ n \in 1 .. Len(as) /\ Became(as[n], Current(p))
        /\ erw[p].flags = MeantFlags(as, n - 1, flags)
    BY <1>1, Acting DEF PInv
  <1>3. b.fn = "inert" /\ b.was = Current(p).was BY <1>2 DEF Became
  <1>4. /\ pc[p] = "acts" /\ n \in Nat /\ Len(as) \in Nat /\ DOMAIN as = 1 .. Len(as)
        /\ UNCHANGED <<cmd, pc>>
    BY <1>1, Lines DEF Act, Proceed, PInv, FInv, ProcFlags
  <1>5. /\ acts'[p] = [k \in 1 .. Len(as) |-> IF k = n THEN b ELSE acts[p][k]]
        /\ \A q \in Procs \ {p} : acts'[q] = acts[q]
    <2> HIDE DEF b
    <2> QED BY <1>1, OneAct, ZenonT(40) DEF PInv
  <1> HIDE DEF b
  <1>6. /\ \A k \in 1 .. Len(as) : Printable(as[k], acts[p][k])
        /\ Repeats(erw[p]) /\ printed[p] \in Seq(SUBSET Flags) /\ InOrder(p)
        /\ Shows(printed[p], Did(p), as, flags)
    BY <1>4 DEF PInv, ProcPrints
  <1>7. as[n].kind = "print" /\ Current(p).was = "print" BY <1>1, <1>2, <1>6 DEF Printable, Current
  <1>8. n \in Printing(as) /\ ~Flagging(as[n]) /\ n \notin Did(p)
    BY <1>1, <1>2, <1>4, <1>7 DEF Printing, Flagging, Did, Current
  <1>9. erw[p].flags = MeantFlags(as, n, flags) BY <1>2, <1>8, MeantSkip
  <1>10. \A k \in 1 .. Len(as) : acts'[p][k] = IF k = n THEN b ELSE acts[p][k] BY <1>5
  <1>11. \A k \in Printing(as) : k \in 1 .. Len(as) BY <1>4 DEF Printing
  <1>12. Did(p)' = Did(p) \cup {n}
    <2>1. \A k \in Printing(as) : acts'[p][k].fn = "inert" <=> k = n \/ acts[p][k].fn = "inert"
      BY <1>3, <1>10, <1>11
    <2> QED BY <1>4, <1>8, <2>1 DEF Did
  <1>13. Did(p) \in SUBSET (1 .. Len(as)) /\ \A k \in Did(p) : k < n
    <2>1. ASSUME NEW k \in Did(p) PROVE k \in 1 .. Len(as) /\ k < n
      <3>1. k \in 1 .. Len(as) /\ k # n BY <1>8, <1>11, <2>1 DEF Did
      <3>2. ~(n < k) BY <1>6, <1>8, <2>1 DEF InOrder
      <3> QED BY <1>4, <3>1, <3>2
    <2> QED BY <2>1
  <1>14. Shows(Append(printed[p], MeantFlags(as, n, flags)), Did(p) \cup {n}, as, flags)
    <2> HIDE DEF as, n, flags
    <2> QED BY <1>2, <1>4, <1>6, <1>13, ShowsMore
  <1>15. /\ printed'[p] = Append(printed[p], MeantFlags(as, n, flags)) /\ DOMAIN printed' = Procs
         /\ \A q \in Procs \ {p} : printed'[q] = printed[q]
    BY <1>1, <1>9 DEF PInv
  <1>16. /\ next'[p] = n + 1 /\ \A q \in Procs \ {p} : next'[q] = next[q]
    BY <1>1 DEF Proceed, PInv, FInv
  <1>17. InOrder(p)'
    <2>1. ASSUME NEW j \in Printing(as), j < n + 1 PROVE j \in Did(p) \cup {n}
      <3>1. CASE j < n BY <1>6, <2>1, <3>1 DEF InOrder
      <3> QED BY <1>4, <1>11, <2>1, <3>1
    <2>2. ASSUME NEW j \in Printing(as), NEW k \in Did(p) \cup {n}, j < k PROVE j \in Did(p) \cup {n}
      <3>1. CASE k = n
        <4>1. j < n + 1 BY <1>4, <1>11, <2>2, <3>1
        <4> QED BY <2>1, <4>1
      <3>2. CASE k \in Did(p) BY <1>6, <2>2, <3>2 DEF InOrder
      <3> QED BY <2>2, <3>1, <3>2
    <2> QED BY <1>4, <1>12, <1>16, <2>1, <2>2 DEF InOrder
  <1>18. \A k \in 1 .. Len(as) : Printable(as[k], acts'[p][k])
    <2>1. Printable(as[n], b) BY <1>3, <1>7 DEF Printable
    <2> QED BY <1>6, <1>10, <2>1
  <1>19. printed'[p] \in Seq(SUBSET Flags)
    <2>1. MeantFlags(as, n, flags) \in SUBSET Flags BY DEF MeantFlags
    <2>2. \A S : \A s \in Seq(S) : \A x \in S : Append(s, x) \in Seq(S) OBVIOUS
    <2> HIDE DEF as, n, flags
    <2>3. Append(printed[p], MeantFlags(as, n, flags)) \in Seq(SUBSET Flags) BY <1>6, <2>1, <2>2
    <2> QED BY <1>15, <2>3
  <1>20. ProcPrints(p)'
    <2>1. Shows(printed[p], Did(p), as, erw[p].orig.flags)' BY <1>1, <1>4, <1>12, <1>14, <1>15
    <2> QED BY <1>1, <1>4, <1>6, <1>17, <1>18, <1>19, <2>1 DEF ProcPrints, After
  <1> QED BY <1>1, <1>4, <1>5, <1>15, <1>16, <1>20, OtherPrints

\* Every action.
LEMMA ActPrints ==
  ASSUME NEW p \in Procs, PInv, FInv', ActFlags(p) \/ ActInterpreter(p) \/ ActPrint(p) \/ ActInert(p)
  PROVE  PInv'
  <1> DEFINE as == cmd[p].acts
             n == next[p]
             c == Current(p)
  <1>1. Act(p) /\ Proceed(p) BY DEF ActFlags, ActInterpreter, ActPrint, ActInert
  <1>2. /\ n \in 1 .. Len(as) /\ Became(as[n], c) /\ DOMAIN erw[p] = Fields
        /\ DOMAIN as = 1 .. Len(as)
    BY <1>1, Acting, Lines DEF PInv
  <1>3. Printable(as[n], c) /\ Repeats(erw[p]) BY <1>2 DEF PInv, ProcPrints, Current
  <1>4. n \in Printing(as) <=> as[n].kind = "print" BY <1>2 DEF Printing
  <1>5. CASE ActFlags(p)
    <2> DEFINE b == IF c.fn = "remove" THEN RemoveFlag(c) ELSE c
               e == AddFlags(erw[p], b.arg)
    <2>1. /\ c.fn \in {"add", "remove"} /\ UNCHANGED printed
          /\ acts' = [acts EXCEPT ![p][n] = b] /\ erw' = [erw EXCEPT ![p] = e]
      BY <1>5 DEF ActFlags
    <2>2. b.fn = "add" /\ b.was = c.was BY <1>2, <2>1 DEF RemoveFlag, Became
    <2>3. \A arg : LET f == AddFlags(erw[p], arg) IN
                   f.orig = erw[p].orig /\ f.retry = erw[p].retry /\ Repeats(f)
      BY <1>2, <1>3 DEF AddFlags, Fields, Repeats
    <2>4. e.orig = erw[p].orig /\ e.retry = erw[p].retry /\ Repeats(e) BY <2>3
    <2> HIDE DEF b, e
    <2>5. Printable(as[n], b) /\ n \notin Printing(as) BY <1>3, <1>4, <2>1, <2>2 DEF Printable
    <2> QED BY <1>1, <2>1, <2>4, <2>5, PrintsStay
  <1>6. CASE ActInterpreter(p)
    <2>1. PICK fails \in Failing(p) :
            erw' = IF erw[p].interp = Current(p).arg THEN erw
                   ELSE [erw EXCEPT ![p] = SetInterpreter(@, Current(p).arg, fails)]
      BY <1>6 DEF ActInterpreter
    <2> DEFINE e == IF erw[p].interp = c.arg THEN erw[p] ELSE SetInterpreter(erw[p], c.arg, fails)
    <2>2. (erw' = [erw EXCEPT ![p] = e]) \/ (erw' = erw /\ e = erw[p]) BY <2>1
    <2>3. c.fn = "interp" /\ acts' = acts /\ UNCHANGED printed BY <1>6 DEF ActInterpreter
    <2>4. fails \in BOOLEAN /\ (erw[p].retry => fails) BY <1>3, <2>1 DEF Failing, Repeats
    <2>5. e.orig = erw[p].orig /\ Repeats(e) /\ (~ e.retry => ~ erw[p].retry)
      BY <1>2, <1>3, <2>4 DEF SetInterpreter, Fields, Repeats
    <2> HIDE DEF e
    <2>6. n \notin Printing(as) BY <1>3, <1>4, <2>3 DEF Printable
    <2> QED BY <1>1, <1>3, <2>2, <2>3, <2>5, <2>6, PrintsStay
  <1>7. CASE ActInert(p)
    <2>1. c.fn = "inert" /\ UNCHANGED <<acts, erw, printed>> BY <1>7 DEF ActInert
    <2> QED BY <1>1, <1>3, <2>1, PrintsStay
  <1>8. CASE ActPrint(p) /\ erw[p].retry
    <2>1. UNCHANGED <<acts, erw, printed>> BY <1>8 DEF ActPrint
    <2> QED BY <1>1, <1>3, <1>8, <2>1, PrintsStay
  <1>9. CASE ActPrint(p) /\ ~ erw[p].retry BY <1>9, PrintMade
  <1> QED BY <1>5, <1>6, <1>7, <1>8, <1>9

\* The round is repeated, with the prints which have been made; or none is left.
LEMMA FlushPrints ==
  ASSUME NEW p \in Procs, PInv, FInv', Flush(p)
  PROVE  PInv'
  <1> DEFINE as == cmd[p].acts
  <1>1. PICK fails \in IF erw[p].modified THEN Failing(p) ELSE {FALSE} :
          /\ pc[p] = "acts" /\ next[p] > Len(acts[p]) /\ UNCHANGED <<cmd, acts, printed>>
          /\ IF fails
             THEN erw' = [erw EXCEPT ![p] = Again(@)] /\ next' = [next EXCEPT ![p] = 1] /\ UNCHANGED pc
             ELSE Goto(p, IF Wanted(p) THEN "create" ELSE "next") /\ UNCHANGED <<erw, next>>
    BY DEF Flush
  <1>2. /\ \A k \in 1 .. Len(as) : Printable(as[k], acts[p][k])
        /\ Repeats(erw[p]) /\ printed[p] \in Seq(SUBSET Flags) /\ InOrder(p)
        /\ Shows(printed[p], Did(p), as, erw[p].orig.flags)
    BY <1>1 DEF PInv, ProcPrints
  <1>3. /\ Len(as) \in Nat /\ DOMAIN as = 1 .. Len(as) /\ Len(acts[p]) = Len(as) /\ next[p] \in Nat
    BY <1>1, Lines DEF PInv, FInv, ProcFlags
  <1>4. DOMAIN erw = Procs /\ DOMAIN pc = Procs /\ DOMAIN next = Procs /\ DOMAIN printed = Procs
    BY DEF PInv, FInv, IInv, Domains
  <1>5. Did(p)' = Did(p) /\ as' = as BY <1>1 DEF Did
  <1>6. \A j \in Printing(as) : j \in 1 .. Len(as) BY <1>3 DEF Printing
  <1>7. CASE fails
    <2>1. /\ erw'[p] = Again(erw[p]) /\ next'[p] = 1 /\ pc'[p] = "acts"
          /\ \A q \in Procs \ {p} : next'[q] = next[q] /\ erw'[q] = erw[q] /\ pc'[q] = pc[q]
      BY <1>1, <1>4, <1>7
    <2>2. Repeats(erw[p])' /\ erw'[p].orig = erw[p].orig BY <1>2, <2>1 DEF Again, Opened, Repeats
    <2>3. InOrder(p)'
      <3>1. \A j \in Printing(as) : ~(j < 1) BY <1>3, <1>6
      <3> QED BY <1>1, <1>2, <1>5, <2>1, <3>1 DEF InOrder
    <2>4. ProcPrints(p)' BY <1>1, <1>2, <1>5, <2>1, <2>2, <2>3 DEF ProcPrints, After
    <2> QED BY <1>1, <1>4, <2>1, <2>4, OtherPrints
  <1>8. CASE ~ fails
    <2>1. /\ pc'[p] \in {"create", "next"} /\ UNCHANGED <<erw, next>>
          /\ \A q \in Procs \ {p} : pc'[q] = pc[q]
      BY <1>1, <1>4, <1>8 DEF Goto
    <2>2. ~ erw[p].retry BY <1>1, <1>2, <1>8 DEF Repeats, Failing
    <2>3. Did(p) = Printing(as)
      <3>1. \A j \in Printing(as) : j < next[p] BY <1>1, <1>3, <1>6
      <3>2. \A j \in Printing(as) : j \in Did(p) BY <1>2, <2>2, <3>1 DEF InOrder
      <3> QED BY <3>2 DEF Did
    <2>4. ProcPrints(p)' BY <1>1, <1>2, <1>5, <2>1, <2>3 DEF ProcPrints, After
    <2> QED BY <1>1, <1>4, <2>1, <2>4, OtherPrints
  <1>9. fails \in BOOLEAN BY <1>1, <1>2 DEF Failing, Repeats
  <1> QED BY <1>7, <1>8, <1>9

\* The next file is printed anew.
LEMMA NextFilePrints ==
  ASSUME NEW p \in Procs, PInv, FInv', NextFile(p)
  PROVE  PInv'
  <1> DEFINE as == cmd[p].acts
             new == [k \in DOMAIN acts[p] |-> Reset(acts[p][k])]
  <1>1. acts' = [acts EXCEPT ![p] = new] /\ Goto(p, "open") /\ UNCHANGED <<cmd, erw, next, printed>>
    BY DEF NextFile
  <1>2. /\ DOMAIN acts[p] = 1 .. Len(as) /\ DOMAIN as = 1 .. Len(as)
        /\ DOMAIN acts = Procs /\ DOMAIN pc = Procs /\ DOMAIN printed = Procs
    BY Lines DEF PInv, FInv, IInv, Domains
  <1>3. /\ \A k \in 1 .. Len(as) : Printable(as[k], acts[p][k]) /\ Became(as[k], acts[p][k])
        /\ Repeats(erw[p]) /\ printed[p] \in Seq(SUBSET Flags)
    BY DEF PInv, ProcPrints, FInv, ProcFlags
  <1>4. \A a, b : Printable(a, b) /\ Became(a, b) =>
                  Printable(a, Reset(b)) /\ (a.kind = "print" => Reset(b).fn # "inert")
    <2> SUFFICES ASSUME NEW a, NEW b, Printable(a, b), Became(a, b)
                 PROVE  Printable(a, Reset(b)) /\ (a.kind = "print" => Reset(b).fn # "inert")
      OBVIOUS
    <2>1. CASE b.fn # "inert" BY <2>1 DEF Reset
    <2>2. CASE b.fn = "inert"
      <3>1. Reset(b).fn = b.was /\ Reset(b).was = b.was BY <2>2 DEF Reset, Became
      <3> QED BY <3>1 DEF Printable
    <2> QED BY <2>1, <2>2
  <1>5. \A k \in 1 .. Len(as) : /\ Printable(as[k], new[k])
                                /\ as[k].kind = "print" => new[k].fn # "inert"
    <2>1. \A k \in 1 .. Len(as) : new[k] = Reset(acts[p][k]) BY <1>2
    <2> HIDE DEF new
    <2> QED BY <1>3, <1>4, <2>1
  <1> HIDE DEF new
  <1>6. /\ acts'[p] = new /\ pc'[p] = "open"
        /\ \A q \in Procs \ {p} : acts'[q] = acts[q] /\ pc'[q] = pc[q]
    BY <1>1, <1>2 DEF Goto
  <1>7. Did(p)' = {} BY <1>1, <1>2, <1>5, <1>6 DEF Did, Printing
  <1>8. ProcPrints(p)' BY <1>1, <1>3, <1>5, <1>6, <1>7 DEF ProcPrints, After
  <1> QED BY <1>1, <1>2, <1>6, <1>8, OtherPrints

\* The other steps leave alone what prints depend on.
LEMMA RestPrints ==
  ASSUME NEW p \in Procs, PInv, FInv',
         \/ OpenFails(p) \/ Create(p) \/ CreateFails(p) \/ Write(p) \/ WriteFails(p) \/ Close(p)
         \/ Rename(p) \/ RenameFails(p) \/ Exit(p) \/ Kill(p)
  PROVE  PInv'
  <1>1. UNCHANGED <<cmd, acts, next, erw, printed>>
    BY DEF OpenFails, Create, CreateFails, Write, WriteFails, Close, Rename, RenameFails, Exit, Kill, Fatal
  <1>2. CASE Goto(p, "failed") \/ Goto(p, "ok") \/ Goto(p, "killed")
    BY <1>1, <1>2, MovePrints DEF After
  <1>3. CASE pc[p] \in After /\ (Goto(p, "write") \/ Goto(p, "rename") \/ Goto(p, "next") \/ pc' = pc)
    BY <1>1, <1>3, MovePrints DEF After
  <1> QED BY <1>2, <1>3 DEF After, OpenFails, Create, CreateFails, Write, WriteFails, Close, Rename,
                            RenameFails, Exit, Kill, Fatal

(***************************************************************************)
(* What is printed.                                                        *)
(***************************************************************************)
\* The invariant holds initially...
LEMMA InitPrints == Init => PInv
  <1> SUFFICES ASSUME Init PROVE PInv OBVIOUS
  <1>1. FInv BY InitFlags
  <1>2. ASSUME NEW p \in Procs PROVE ProcPrints(p)
    <2> DEFINE as == cmd[p].acts
    <2>1. WellFormed(as) /\ Len(as) \in Nat /\ DOMAIN as = 1 .. Len(as)
      BY ProgramAssumption DEF Init, WellFormed
    <2>2. acts[p] = [k \in 1 .. Len(as) |-> Parsed(as[k])] BY <2>1 DEF Init, ParsedLine
    <2>3. ASSUME NEW k \in 1 .. Len(as)
          PROVE  Printable(as[k], Parsed(as[k])) /\ (as[k].kind = "print" => Parsed(as[k]).fn = "print")
      <3>1. as[k].kind \in {"add", "remove", "interp", "print"} BY <2>1 DEF WellFormed
      <3> HIDE DEF as
      <3> QED BY <3>1 DEF Printable, Parsed
    <2>4. Repeats(erw[p])
      <3>1. erw[p] = NoErw BY DEF Init
      <3> QED BY <3>1 DEF NoErw, Repeats
    <2>5. pc[p] \in {"ok", "open"} /\ printed[p] = <<>> BY DEF Init
    <2>6. \A k \in 1 .. Len(as) : Printable(as[k], acts[p][k]) /\ (as[k].kind = "print" => acts[p][k].fn = "print")
      <3> HIDE DEF as
      <3> QED BY <2>2, <2>3
    <2>7. Did(p) = {} BY <2>1, <2>6 DEF Did, Printing
    <2> QED BY <2>4, <2>5, <2>6, <2>7 DEF ProcPrints, After
  <1>3. DOMAIN printed = Procs BY DEF Init
  <1> QED BY <1>1, <1>2, <1>3 DEF PInv

\* ...and is kept by every step.
LEMMA NextPrints == PInv /\ [Next]_vars => PInv'
  <1> SUFFICES ASSUME PInv, [Next]_vars PROVE PInv' OBVIOUS
  <1>1. FInv' BY NextFlags DEF PInv
  <1>2. ASSUME NEW p \in Procs, Step(p) PROVE PInv'
    <2>1. CASE Open(p) \/ OpenEmpty(p) BY <1>1, <2>1, StartPrints
    <2>2. CASE \/ OpenFails(p) \/ Create(p) \/ CreateFails(p) \/ Write(p) \/ WriteFails(p) \/ Close(p)
               \/ Rename(p) \/ RenameFails(p) \/ Exit(p) \/ Kill(p)
      BY <1>1, <2>2, RestPrints
    <2>3. CASE ActFlags(p) \/ ActInterpreter(p) \/ ActPrint(p) \/ ActInert(p)
      BY <1>1, <2>3, ActPrints
    <2>4. CASE Flush(p) \/ NextFile(p) BY <1>1, <2>4, FlushPrints, NextFilePrints
    <2> QED BY <1>2, <2>1, <2>2, <2>3, <2>4 DEF Step
  <1>3. CASE UNCHANGED vars
    <2>1. UNCHANGED <<cmd, acts, erw, next, printed, pc>> BY <1>3 DEF vars
    <2>2. ASSUME NEW p \in Procs PROVE ProcPrints(p)'
      <3>1. ProcPrints(p) BY DEF PInv
      <3> QED BY <2>1, <3>1 DEF ProcPrints, Did, InOrder
    <2> QED BY <1>1, <2>1, <2>2 DEF PInv
  <1> QED BY <1>2, <1>3 DEF Next, Terminated

\* In however many rounds, everything which is to be printed of a file is printed
\* once and in the order of the command line, and shows what the actions before
\* it have made of the file (main makes an action that has printed inert, and
\* resets it for the next file).
THEOREM PrintsMeantCorrect == Spec => []PrintsMeant
  <1>1. PInv => PrintsMeant BY DEF PInv, ProcPrints, PrintsMeant, After
  <1> QED BY InitPrints, NextPrints, <1>1, PTL DEF Spec
=============================================================================
