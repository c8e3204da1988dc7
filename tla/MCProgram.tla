----------------------------- MODULE MCProgram -----------------------------
(***************************************************************************)
(* Two processes on the same files, and one with longer command lines.     *)
(***************************************************************************)
EXTENDS Program

CONSTANTS first, second
MCProcs == {first, second}

Mention(x, on) == [flag |-> x, on |-> on]
Add(list) == [kind |-> "add", arg |-> list]
Remove(list) == [kind |-> "remove", arg |-> list]
Interpreter(i) == [kind |-> "interp", arg |-> i]
Show == [kind |-> "print", arg |-> <<>>]
Line(as, paths, output, dry) == [acts |-> as, paths |-> paths, output |-> output, dry |-> dry]

MCPaths == {"-", "empty:x86_64", "a", "b", "dev"}
MCImages == {[flags |-> f, interp |-> "ld", size |-> 2] : f \in {{"x"}}}
MCEmpty == [flags |-> {}, interp |-> None, size |-> 1]

\* Two processes which edit a file in place, or write to one which the other
\* one edits.
Racing == {Line(<<Add(<<Mention(x, TRUE)>>), Interpreter(x)>>, paths, output, FALSE) :
             x \in {"x", "y"}, paths \in {<<"a">>, <<"b", "a">>}, output \in {None, "a"}}
\* Flags which are mentioned again, in one action and in several.
Mentions == {Mention(x, on) : x \in {"x", "y"}, on \in BOOLEAN}
Lists == {<<m>> : m \in Mentions} \cup {<<m, n>> : m \in Mentions, n \in Mentions} \cup {<<>>}
Flagging == {Line(<<f, Show, Interpreter("y"), g, Show>>, paths, None, dry) :
               f \in {Add(l) : l \in Lists} \cup {Remove(l) : l \in Lists},
               g \in {Add(<<m>>) : m \in Mentions} \cup {Remove(<<m>>) : m \in Mentions},
               paths \in {<<"a", "b">>}, dry \in {FALSE}}
\* Where it is read from and written to.
Going == {Line(<<Remove(<<Mention("x", TRUE)>>), Show>>, paths, output, dry) :
            paths \in {<<"-", "a">>, <<"empty:x86_64">>, <<"dev", "a">>, <<"-", "-">>, <<>>}, output \in {None, "-", "dev", "b"}, dry \in BOOLEAN}
Idle == Line(<<>>, <<>>, None, FALSE)
MCCommandLines ==
  [MCProcs -> Racing] \cup {[p \in MCProcs |-> IF p = first THEN line ELSE Idle] : line \in Flagging \cup Going}
=============================================================================
