------------------------------ MODULE MCIngest ------------------------------
(* The instances of FabricIngest that TLC checks. *)
EXTENDS FabricIngest

None == [op |-> "none", h |-> <<>>, parent |-> <<>>, target |-> <<>>, adds |-> <<>>,
         dispatches |-> <<>>, body |-> "prose"]

MCEvents == {"c1", "c2", "c3", "c4", "c5", "cx", "add", "addx", "killx", "killm", "admit", "bad", "dispatch", "kill", "archive", "list", "garbled"}

MCFrom == [e \in MCEvents |->
  CASE e \in {"cx", "addx", "killx"} -> "x" [] e \in {"c1", "c2", "c3", "c4", "c5", "killm", "dispatch"} -> "m" [] OTHER -> "a"]

MCTo == [e \in MCEvents |->
  CASE e = "c1" -> {"d"} [] e = "c5" -> {"f"} [] e \in {"c2", "c3"} -> {"s"} [] e = "c4" -> {"u"} [] e = "cx" -> {"s"}
    [] OTHER -> {}]

MCWire == [e \in MCEvents |->
  CASE e \in {"add", "addx"} -> build_event("add", "proj", "child", <<{"d"}, {}>>)
    [] e = "admit"    -> build_event("admit", "proj", "child", <<{"d"}>>)
    [] e = "bad"      -> [build_event("add", "proj", "child", <<{}>>) EXCEPT !.target = <<"child", "child">>]
    [] e = "dispatch" -> build_session_dispatch_event("proj", "s")
    [] e \in {"kill", "killx", "killm"} -> [None EXCEPT !.body = "kill"]
    [] e \in {"archive", "list", "garbled"} -> [None EXCEPT !.body = e]
    [] OTHER          -> None]

MCNewTraffic == {<<{"c2", "cx"}, {}>>}

MCSettledTraffic ==
  {<<{e}, {}>> : e \in {"c1", "c4", "c5", "add", "killx", "killm", "archive", "list", "garbled"}} \cup
  {<<{"kill"}, {"d"}>>, <<{"admit"}, {}>>, <<{"admit"}, {"d"}>>,
   <<{"c2", "c3"}, {}>>, <<{"addx", "bad"}, {}>>, <<{}, {}>>}

\* A member joins between the two versions.
Joins == <<{"a"}, {"a"}>>
JoinsMembers == <<{"a", "m", "s"}, {"a", "m", "s", "n"}>>

=============================================================================
