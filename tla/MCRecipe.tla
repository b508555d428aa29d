------------------------------ MODULE MCRecipe ------------------------------
(* Recipes for TLC, over an env of two instances and one instance that is  *)
(* usually on its own.                                                     *)
EXTENDS Integers, Sequences, Functions, TLC

SomeMembers == "lab" :> {"a", "b"} @@ "rig" :> {"a", "c"}

Put(v, at) == [kind |-> "set", at |-> at, value |-> v, scalar |-> TRUE]
PutTable(at) == [Put(0, at) EXCEPT !.scalar = FALSE]
StepBy(n, at) == [kind |-> "step", at |-> at, n |-> n]
Speed(x, at) == [kind |-> "speed", at |-> at, speed |-> x]
NoTest == [test \in {"eq", "gt", "lt", "gte", "lte", "approx"} |-> <<>>]
Test(test, v, at) ==
  [kind |-> "assert", at |-> at, tests |-> [NoTest EXCEPT ![test] = <<v>>], tolerance |-> <<>>]
Near(v, t, at) == [Test("approx", v, at) EXCEPT !.tolerance = <<t>>]
Unclear(at) == [Near(1, 1, at) EXCEPT !.tests["eq"] = <<1>>]
Lone(kind, at) == [kind |-> kind, at |-> at]
For(from, to, by, at, each) ==
  [kind |-> "for", at |-> at, from |-> from, to |-> to, by |-> by, each |-> each]

Default(steps) == [instance |-> "a", env |-> {}, instances |-> {}, steps |-> steps]

Sweep == <<For(0, 2, 2, "none", <<StepBy(1, "b"), Test("gte", 0, "none")>>), StepBy(1, "c"), Lone("print", "b")>>
SomeLoops == {<<For(f, t, b, "b", <<StepBy(1, "none")>>)>> : f \in {1}, t \in {-3, 1, 5}, b \in {-2, 0, 3}}

SomeRecipes ==
  {Default(Sweep), [Default(Sweep) EXCEPT !.instances = {"c"}], [Default(Sweep) EXCEPT !.env = {"lab"}],
   Default(<<Speed(2, "none"), Put(3, "c"), Lone("sleep", "none"), StepBy(2, "c"), Test("eq", 3, "c"),
            Near(4, -1, "c"), Test("lt", 4, "c"), Test("lte", 3, "c"), Test("gt", 3, "c")>>),
   Default(<<StepBy(1, "none"), Lone("reset", "b"), Speed(1, "c"), StepBy(1, "b")>>),
   Default(<<For(0, 1, 1, "c", <<For(0, 3, 3, "none", <<StepBy(1, "none")>>)>>)>>)}
  \cup {Default(<<Put(1, "none"), Unclear("none")>>), Default(<<Speed(0, "none"), PutTable("b")>>),
        Default(<<Speed(0, "none")>>)} \cup {Default(l) : l \in SomeLoops}

(* The steps of the recipes, those of their loops, and of the loops inside.*)
Inside(steps) == UNION {Range(s.each) : s \in {x \in steps : x.kind = "for"}}
TopSteps == UNION {Range(r.steps) : r \in SomeRecipes}
SomeSteps == TopSteps \cup Inside(TopSteps) \cup Inside(Inside(TopSteps))

=============================================================================
