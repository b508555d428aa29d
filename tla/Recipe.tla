------------------------------- MODULE Recipe -------------------------------
(***************************************************************************)
(* Running a recipe (runtime/src/cli/recipe.rs): the command checks which  *)
(* instances run, unrolls the recipe into a list of operations, looks up   *)
(* once which env each instance belongs to, and sends one request after    *)
(* the other. Between any two of them other commands come in: they start   *)
(* and close instances and envs and run an env's clock.                    *)
(*                                                                         *)
(* A request is answered in one step: RequestTransport has what happens on *)
(* its way. The numbers of a loop are taken to be exact, and few enough.   *)
(* An instance outside an env has its own clock paused, so that a Step of  *)
(* it is made, and the other commands send no Step.                        *)
(***************************************************************************)
EXTENDS Integers, FiniteSets, SequencesExt

CONSTANTS
  Instances, Envs,
  Members,    (* the instances of each env's definition                    *)
  Recipes,    (* [instance, env, instances, steps], as in the config        *)
  Steps,      (* the steps that occur in them, at any depth                 *)
  DryRuns,    (* the values of --dry-run                                    *)
  Others,     (* what other commands do: "close", "start", "clock"          *)
  MaxOthers   (* bound: how often                                           *)

None == "none"

Places == Instances \cup {None}
Tests == {"eq", "gt", "lt", "gte", "lte", "approx"}

(* config/recipe.rs: a step that is a request, one that tests a signal,    *)
(* with whatever comparators it has, and a loop over steps.                *)
Requests ==
  [kind : {"set"}, at : Places, value : Int, scalar : BOOLEAN]
    \cup [kind : {"step"}, at : Places, n : Nat]
    \cup [kind : {"speed"}, at : Places, speed : Int]
    \cup [kind : {"reset", "print", "sleep"}, at : Places]
Asserts ==
  [kind : {"assert"}, at : Places, tests : [Tests -> Seq(Int)], tolerance : Seq(Int)]
Loops ==
  [kind : {"for"}, at : Places, from : Int, to : Int, by : Int, each : Seq(Steps)]

RecipeAssumption ==
  /\ Members \in [Envs -> SUBSET Instances]
  /\ None \notin Envs \cup Instances
  /\ Steps \subseteq Requests \cup Asserts \cup Loops
  /\ \A r \in Recipes : r.instance \in Instances /\ r.steps \in Seq(Steps)
  /\ MaxOthers \in Nat

VARIABLES
  recipe, dry,
  phase,      (* "list", "compile", "envs", "run", "done", "failed"          *)
  todo,       (* the calls of the compiler, the innermost first             *)
  ops,        (* what it has compiled                                       *)
  pc,         (* the operation that is next                                 *)
  attached,   (* attached_envs: the env each instance was in                *)
  inst,       (* the instances: [up, env, ticks, clock, value, speed]       *)
  daemons,    (* the envs: [state, closing, ticks, failed], where failed,   *)
              (* a history, counts the ticks that failed                    *)
  others      (* steps of the other commands                                *)

vars == <<recipe, dry, phase, todo, ops, pc, attached, inst, daemons, others>>

Down == [up |-> FALSE, env |-> None, ticks |-> 0, clock |-> 0, value |-> 0, speed |-> 1]
Fresh(e) == [Down EXCEPT !.up = TRUE, !.env = e]
Gone == [state |-> "gone", closing |-> FALSE, ticks |-> 0, failed |-> 0]
Started == [Gone EXCEPT !.state = "paused"]
MembersUp(e) == {i \in Instances : inst[i].up /\ inst[i].env = e}
Up == {i \in Instances : inst[i].up}

-----------------------------------------------------------------------------
(* compile_recipe_steps and compile_for_step, which call each other.  An    *)
(* operation is a step with its instance filled in, or marks an iteration. *)
Iteration(v) == [kind |-> "iteration", at |-> None, value |-> v]
SetTo(v, at) == [kind |-> "set", at |-> at, value |-> v, scalar |-> TRUE]
Ops == Requests \cup Asserts \cup [kind : {"iteration"}, at : {None}, value : Int]

(* A loop in the wrong direction is empty, and its body not looked at.     *)
WrongWay(s) == (s.by > 0 /\ s.to < s.from) \/ (s.by < 0 /\ s.to > s.from)
Unrollable == {s \in Steps : s.kind = "for" /\ s.by # 0 /\ ~ WrongWay(s)}

(* A call for the steps that are left of a list, and one for a loop that   *)
(* has come to its iteration n.                                            *)
Body(steps, inherited) == [call |-> "steps", steps |-> steps, at |-> inherited]
Loop(s, n, inherited) == [call |-> "loop", loop |-> s, n |-> n, at |-> inherited]
Calls ==
  [call : {"steps"}, steps : Seq(Steps), at : Places]
    \cup [call : {"loop"}, loop : Unrollable, n : Nat, at : Places]

Target(at, inherited) == IF at # None THEN at ELSE inherited

Abs(x) == IF x >= 0 THEN x ELSE - x

(* Mutant: the last value of a loop's range is left out.                   *)
MaxStepsExclusive(s) == (Abs(s.to - s.from) - 1) \div Abs(s.by)

MaxSteps(s) == Abs(s.to - s.from) \div Abs(s.by)
LoopValue(s, n) == s.from + s.by * n

(* validate_assert_spec: one comparator, and a tolerance with approx only. *)
ValidAssert(a) ==
  /\ Cardinality({test \in Tests : a.tests[test] # <<>>}) = 1
  /\ a.tests["approx"] # <<>> <=> a.tolerance # <<>>

(* toml_value_to_cli_string: an array, a table or a time cannot be set.    *)
Compiles(s) ==
  CASE s.kind = "for" -> s.by # 0
    [] s.kind = "assert" -> ValidAssert(s)
    [] s.kind = "set" -> s.scalar
    [] OTHER -> TRUE

(* evaluate_assertion, compare_eq: on the value as a number.               *)
Holds(a, v) ==
  \A test \in {t \in Tests : a.tests[t] # <<>>} :
    LET x == a.tests[test][1]
    IN CASE test = "eq" -> v = x  [] test = "gt" -> v > x    [] test = "lt" -> v < x
         [] test = "gte" -> v >= x [] test = "lte" -> v <= x
         [] test = "approx" -> LET t == IF a.tolerance[1] < 0 THEN - a.tolerance[1] ELSE a.tolerance[1]
                               IN x - t <= v /\ v <= x + t

-----------------------------------------------------------------------------
World == <<inst, daemons, others>>

Init ==
  /\ recipe \in Recipes
  /\ dry \in DryRuns
  /\ phase = "list"
  /\ todo = <<>> /\ ops = <<>> /\ pc = 1
  /\ attached = [i \in Instances |-> None]
  /\ \E up \in SUBSET Envs :
       /\ \A e, f \in up : e = f \/ Members[e] \cap Members[f] = {}
       /\ daemons = [e \in Envs |-> IF e \in up THEN Started ELSE Gone]
       /\ \E alone \in SUBSET (Instances \ UNION {Members[e] : e \in up}) :
            inst = [i \in Instances |->
              IF i \in alone THEN Fresh(None)
              ELSE IF \E e \in up : i \in Members[e]
              THEN Fresh(CHOOSE e \in up : i \in Members[e]) ELSE Down]
  /\ others = 0

(* validate_recipe_preconditions: the recipe's own instance and those it   *)
(* lists must run, and in an env it allows, if it names any.  A listing    *)
(* can fail.                                                               *)
CheckInstances ==
  /\ phase = "list"
  /\ \/ /\ \A i \in {recipe.instance} \cup recipe.instances :
             i \in Up /\ (recipe.env = {} \/ inst[i].env \in recipe.env)
        /\ phase' = "compile" /\ todo' = <<Body(recipe.steps, None)>>
     \/ phase' = "failed" /\ UNCHANGED todo
  /\ UNCHANGED <<recipe, dry, ops, pc, attached, World>>

Compiling(call) == phase = "compile" /\ todo # <<>> /\ Head(todo).call = call
CompileStep ==
  /\ Compiling("steps") /\ Head(todo).steps # <<>>
  /\ LET s == Head(Head(todo).steps)
         at == Target(s.at, Head(todo).at)
         rest == <<Body(Tail(Head(todo).steps), Head(todo).at)>> \o Tail(todo)
     IN \/ /\ Compiles(s) /\ s.kind = "for"
           /\ todo' = IF WrongWay(s) THEN rest ELSE <<Loop(s, 0, at)>> \o rest
           /\ UNCHANGED <<phase, ops>>
        \/ /\ Compiles(s) /\ s.kind # "for"
           /\ todo' = rest
           /\ ops' = Append(ops, [s EXCEPT !.at = at])
           /\ UNCHANGED phase
        \/ ~ Compiles(s) /\ phase' = "failed" /\ UNCHANGED <<todo, ops>>
  /\ UNCHANGED <<recipe, dry, pc, attached, World>>

CompileIteration ==
  /\ Compiling("loop") /\ Head(todo).n <= MaxSteps(Head(todo).loop)
  /\ LET s == Head(todo).loop
         at == Head(todo).at
         value == LoopValue(s, Head(todo).n)
     IN /\ ops' = ops \o <<Iteration(value), SetTo(value, at)>>
        /\ todo' = <<Body(s.each, at), Loop(s, Head(todo).n + 1, at)>> \o Tail(todo)
  /\ UNCHANGED <<recipe, dry, phase, pc, attached, World>>

(* A call of the compiler returns, and with the last one the compiler.     *)
CompileReturn ==
  /\ \/ Compiling("steps") /\ Head(todo).steps = <<>>
     \/ Compiling("loop") /\ Head(todo).n > MaxSteps(Head(todo).loop)
  /\ todo' = Tail(todo)
  /\ phase' = IF Len(todo) = 1 THEN "envs" ELSE phase
  /\ UNCHANGED <<recipe, dry, ops, pc, attached, World>>

(* load_attached_envs: a second listing; a dry run does without.           *)
LoadEnvs ==
  /\ phase = "envs"
  /\ \/ ~ dry /\ phase' = "run" /\ attached' = [i \in Instances |-> inst[i].env]
     \/ phase' = (IF dry THEN "run" ELSE "failed") /\ UNCHANGED attached
  /\ UNCHANGED <<recipe, dry, todo, ops, pc, World>>

-----------------------------------------------------------------------------
(* execute_recipe_ops.                                                     *)
Running == phase = "run" /\ pc <= Len(ops)
Op == ops[pc]
Here == Target(Op.at, recipe.instance)

Proceed == pc' = pc + 1 /\ UNCHANGED <<recipe, dry, phase, todo, ops, attached, others>>
Fail == phase' = "failed" /\ UNCHANGED <<recipe, dry, todo, ops, pc, attached, others>>

(* Iterations and sleeps send nothing; a dry run sends nothing at all.     *)
SendsNothing ==
  /\ Running
  /\ dry \/ Op.kind \in {"iteration", "sleep"}
  /\ Proceed
  /\ UNCHANGED <<inst, daemons>>

Sends(kinds) == Running /\ ~ dry /\ Op.kind \in kinds

(* A request to an instance, which becomes what `after` says.              *)
Becomes(after) == inst' = [inst EXCEPT ![Here] = after] /\ UNCHANGED daemons

After(n) == [inst[Here] EXCEPT !.ticks = @ + n, !.clock = @ + n]

Set ==
  /\ Sends({"set"}) /\ Here \in Up
  /\ Becomes([inst[Here] EXCEPT !.value = Op.value])
  /\ Proceed

(* InstanceAction::Reset has no test for an env.                           *)
ResetInstance ==
  /\ Sends({"reset"}) /\ Here \in Up
  /\ Becomes([inst[Here] EXCEPT !.value = 0, !.clock = 0])
  /\ Proceed

(* Print and Assert read a sample; an assertion that fails ends the run.   *)
Read ==
  /\ Sends({"print", "assert"}) /\ Here \in Up
  /\ Op.kind = "assert" => Holds(Op, inst[Here].value)
  /\ Becomes(inst[Here])
  /\ Proceed

(* Mutant: the env of the recipe's own instance.                           *)
EnvOfDefault == attached[recipe.instance]

(* Where a Step or a Speed goes.                                           *)
EnvHere == attached[Here]

(* Mutant: an instance in an env takes orders about its time.              *)
OwnsItsTimeAnyway(i) == inst[i].up

(* reject_local_time_control.                                              *)
OwnsItsTime(i) == inst[i].up /\ inst[i].env = None

StepInstance ==
  /\ Sends({"step"}) /\ EnvHere = None /\ OwnsItsTime(Here)
  /\ Becomes(After(Op.n))
  /\ Proceed

SpeedInstance ==
  /\ Sends({"speed"}) /\ EnvHere = None /\ OwnsItsTime(Here) /\ Op.speed > 0
  /\ Becomes([inst[Here] EXCEPT !.speed = Op.speed])
  /\ Proceed

(* A request to an instance fails: the instance is gone, or in an env and  *)
(* asked about its time; it has no such signal, the value or the speed is  *)
(* none, or the library refuses.  The writes of a Set and the ticks of a   *)
(* Step come one by one, and those made before the failure stay made.      *)
InstanceRefuses ==
  /\ Sends({"set", "reset", "print", "assert", "step", "speed"})
  /\ Op.kind \in {"step", "speed"} => EnvHere = None
  /\ \/ Becomes(inst[Here])
     \/ Op.kind = "set" /\ Here \in Up /\ Becomes([inst[Here] EXCEPT !.value = Op.value])
     \/ Op.kind = "reset" /\ Here \in Up /\ Becomes([inst[Here] EXCEPT !.value = 0])
     \/ /\ Op.kind = "step" /\ OwnsItsTime(Here)
        /\ \E n \in 0 .. Op.n : Becomes(After(n))
  /\ Fail

-----------------------------------------------------------------------------
(* The time of an env.                                                     *)

(* Every member makes n ticks, and those in `ahead` one more.              *)
MembersMake(e, n, ahead) ==
  inst' = [i \in Instances |->
    LET m == IF i \in ahead THEN n + 1 ELSE n
    IN IF i \in MembersUp(e) THEN [inst[i] EXCEPT !.ticks = @ + m, !.clock = @ + m] ELSE inst[i]]

TicksMade(e, n) ==
  /\ MembersUp(e) = Members[e]
  /\ MembersMake(e, n, {})
  /\ daemons' = [daemons EXCEPT ![e].ticks = @ + n]

(* After n ticks one fails, which the env does not count: a member is gone *)
(* or fails its step, the bus or the trace fails.  Of the members that run *)
(* any may have made the tick.                                             *)
TickFails(e, n, closing) ==
  /\ n > 0 => MembersUp(e) = Members[e]
  /\ \E ahead \in SUBSET MembersUp(e) : MembersMake(e, n, ahead)
  /\ daemons' = [daemons EXCEPT ![e].ticks = @ + n, ![e].failed = @ + 1, ![e].closing = closing]

(* An env steps its members together, while its clock stands, and stops at *)
(* the first tick that fails.                                              *)
StepEnv ==
  /\ Sends({"step"}) /\ EnvHere # None
  /\ LET daemon == daemons[EnvHere]
     IN /\ daemon.state = "paused"
        /\ \/ ~ daemon.closing /\ TicksMade(EnvHere, Op.n) /\ Proceed
           \/ /\ ~ daemon.closing
              /\ \E n \in 0 .. Op.n - 1 : TickFails(EnvHere, n, FALSE)
              /\ Fail
           \/ daemon.closing /\ Proceed /\ UNCHANGED <<inst, daemons>>

SpeedEnv ==
  /\ Sends({"speed"}) /\ EnvHere # None
  /\ daemons[EnvHere].state # "gone" /\ Op.speed > 0
  /\ Proceed
  /\ UNCHANGED <<inst, daemons>>

(* The env is gone, its clock runs, or the duration or speed is none.      *)
EnvRefuses ==
  /\ Sends({"step", "speed"}) /\ EnvHere # None
  /\ Fail
  /\ UNCHANGED <<inst, daemons>>

Finish ==
  /\ phase = "run" /\ pc > Len(ops)
  /\ phase' = "done"
  /\ UNCHANGED <<recipe, dry, todo, ops, pc, attached, World>>

-----------------------------------------------------------------------------
(* The other commands.                                                     *)
OtherDoes(what) ==
  /\ what \in Others /\ others < MaxOthers
  /\ phase \notin {"done", "failed"}
  /\ others' = others + 1
  /\ UNCHANGED <<recipe, dry, phase, todo, ops, pc, attached>>

OtherCloses(i) ==
  /\ OtherDoes("close") /\ i \in Up
  /\ inst' = [inst EXCEPT ![i] = Down]
  /\ UNCHANGED daemons

(* The flag is set; a request already received is served before it is seen.*)
OtherClosesEnv(e) ==
  /\ OtherDoes("close") /\ daemons[e].state # "gone"
  /\ daemons' = [daemons EXCEPT ![e].closing = TRUE]
  /\ UNCHANGED inst

OtherLoads(i) ==
  /\ OtherDoes("start") /\ i \notin Up
  /\ inst' = [inst EXCEPT ![i] = Fresh(None)]
  /\ UNCHANGED daemons

OtherStartsEnv(e) ==
  /\ OtherDoes("start") /\ daemons[e].state = "gone" /\ Members[e] \cap Up = {}
  /\ daemons' = [daemons EXCEPT ![e] = Started]
  /\ inst' = [i \in Instances |-> IF i \in Members[e] THEN Fresh(e) ELSE inst[i]]

OtherTurnsClock(e) ==
  /\ OtherDoes("clock")
  /\ \/ /\ daemons[e].state = "paused"
        /\ daemons' = [daemons EXCEPT ![e].state = "running"]
     \/ /\ daemons[e].state = "running"
        /\ daemons' = [daemons EXCEPT ![e].state = "paused"]
  /\ UNCHANGED inst

(* A running clock makes a tick; one that fails ends the env.              *)
ClockTicks(e) ==
  /\ OtherDoes("clock")
  /\ daemons[e].state = "running" /\ ~ daemons[e].closing
  /\ TicksMade(e, 1) \/ TickFails(e, 0, TRUE)

(* An env that closes takes its members with it.                           *)
EnvEnds(e) ==
  /\ daemons[e].closing /\ phase \notin {"done", "failed"}
  /\ daemons' = [daemons EXCEPT ![e] = Gone]
  /\ inst' = [i \in Instances |-> IF i \in MembersUp(e) THEN Down ELSE inst[i]]
  /\ UNCHANGED <<recipe, dry, phase, todo, ops, pc, attached, others>>

Command ==
  \/ CheckInstances \/ CompileStep \/ CompileIteration \/ CompileReturn \/ LoadEnvs
  \/ SendsNothing \/ Set \/ ResetInstance \/ Read
  \/ StepInstance \/ SpeedInstance \/ InstanceRefuses
  \/ StepEnv \/ SpeedEnv \/ EnvRefuses
  \/ Finish

Other ==
  \/ \E i \in Instances : OtherCloses(i) \/ OtherLoads(i)
  \/ \E e \in Envs :
       OtherClosesEnv(e) \/ OtherStartsEnv(e) \/ OtherTurnsClock(e) \/ ClockTicks(e) \/ EnvEnds(e)

Next == Command \/ Other \/ (phase \in {"done", "failed"} /\ UNCHANGED vars)

(* The command's own process is scheduled, and its requests are answered.  *)
Spec == Init /\ [][Next]_vars /\ WF_vars(Command)

-----------------------------------------------------------------------------
DaemonStates ==
  [state : {"gone", "paused", "running"}, closing : BOOLEAN, ticks : Nat, failed : Nat]
InstanceStates ==
  [up : BOOLEAN, env : Envs \cup {None}, ticks : Nat, clock : Nat, value : Int, speed : Int]

TypeOK ==
  /\ recipe \in Recipes /\ dry \in BOOLEAN
  /\ phase \in {"list", "compile", "envs", "run", "done", "failed"}
  /\ todo \in Seq(Calls) /\ ops \in Seq(Ops)
  /\ pc \in 1 .. Len(ops) + 1
  /\ attached \in [Instances -> Envs \cup {None}]
  /\ inst \in [Instances -> InstanceStates]
  /\ \A i \in Instances : ~ inst[i].up => inst[i] = Down
  /\ daemons \in [Envs -> DaemonStates]
  /\ others \in 0 .. MaxOthers

(* A loop sets values of its range and no others: each iteration that is   *)
(* compiled is of one of the recipe's loops, within its range, a multiple  *)
(* of its `by` away from its start, and followed by the Set of its value.  *)
InRange(s, v) == (v - s.from) * s.by >= 0 /\ (s.to - v) * s.by >= 0
IterationOf(s, v) == InRange(s, v) /\ \E n \in 0 .. MaxSteps(s) : v = s.from + s.by * n
IterationsInRange ==
  \A j \in DOMAIN ops : ops[j].kind = "iteration" =>
    /\ j < Len(ops) /\ ops[j + 1] = SetTo(ops[j].value, ops[j + 1].at)
    /\ \E s \in Unrollable : IterationOf(s, ops[j].value)

(* What is compiled is what the recipe says: every step once and in order, *)
(* at the innermost instance named around it, and a loop's body once for   *)
(* every value of its range, from the first to the last.                   *)
Values(s) ==
  LET values == {v \in (s.from .. s.to) \cup (s.to .. s.from) :
                   InRange(s, v) /\ (v - s.from) % Abs(s.by) = 0}
  IN SetToSortSeq(values, LAMBDA v, w : (w - v) * s.by > 0)

Meaning[steps \in Seq(Steps), at \in Places] ==
  IF steps = <<>> THEN <<>>
  ELSE LET s == Head(steps)
           here == Target(s.at, at)
           iteration(v) == <<Iteration(v), SetTo(v, here)>> \o Meaning[s.each, here]
           all == IF s.kind # "for" THEN <<<<[s EXCEPT !.at = here]>>>>
                  ELSE [n \in DOMAIN Values(s) |-> iteration(Values(s)[n])]
       IN FlattenSeq(all) \o Meaning[Tail(steps), at]

CompiledAsMeant ==
  phase \in {"envs", "run", "done"} => ops = Meaning[recipe.steps, None]

(* A dry run reaches its end without touching an instance or an env.       *)
DryRunTouchesNothing ==
  dry /\ (pc' # pc \/ phase' # phase) => UNCHANGED <<inst, daemons>>

(* A Step that is reported done has moved the instance it names: its env   *)
(* moved it, or it moved itself.  Only an env that is closing reports one  *)
(* done that it did not begin.                                             *)
StepReachesTarget ==
  phase = "run" /\ pc' = pc + 1 /\ ~ dry /\ Op.kind = "step"
    => \/ inst'[Here].ticks = inst[Here].ticks + Op.n
       \/ EnvHere # None /\ daemons[EnvHere].closing /\ UNCHANGED inst

(* However stale the recipe's view of the envs, a member is never behind   *)
(* its env's clock, and ahead of it by no more than the ticks that failed: *)
(* with none failed, the members are all at the same tick.                 *)
LockstepKept ==
  \A e \in Envs : \A i \in MembersUp(e) :
    /\ daemons[e].ticks <= inst[i].ticks
    /\ inst[i].ticks <= daemons[e].ticks + daemons[e].failed

(* Who is in an env, or was when the recipe looked, is one of its members. *)
EnvsHoldMembers ==
  \A i \in Instances :
    /\ inst[i].env # None => i \in Members[inst[i].env]
    /\ attached[i] # None => i \in Members[attached[i]]

(* Every recipe comes to an end.                                           *)
Ended == phase \in {"done", "failed"}

=============================================================================
