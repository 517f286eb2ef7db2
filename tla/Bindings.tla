---------------------------- MODULE Bindings ----------------------------
(***************************************************************************)
(* What an event is bound to (config.rs, runtime_event_actions.rs).  Each  *)
(* <binding> of the configuration has an input, conditions and a chain of  *)
(* outputs.  Event types with an indexed parameter keep their bindings in  *)
(* buckets, by the value a binding asks of that parameter, with one more   *)
(* for those that ask for none in particular; a lookup reads two buckets.  *)
(* A dispatch runs the chain it finds: some outputs set variables that the *)
(* outputs behind them read, some dispatch an event of their own.          *)
(*                                                                         *)
(* One variable, and one condition on it, stand for all; an expression is  *)
(* a literal, the variable or the indexed parameter.  Parsing, ranges and  *)
(* the actions a command stands for are left out.                          *)
(***************************************************************************)
EXTENDS Integers, SequencesExt

CONSTANTS
  Anything,             \* a condition that is not there
  Var, Arg,             \* the expressions that read the variable, and the indexed parameter
  Nodes,                \* the <binding> elements a configuration is made of
  MaxNodes,             \* bound: of one configuration
  MaxIndex,             \* max_index of the indexed parameters
  RawValues,            \* bound: what an event carries in it
  VarValues,            \* bound: what the variable holds at first
  MAX_GOSUB_DEPTH,
  BatchCapacity,        \* of ActionBatch
  MaxEvents             \* bound: events of a behaviour

Indexed    == {"key", "sub"}           \* the types with an indexed parameter,
InputTypes == Indexed \union {"note"}  \* and one without, a key of a MIDI keyboard

\* parse_binding_node: an element without an output is refused.
Elementary ==
  [input : InputTypes, index : Int \union {Anything, Var}, when : Int \union {Anything}, echo : BOOLEAN,
   outputs : Seq([op : {"set", "send", "gosub", "bad"}, value : Int \union {Var, Arg}]) \ {<<>>}]

ASSUME BindingsAssumption ==
  /\ Nodes \subseteq Elementary
  /\ {Anything, Var, Arg} \intersect Int = {} /\ Var # Anything /\ Arg # Var
  /\ MaxIndex \in Nat \ {0} /\ {MaxNodes, MAX_GOSUB_DEPTH, BatchCapacity} \subseteq Nat
  /\ RawValues \union VarValues \subseteq Int

VARIABLES
  file,      \* the configuration, in the order of its elements
  registry,  \* BindingRegistry: per type, buckets of bindings
  variable,  \* its value
  outcome,   \* of the last event: what it did and sent, whether it failed or was echoed
  events

bindingVars == <<file, registry, variable, outcome, events>>

--------------------------------------------------------------------------
(* Loading                                                                 *)

\* parse_binding_node: only the first of a chain has the conditions and the echo, and all
\* but the last are continued.
Chain(n) ==
  [i \in DOMAIN n.outputs |->
     [index |-> IF i = 1 THEN n.index ELSE Anything, when |-> IF i = 1 THEN n.when ELSE Anything,
      echo |-> i = 1 /\ n.echo, output |-> n.outputs[i], continued |-> i < Len(n.outputs)]]

\* binding_bucket_index; the last bucket is for the rest.
Bucket(raw) == IF raw < 0 THEN MaxIndex ELSE raw % MaxIndex

\* Mutant: what the variable holds while the configuration is read.
BadLoadBucket(n) ==
  IF n.input \notin Indexed THEN 0
  ELSE IF n.index = Anything THEN MaxIndex
  ELSE IF n.index = Var THEN Bucket(0) ELSE Bucket(n.index)

\* create_conditions_from_attr: an expression that is not static has no bucket of its own.
LoadBucket(n) ==
  IF n.input \notin Indexed THEN 0
  ELSE IF n.index \in {Anything, Var} THEN MaxIndex ELSE Bucket(n.index)

\* All that are there, one after the other.
Load(nodes) ==
  LET loaded[n \in 0..Len(nodes)] ==
        IF n = 0 THEN [t \in InputTypes |-> [b \in 0..MaxIndex |-> <<>>]]
        ELSE LET node == nodes[n] IN
             [loaded[n - 1] EXCEPT ![node.input][LoadBucket(node)] = @ \o Chain(node)]
  IN  loaded[Len(nodes)]

Configurations == BoundedSeq(Nodes, MaxNodes)

--------------------------------------------------------------------------
(* Matching                                                                *)

\* An event is [input, raw]; x is the variable.
Value(exp, ev, x) == CASE exp = Var -> x [] exp = Arg -> ev.raw [] OTHER -> exp

\* check_conditions.
Holds(b, ev, x) ==
  /\ b.index = Anything \/ Value(b.index, ev, x) = ev.raw
  /\ b.when = Anything \/ b.when = x

\* match_binding_index, and collect_continued_bindings from there.
Found(bucket, ev, x) ==
  LET starts == {i \in DOMAIN bucket : i = 1 \/ ~bucket[i - 1].continued}
      hits   == {i \in starts : Holds(bucket[i], ev, x)}
      first  == CHOOSE i \in hits : \A j \in hits : i <= j
      last   == CHOOSE i \in first..Len(bucket) :
                  ~bucket[i].continued /\ \A j \in first..(i - 1) : bucket[j].continued
  IN IF hits = {} THEN <<>> ELSE SubSeq(bucket, first, last)

\* dispatch_event_bindings: the bucket of the value, then the one for the rest.
Matched(ev, x) ==
  LET table == registry[ev.input]
      exact == Found(table[IF ev.input \in Indexed THEN Bucket(ev.raw) ELSE 0], ev, x)
  IN IF exact = <<>> /\ ev.input \in Indexed THEN Found(table[MaxIndex], ev, x) ELSE exact

\* map_unbound_native_input: the synth plays a note nothing is bound to.
Unbound(ev) == IF ev.input = "note" THEN <<[output |-> [op |-> "send", value |-> 0]]>> ELSE <<>>

\* Only what came from a MIDI keyboard goes on to the instruments.
Echoes(ev, chain) == ev.input = "note" /\ (chain = <<>> \/ chain[1].echo)

--------------------------------------------------------------------------
(* Dispatching                                                             *)

\* A dispatch in progress: x the variable, log what was done in which order, batch how many
\* actions wait, failed once an output or a nested event has failed.
Dispatches ==
  [x : Int, log : Seq([did : {"set", "send", "other"}, value : Int]), batch : Nat, failed : BOOLEAN]

\* An event on its way through dispatch_at_depth, and what was done before it.
Calls == [ev : [input : InputTypes, raw : Int], d : Dispatches]

Begin(x) == [x |-> x, log |-> <<[did |-> "set", value |-> x]>>, batch |-> 0, failed |-> FALSE]

\* Mutant: the parameters an output had when the event was matched.
BadParameter(out, ev, d, matched) == Value(out.value, ev, matched)

\* The parameters are evaluated again before each output.
Parameter(out, ev, d, matched) == Value(out.value, ev, d.x)

SetVariable(out, ev, d, matched) ==
  LET v == Parameter(out, ev, d, matched)
  IN [d EXCEPT !.x = v, !.log = Append(@, [did |-> "set", value |-> v])]

PushAction(out, ev, d, matched) ==
  IF d.batch = BatchCapacity THEN [d EXCEPT !.failed = TRUE]
  ELSE [d EXCEPT !.batch = @ + 1,
                 !.log = Append(@, [did |-> IF out.value = Var THEN "send" ELSE "other",
                                    value |-> Parameter(out, ev, d, matched)])]

\* ActionBatch::append: a nested event fills a batch of its own.
Join(d, nested) ==
  IF nested.failed \/ d.batch + nested.batch > BatchCapacity THEN [nested EXCEPT !.failed = TRUE]
  ELSE [nested EXCEPT !.batch = @ + d.batch]

\* map_binding, and apply_variable_output before it; deeper dispatches the nested event.
RunOutput(out, ev, d, matched, deeper) ==
  LET sub == [input |-> "sub", raw |-> Parameter(out, ev, d, matched)] IN
  CASE out.op = "set"   -> SetVariable(out, ev, d, matched)
    [] out.op = "send"  -> PushAction(out, ev, d, matched)
    [] out.op = "gosub" -> Join(d, deeper[[ev |-> sub, d |-> [d EXCEPT !.batch = 0]]])
    [] out.op = "bad"   -> [d EXCEPT !.failed = TRUE]   \* a parameter is missing

\* The outputs in order: the first failure ends it, and what was set stays set.
RunChain(chain, ev, d, deeper) ==
  LET ran[i \in 0..Len(chain)] ==
        IF i = 0 THEN d
        ELSE LET before == ran[i - 1] IN
             IF before.failed THEN before ELSE RunOutput(chain[i].output, ev, before, d.x, deeper)
  IN  ran[Len(chain)]

\* What an event does, with so many levels left to it.
DispatchAtDepth ==
  LET dispatched[left \in 0..(MAX_GOSUB_DEPTH + 1)] ==
        [call \in Calls |->
           LET chain == Matched(call.ev, call.d.x) IN
           IF left = 0 THEN [call.d EXCEPT !.failed = TRUE]
           ELSE RunChain(IF chain = <<>> THEN Unbound(call.ev) ELSE chain, call.ev, call.d,
                         dispatched[left - 1])]
  IN  dispatched[MAX_GOSUB_DEPTH + 1]

\* dispatch_one_runtime_event: an event that fails sends nothing; the command ring takes the
\* rest while it has room, and an event that does not get all of it through is not echoed.
DispatchEvent(ev, room) ==
  LET d    == DispatchAtDepth[[ev |-> ev, d |-> Begin(variable)]]
      sent == IF d.failed THEN 0 ELSE IF d.batch < room THEN d.batch ELSE room
  IN /\ events < MaxEvents /\ events' = events + 1
     /\ variable' = d.x
     /\ outcome' = [log |-> d.log, sent |-> sent, failed |-> d.failed \/ sent < d.batch,
                    echoed |-> ~d.failed /\ sent = d.batch /\ Echoes(ev, Matched(ev, variable))]
     /\ UNCHANGED <<file, registry>>

BindingsInit ==
  /\ file \in Configurations /\ registry = Load(file)
  /\ variable \in VarValues
  /\ outcome = [log |-> <<>>, sent |-> 0, failed |-> FALSE, echoed |-> FALSE]
  /\ events = 0

BindingsNext ==
  \E t \in InputTypes \ {"sub"}, raw \in RawValues, room \in 0..BatchCapacity :
    DispatchEvent([input |-> t, raw |-> raw], room)

BindingsSpec == BindingsInit /\ [][BindingsNext]_bindingVars

--------------------------------------------------------------------------
(* Properties                                                              *)

\* The two buckets stand for the whole list: an event runs the chain of the first element
\* of the configuration that asks for exactly its value and whose conditions hold, or else
\* of the first whose conditions hold.
SpecificFirst ==
  \A t \in {file[i].input : i \in DOMAIN file}, raw \in RawValues :
    LET ev == [input |-> t, raw |-> raw]
        hits == {i \in DOMAIN file : file[i].input = t /\ Holds(file[i], ev, variable)}
        exact == {i \in hits : t \in Indexed /\ raw >= 0 /\ file[i].index = raw}
        first(S) == CHOOSE i \in S : \A j \in S : i <= j
    IN Matched(ev, variable) = IF exact # {} THEN Chain(file[first(exact)])
                               ELSE IF hits # {} THEN Chain(file[first(hits)]) ELSE <<>>

\* "Re-evaluation lets output1 variable changes feed output2" (runtime_event_actions.rs:333):
\* a command that carries the variable carries what the last output before it has set, in
\* its own chain or in an event that chain dispatched, or else what it was at first.
SendsSeeWrites ==
  \A i \in DOMAIN outcome.log : outcome.log[i].did = "send" =>
    LET sets == {j \in 1..i : outcome.log[j].did = "set"}
    IN outcome.log[i].value = outcome.log[CHOOSE j \in sets : \A k \in sets : k <= j].value
==========================================================================
