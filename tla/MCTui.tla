---- MODULE MCTui ----
EXTENDS ExecutionManager, TLC
CONSTANTS a
Snap(d, f, at, n, p, h) == [detail |-> d, function_calls |-> f, opcode |-> "ADD", bytecode_address |-> a, at |-> at, next_id |-> n, prev_id |-> p, holds |-> h]
MCRecordings == { (0 :> Snap("hook",0,1,1,0,{})) @@ (1 :> Snap("hook",0,2,2,0,{"c"})) @@ (2 :> Snap("hook",1,1,3,1,{"c"})) @@ (3 :> Snap("hook",0,2,3,2,{})) ,
 (0 :> Snap("hook",1,1,3,0,{})) @@ (1 :> Snap("hook",0,2,2,0,{})) @@ (2 :> Snap("hook",0,2,3,1,{"c"})) @@ (3 :> Snap("hook",0,2,3,0,{})) }
MCLocations == {<<"hook", a, 2>>}
Seen(ids) == {<<"code_at", id>> : id \in ids}
MCSessions ==
  {[commands |-> {"next_call", "step", "add", "remove", "condition"}, known |-> Seen(0..3)],
   [commands |-> {"prev_call", "goto", "add", "enable", "reverse_step"}, known |-> Seen(0..3)],
   [commands |-> {"next", "prev", "reverse_step", "display"}, known |-> Seen(0..2)],
   [commands |-> {"next", "add"}, known |-> {}]}
====
