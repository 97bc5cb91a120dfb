---- MODULE MCTuiPanels ----
EXTENDS TuiApp
CONSTANTS a, b

Hook(path, line, call, entry, next, prev) ==
  [detail |-> "hook", at |-> <<path, line>>, function_calls |-> call, opcode |-> "ADD",
   bytecode_address |-> a, entry |-> entry, next_id |-> next, prev_id |-> prev, holds |-> {},
   locals |-> <<"x">>]
Opcode(pc, opcode, stack, entry, next, prev) ==
  [detail |-> "opcode", at |-> <<"pc", pc>>, function_calls |-> 0, opcode |-> opcode, bytecode_address |-> b,
   entry |-> entry, next_id |-> next, prev_id |-> prev, holds |-> {},
   stack |-> stack, memory |-> <<>>, calldata |-> 1, stored |-> 0, transient |-> 0]

MCRecordings ==
  {(0 :> Hook("A", 3, 1, 1, 2, 0)) @@ (1 :> Opcode(4, "SSTORE", <<1, 2>>, 2, 2, 0)) @@ (2 :> Hook("B", 1, 0, 1, 2, 0))}

MCCodeOf ==
  (a :> [in |-> "hook", files |-> <<[path |-> "A", blank |-> <<FALSE, TRUE, FALSE>>],
                                    [path |-> "B", blank |-> <<FALSE>>]>>])
  @@ (b :> [in |-> "opcode", pcs |-> <<<<"pc", 0>>, <<"pc", 4>>>>])

MCTrace ==
  <<[parent |-> 0, details |-> 0, first |-> 0], [parent |-> 1, details |-> 0, first |-> 1]>>

Session(layout, layouts, mouse, known, keys) ==
  [commands |-> {}, known |-> known, layout |-> layout, layouts |-> layouts,
   mouse |-> mouse, clicks |-> mouse, keys |-> keys]

Seen(ids) == {<<"code_at", id>> : id \in ids}
All == Seen({0, 1, 2}) \union {<<"diff", 1>>} \union {<<kind, id>> : kind \in {"next", "prev"}, id \in {0, 1, 2}}

MCSessions ==
  {Session("Full", {}, FALSE, Seen({0, 2}), {"Space", "f", "Down", "Enter"}),
   Session("Mobile", {}, FALSE, Seen({0}), {"F2", "F3", "c"}),
   Session("Compact", {"Mobile"}, TRUE, Seen({0, 1, 2}), {"Enter"}),
   Session("Compact", {}, FALSE, Seen({0}), {"Tab", "n", "Enter", "Up"}),
   Session("Mobile", {}, FALSE, Seen({0, 2}), {"F4", "s", "Enter"}),
   Session("Mobile", {}, FALSE, All, {"F2", "b", "F3", "S", "Enter"}),
   Session("Mobile", {}, FALSE, All, {"F1", "F2", "F3", "F4", "BackTab", "?", "\\", "Esc", "Ctrl+D"}),
   Session("Full", {}, FALSE, Seen({0, 1}), {"BackTab", "Space", "Ctrl+Up", "Ctrl+C", "x"}),
   Session("Mobile", {}, FALSE, All, {"F4", "Esc", "k", "}", "i", "g"}),
   Session("Mobile", {"Full"}, FALSE, All, {"c", "v", "Enter", "F1"}),
   Session("Mobile", {}, FALSE, All, {"c", ":", "9", "Enter"}),
   Session("Mobile", {}, FALSE, All, {"F2", "1", "}", "C"}),
   Session("Mobile", {}, FALSE, All, {"F2", "g", "G", "n", "C"}),
   Session("Mobile", {}, FALSE, Seen({0, 1}), {"F4", "break add", "break disable 1", "Enter"}),
   Session("Mobile", {}, FALSE, All, {"F4", "break add", "break remove 1", "Enter"}),
   Session("Mobile", {}, FALSE, All, {"F4", "break add", "break add_expr 1", "Enter"}),
   Session("Mobile", {}, FALSE, Seen({0, 1}), {"F4", "stack", "s", "Enter"}),
   Session("Mobile", {}, FALSE, All, {"F4", "c", "Enter", "Backspace"})}
====
