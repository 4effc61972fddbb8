------------------------------ MODULE MCForth ------------------------------
(* Instances of Forth for TLC. *)
EXTENDS Forth

SmallNumbers == ("1" :> 1) @@ ("2" :> 2)

(* Definitions of p and q, used before and after them *)
Definitions ==
  [prefix |-> <<>>, length |-> 12, fuel |-> 5,
   alphabet |-> {"space", ":", ";", "code-label:", "alias:", "p", "q", "jump:p", "1"}]

(* Quotes, escapes and comments *)
Quotes ==
  [prefix |-> <<>>, length |-> 5, fuel |-> 2,
   alphabet |-> {"space", "newline", "tab", "sharp", "quote", "open", "close", "backslash", "n", "1"}]

(* Numbers on the data stack *)
Stacks ==
  [prefix |-> <<"1", "space">>, length |-> 5, fuel |-> 5,
   alphabet |-> {"space", "1", "2", "dup", "drop", "swap", "pick"} \cup Binary]

(* Loops, and the return stack, in p, which is called before its definition *)
Loops ==
  [prefix |-> <<"code-label:", "space", "p", "space", "1", "space", "p", "space", ":", "space", "p", "space">>,
   length |-> 6, fuel |-> 6,
   alphabet |-> {"space", "$p", "jump:p", "jump", "-", "dup", ";", "p", "jump-if-nonzero",
                 "jump-if-zero", "exit", ">r", "r>", "call"}]

(* Contexts that are saved, changed and restored *)
Contexts ==
  [prefix |-> <<"context-variable:", "space", "$v", "space", "1", "space", "save-context", "space">>,
   length |-> 8, fuel |-> 9,
   alphabet |-> {"space", "2", "v", "$v", "!", "@", "scale", "save-context", "restore-context"}]

(* Loops in p of words that use no fuel, with others or without, which is   *)
(* called when a context is saved.  None saves one again and again: that    *)
(* would have no end of states.                                            *)
FreeLoops ==
  [prefix |-> <<"save-context", "space", "code-label:", "space", "p", "space", "1", "space", "p", "space",
                ":", "space", "p", "space">>,
   length |-> 8, fuel |-> 5,
   alphabet |-> {"space", "jump:p", "scale", "restore-context", "dup", "jump-if-nonzero", "$p", ";"}]

Sources == {Definitions, Quotes, Stacks, Loops, Contexts, FreeLoops}
=============================================================================
