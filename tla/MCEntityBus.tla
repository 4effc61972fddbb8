----------------------------- MODULE MCEntityBus -----------------------------
(* An instance of EntityBus for TLC. *)
EXTENDS EntityBus, TLC

CONSTANTS r1, r2, tree, nw, ne, se, sw, cornerN, cornerS, lamp, player

(* Two rooms side by side, each four wide *)
SideBySide == (r1 :> {[room |-> r2, offset |-> <<4, 0>>]}) @@ (r2 :> {[room |-> r1, offset |-> <<-4, 0>>]})
FourWide == [r \in {r1, r2} |-> 2]

(* The tree fills the first room; the second has the rest of a ring of     *)
(* wires that crosses the border twice.                                    *)
InTree == [t \in {nw, ne, se, sw} |-> tree]
Where == (tree :> r1) @@ [s \in {cornerN, cornerS, lamp, player} |-> r2]
At == (tree :> <<0, 0>>)
   @@ (nw :> <<-1, -1>>) @@ (ne :> <<1, -1>>) @@ (sw :> <<-1, 1>>) @@ (se :> <<1, 1>>)
   @@ (cornerN :> <<-1, -1>>) @@ (cornerS :> <<-1, 1>>) @@ (lamp :> <<1, -1>>) @@ (player :> <<1, 1>>)
Class == [t \in {nw, sw} |-> "twin"] @@ (ne :> "tee") @@ (se :> "elbow")
      @@ (cornerN :> "tee2") @@ (cornerS :> "elbow2") @@ (lamp :> "lamp") @@ (player :> "player")

Node(p, d) == [position |-> p, facing |-> d]
Link(i, j, r) == [ends |-> <<i, j>>, resistance |-> r]
L == <<-1, 0>>
R == <<1, 0>>
U == <<0, -1>>
D == <<0, 1>>

(* In "tee", the way through the middle is better than the straight one.   *)
WiresOf ==
     [c \in {"twin", "lamp", "player"} |-> NoNetwork]
  @@ ("tee" :> [nodes |-> <<Node(L, L), Node(R, R), Node(<<0, 0>>, Inside), Node(D, D)>>,
                links |-> <<Link(1, 2, 3), Link(1, 3, 1), Link(2, 3, 1), Link(3, 4, 1)>>])
  @@ ("elbow" :> [nodes |-> <<Node(U, U), Node(R, R), Node(L, L)>>,
                  links |-> <<Link(1, 2, 1), Link(1, 3, 1)>>])
  @@ ("tee2" :> [nodes |-> <<Node(L, L), Node(R, R), Node(D, D)>>,
                 links |-> <<Link(1, 2, 5), Link(1, 3, 1)>>])
  @@ ("elbow2" :> [nodes |-> <<Node(U, U), Node(L, L)>>, links |-> <<Link(1, 2, 1)>>])

Set(v) == [op |-> "set", var |-> v]
Send(m) == [op |-> "send", message |-> m]
Eyes == "eyes" :> [kind |-> "vision"]
Port(pos, program) ==
  "port" :> [kind |-> "port", position |-> pos, direction |-> R, power |-> 7, program |-> program]
Arm(offset) == "arm" :> [kind |-> "appendage", offset |-> offset]

(* Nothing has a subsystem "bell". *)
SubsystemsOf ==
     [c \in {"tee", "elbow", "tee2", "elbow2"} |-> <<>>]
  @@ ("twin" :> (("b1" :> [kind |-> "button", program |-> <<Set("left"), Send(<<"port", "signal">>)>>])
              @@ ("b2" :> [kind |-> "button", program |-> <<Set("right")>>])
              @@ ("cpu" :> [kind |-> "computer", program |-> <<Set("busy"), Send(<<"arm", "poke">>)>>])
              @@ Port(R, <<Set("rang")>>) @@ Arm(<<0, -2>>) @@ Eyes))
  @@ ("lamp" :> (Port(<<0, 0>>, <<Set("lit"), Send(<<"eyes", "enabled">>), Send(<<"bell">>)>>) @@ Eyes))
  @@ ("player" :> (Arm(<<-6, 0>>) @@ Eyes
              @@ ("self" :> [kind |-> "morpher"]) @@ ("link" :> [kind |-> "bridge", to |-> nw])))

Do(e, m) == [kind |-> "message", entity |-> e, message |-> m]
SixInputs == {Do(nw, <<"b1", "poke">>), Do(sw, <<"cpu">>), Do(sw, <<"arm", "poke">>),
              Do(player, <<"arm", "poke">>), Do(player, <<"self", "resetanimation">>),
              Do(player, <<"link", "eyes", "enabled">>)}
=============================================================================
