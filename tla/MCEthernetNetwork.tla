------------------------- MODULE MCEthernetNetwork -------------------------
(* Instances of EthernetNetwork for TLC: three devices in a loop. *)
EXTENDS EthernetNetwork

CONSTANTS s1, s2, s3, a, b  \* the devices, and the hosts on s1 and s2

Loop ==
  [d \in Devices |-> CASE d = s1 -> <<s2, s3, a>>
                       [] d = s2 -> <<s3, b, s1>>
                       [] d = s3 -> <<s1, s2>>]

Frame(x, y) == [src |-> x, dst |-> y, size |-> 60]

(* Two hosts that talk to each other, and a frame that is too short *)
TalkAndShort == {Frame(a, b), Frame(b, a), [Frame(a, b) EXCEPT !.size = 13]}

(* Bounds: time passes only once while packets are under way; a host moves *)
(* meanwhile only when no time has passed and one frame was sent; a move   *)
(* counts as a frame; only the first frame may be short.                   *)
SeldomLate ==
  \/ prompt
  \/ now <= 1 /\ moves = 0
  \/ now = 0 /\ Len(sends) <= 1
FewSends ==
  /\ Len(sends) + moves <= 3
  /\ \A n \in 2 .. Len(sends) : ~ TooShort(sends[n].frame)
=============================================================================
