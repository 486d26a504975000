---------------------------- MODULE MCDestination ----------------------------
(* Address books of up to three entries drawn from three destination       *)
(* records, and every shape of parameter list destination accepts.         *)
EXTENDS Destination

S1 == [addr |-> <<"a", "b">>, source |-> <<"c">>, base64 |-> <<"b">>,
       tried |-> TRUE, attempts |-> 1, lasttry |-> 5, success |-> 5]
S2 == [addr |-> <<"c">>, source |-> <<"a">>, base64 |-> <<"c">>,
       tried |-> FALSE, attempts |-> 0, lasttry |-> 0, success |-> 0]
S3 == [addr |-> <<"c">>, source |-> <<"c">>, base64 |-> <<"a", "b">>,
       tried |-> FALSE, attempts |-> 2, lasttry |-> 3, success |-> 0]
MCStats == {S1, S2, S3}

Patterns == {<<>>, <<"b">>, <<"a", "b">>}
MCCalls ==
    {[n |-> 0, cmd |-> "", str |-> <<>>]}
    \cup {[n |-> 1, cmd |-> c, str |-> <<>>] : c \in {"match", "good", "attempt", "connect", "tried"}}
    \cup {[n |-> 2, cmd |-> "match", str |-> p] : p \in Patterns}
    \cup {[n |-> 2, cmd |-> "connect", str |-> <<"a">>]}
    \cup {[n |-> 3, cmd |-> "good", str |-> <<>>]}
====
